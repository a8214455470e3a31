---------------------------- MODULE RiskState_proofs ----------------------------
(***************************************************************************)
(* The properties of RiskState for any number of days, any equities and    *)
(* any loss limit; all but TypeOK when the operator halts only a stopped   *)
(* engine (a halt of a running one is overwritten).                        *)
(*                                                                         *)
(* What counts on disk is the newest row (NewestRow).  While an engine     *)
(* runs its own day is the newest with a row (Latest) and it remembers     *)
(* what the operator ordered (Remembered), so that every write of its row  *)
(* repeats the order.  The loss kill and the baseline of the day stay      *)
(* because the manager of an engine agrees with the row of its day (KInv). *)
(***************************************************************************)
EXTENDS RiskState, TLAPS

\* Rows of the past only; a manual kill is a kill.
Table ==
  /\ today \in Day /\ DOMAIN rows = Day
  /\ \A d \in Day : /\ d > today => rows[d] = NoRow
                    /\ rows[d] # NoRow /\ rows[d].manual => rows[d].killed
                    /\ rows[d] # NoRow => rows[d].manual \in BOOLEAN /\ rows[d].killed \in BOOLEAN

Fields == {"day", "pending", "restored", "start", "killed", "manual"}

Latest ==
  engine # "down" =>
    /\ DOMAIN risk = Fields /\ risk.day \in Day /\ risk.day <= today
    /\ \A d \in Day : d > risk.day => rows[d] = NoRow

Remembered ==
  engine # "down" =>
    /\ risk.manual = ordered /\ risk.killed \in BOOLEAN
    /\ risk.manual => risk.killed

HInv == Table /\ Latest /\ Remembered /\ ordered \in BOOLEAN /\ (PreviousManual <=> ordered)

-------------------------------------------------------------------------------
(* Writing the newest row *)

\* The newest row says what the write says.
LEMMA NewestRow ==
  ASSUME Table, NEW d \in Day, d <= today, today' = today,
         \A c \in Day : c > d => rows[c] = NoRow,
         NEW r, r.killed \in BOOLEAN, r.manual \in BOOLEAN, r.manual => r.killed, r.day = d,
         NEW e, rows' = Persist(r, e)
  PROVE  Table' /\ (PreviousManual' <=> r.manual) /\ rows'[d] # NoRow
         /\ \A c \in Day : c > d => rows'[c] = NoRow
<1> DEFINE row == [start |-> r.start, pnl |-> DailyPnl(r, e), killed |-> r.killed,
                   manual |-> r.manual]
<1>1. row # NoRow
  <2>1. "start" \in DOMAIN row /\ "start" \notin DOMAIN NoRow
    BY DEF NoRow
  <2> QED  BY <2>1
<1>2. rows' = [rows EXCEPT ![d] = row]
  BY DEF Persist
<1>3. rows'[d] = row /\ row.manual = r.manual /\ row.killed = r.killed
  BY <1>2 DEF Table
<1>4. \A c \in Day : c # d => rows'[c] = rows[c]
  BY <1>2 DEF Table
<1> HIDE DEF row
<1>5. Table'
  BY <1>1, <1>2, <1>3, <1>4, RiskAssumption DEF Table, Day
<1>6. d \in Recorded' /\ \A c \in Recorded' : c <= d
  BY <1>1, <1>3, <1>4, RiskAssumption DEF Recorded, Day
<1>7. PreviousManual' <=> r.manual
  <2>1. PreviousManual' <=> \E x \in Recorded' : (\A c \in Recorded' : c <= x) /\ rows'[x].manual
    BY DEF PreviousManual
  <2>2. \A x \in Recorded' : (\A c \in Recorded' : c <= x) => x = d
    BY <1>6, RiskAssumption DEF Recorded, Day
  <2> QED  BY <2>1, <2>2, <1>6, <1>3
<1>8. \A c \in Day : c > d => rows'[c] = NoRow
  BY <1>4, RiskAssumption DEF Day
<1> QED  BY <1>1, <1>3, <1>5, <1>7, <1>8

\* The row of today, if there is one, is the newest.
LEMMA TodayIsNewest ==
  ASSUME Table, rows[today] # NoRow
  PROVE  PreviousManual <=> rows[today].manual
<1>1. today \in Recorded /\ \A c \in Recorded : c <= today
  BY RiskAssumption DEF Table, Recorded, Day
<1>2. \A x \in Recorded : (\A c \in Recorded : c <= x) => x = today
  BY <1>1, RiskAssumption DEF Recorded, Day
<1> QED  BY <1>1, <1>2 DEF PreviousManual

\* The constructor takes over what the disk says of the manual kill.
LEMMA LoadedManual ==
  ASSUME Table, NEW e, NEW mismatch \in BOOLEAN
  PROVE  LET r == Loaded(e, mismatch)
         IN  /\ DOMAIN r = Fields /\ r.day = today
             /\ r.manual \in BOOLEAN /\ r.killed \in BOOLEAN
             /\ r.manual <=> PreviousManual
             /\ r.manual => r.killed
<1>1. CASE rows[today] = NoRow
  BY <1>1 DEF Loaded, Fields, PreviousManual
<1>2. CASE rows[today] # NoRow
  BY <1>2, TodayIsNewest DEF Loaded, Fields, Table
<1> QED  BY <1>1, <1>2

\* The day rollover keeps the order, and moves the engine's day to today.
LEMMA EnsuredDay ==
  ASSUME HInv, engine # "down", NEW e
  PROVE  LET r == EnsureDay(risk, e)
         IN  /\ DOMAIN r = Fields /\ r.day = today
             /\ r.manual = ordered /\ r.killed \in BOOLEAN /\ (r.manual => r.killed)
  BY DEF HInv, Latest, Remembered, EnsureDay, Fields

\* A handler of the engine that writes its row of today.
LEMMA EngineWrites ==
  ASSUME HInv, UNCHANGED <<today, ordered>>, engine' # "down",
         NEW r, DOMAIN r = Fields, r.day \in Day, r.day <= today,
         \A c \in Day : c > r.day => rows[c] = NoRow,
         r.manual = ordered, r.killed \in BOOLEAN, r.manual => r.killed,
         NEW e, risk' = r, rows' = Persist(r, e)
  PROVE  HInv'
<1>1. /\ Table' /\ (PreviousManual' <=> r.manual)
      /\ \A c \in Day : c > r.day => rows'[c] = NoRow
  BY NewestRow DEF HInv
<1> QED  BY <1>1 DEF HInv, Latest, Remembered

\* A handler of the engine that writes nothing.
LEMMA EngineKeeps ==
  ASSUME HInv, UNCHANGED <<today, rows, ordered>>, engine # "down",
         DOMAIN risk' = Fields, risk'.day \in Day, risk'.day <= today, risk'.day >= risk.day,
         risk'.manual = ordered, risk'.killed \in BOOLEAN, risk'.manual => risk'.killed
  PROVE  HInv'
<1>1. PreviousManual' <=> PreviousManual
  BY DEF PreviousManual, Recorded
<1>2. engine' # "down" => \A d \in Day : d > risk'.day => rows'[d] = NoRow
  BY RiskAssumption DEF HInv, Latest, Day
<1> QED  BY <1>1, <1>2 DEF HInv, Table, Latest, Remembered

-------------------------------------------------------------------------------
(* The steps *)

LEMMA BootKeeps ==
  ASSUME HInv, Boot
  PROVE  HInv'
<1>1. PICK e \in Equity, mismatch \in BOOLEAN :
        /\ risk' = Loaded(e, mismatch)
        /\ rows' = IF rows[today] = NoRow THEN rows ELSE Persist(risk', e)
  BY DEF Boot
<1> DEFINE r == Loaded(e, mismatch)
<1>2. /\ DOMAIN r = Fields /\ r.day = today /\ r.manual \in BOOLEAN /\ r.killed \in BOOLEAN
      /\ r.manual <=> PreviousManual
      /\ r.manual => r.killed
  BY LoadedManual DEF HInv
<1>3. r.manual = ordered
  BY <1>2 DEF HInv
<1>4. risk' = r /\ UNCHANGED <<today, ordered>> /\ engine' = "starting" /\ engine = "down"
  BY <1>1 DEF Boot
<1>5. today \in Day /\ today <= today /\ \A c \in Day : c > today => rows[c] = NoRow
  BY RiskAssumption DEF HInv, Table, Day
<1> HIDE DEF r
<1>6. CASE rows[today] = NoRow
  <2>1. rows' = rows
    BY <1>1, <1>6
  <2>2. PreviousManual' <=> PreviousManual
    BY <2>1, <1>4 DEF PreviousManual, Recorded
  <2> QED  BY <2>1, <2>2, <1>2, <1>3, <1>4, <1>5 DEF HInv, Table, Latest, Remembered
<1>7. CASE rows[today] # NoRow
  BY <1>1, <1>2, <1>3, <1>4, <1>5, <1>7, EngineWrites
<1> QED  BY <1>6, <1>7

LEMMA StopKeeps ==
  ASSUME HInv, Stop \/ UNCHANGED vars
  PROVE  HInv'
<1>1. PreviousManual' <=> PreviousManual
  BY DEF PreviousManual, Recorded, Stop, vars
<1> QED  BY <1>1 DEF HInv, Table, Latest, Remembered, Stop, vars

LEMMA NextDayKeeps ==
  ASSUME HInv, NextDay
  PROVE  HInv'
<1>1. today \in Day /\ today' = today + 1 /\ today' \in Day
  BY RiskAssumption DEF HInv, Table, NextDay, Day
<1>2. Recorded' = Recorded
  BY <1>1, RiskAssumption DEF HInv, Table, NextDay, Recorded, Day
<1>3. PreviousManual' <=> PreviousManual
  BY <1>2 DEF PreviousManual, NextDay
<1> QED  BY <1>1, <1>3, RiskAssumption DEF HInv, Table, Latest, Remembered, NextDay, Day

\* halt and resume build a manager from disk and write its row while no engine runs.
LEMMA CommandKeeps ==
  ASSUME HInv, engine = "down", UNCHANGED <<today, engine>>,
         NEW killed \in BOOLEAN, ordered' = killed,
         NEW e \in Equity, NEW mismatch \in BOOLEAN, Command(killed, e, mismatch)
  PROVE  HInv'
<1> DEFINE r == [Loaded(e, mismatch) EXCEPT !.killed = killed, !.manual = killed]
<1>1. r.day = today /\ r.killed = killed /\ r.manual = killed
  BY LoadedManual DEF HInv, Fields
<1>2. rows' = Persist(r, e)
  BY DEF Command
<1>3. today \in Day /\ today <= today /\ \A c \in Day : c > today => rows[c] = NoRow
  BY RiskAssumption DEF HInv, Table, Day
<1> HIDE DEF r
<1>4. Table' /\ (PreviousManual' <=> killed)
  BY <1>1, <1>2, <1>3, NewestRow DEF HInv
<1> QED  BY <1>4 DEF HInv, Latest, Remembered

\* Fills, reconciliations and order results write the row of today.
LEMMA HandlerKeeps ==
  ASSUME HInv, engine # "down", UNCHANGED <<today, engine, ordered>>,
         NEW e, NEW r, r = EnsureDay(risk, e) \/ (EnsureDay(risk, e).pending /\ r = Established(EnsureDay(risk, e), e)),
         NEW f, risk' = [r EXCEPT !.restored = NotRestored] \/ risk' = r,
         rows' = Persist(risk', f)
  PROVE  HInv'
<1>1. LET s == EnsureDay(risk, e)
      IN  /\ DOMAIN s = Fields /\ s.day = today
          /\ s.manual = ordered /\ s.killed \in BOOLEAN /\ (s.manual => s.killed)
  BY EnsuredDay
<1>2. DOMAIN r = Fields /\ r.day = today /\ r.manual = ordered
      /\ r.killed \in BOOLEAN /\ (r.manual => r.killed)
  BY <1>1 DEF Established, Fields, HInv
<1>3. DOMAIN risk' = Fields /\ risk'.day = today /\ risk'.manual = ordered
      /\ risk'.killed \in BOOLEAN /\ (risk'.manual => risk'.killed)
  BY <1>2 DEF Fields
<1>4. today \in Day /\ today <= today /\ \A c \in Day : c > today => rows[c] = NoRow
  BY RiskAssumption DEF HInv, Table, Day
<1> QED  BY <1>3, <1>4, EngineWrites

\* The invariant holds at first and is kept by every step.
THEOREM HaltInductive ==
  ASSUME HaltLive = FALSE
  PROVE  /\ Init => HInv
         /\ HInv /\ [Next]_vars => HInv'
<1>1. Init => HInv
  <2> SUFFICES ASSUME Init PROVE HInv
    OBVIOUS
  <2>1. today = 0 /\ rows = [d \in Day |-> NoRow] /\ engine = "down" /\ ordered = FALSE
    BY DEF Init
  <2>2. Recorded = {}
    BY <2>1 DEF Recorded
  <2>3. ~PreviousManual
    BY <2>2 DEF PreviousManual
  <2>4. today \in Day
    BY <2>1, RiskAssumption DEF Day
  <2> QED  BY <2>1, <2>3, <2>4 DEF HInv, Table, Latest, Remembered
<1>2. HInv /\ [Next]_vars => HInv'
  <2> SUFFICES ASSUME HInv, [Next]_vars PROVE HInv'
    OBVIOUS
  <2>1. CASE Boot
    BY <2>1, BootKeeps
  <2>2. ASSUME NEW known \in BOOLEAN, Fill(known) PROVE HInv'
    <3>1. PICK e \in Equity :
            LET r == EnsureDay(risk, equity)
                s == IF known /\ r.pending THEN Established(r, equity) ELSE r
            IN  risk' = [s EXCEPT !.restored = NotRestored] /\ rows' = Persist(risk', e)
      BY <2>2 DEF Fill
    <3>2. engine # "down" /\ UNCHANGED <<today, engine, ordered>>
      BY <2>2 DEF Fill
    <3> QED  BY <3>1, <3>2, HandlerKeeps
  <2>3. CASE ReconcileCash
    <3>1. PICK e \in Equity :
            risk' = [EnsureDay(risk, e) EXCEPT !.restored = NotRestored]
            /\ rows' = Persist(risk', e)
      BY <2>3 DEF ReconcileCash
    <3>2. engine # "down" /\ UNCHANGED <<today, engine, ordered>>
      BY <2>3 DEF ReconcileCash
    <3> QED  BY <3>1, <3>2, HandlerKeeps
  <2>4. CASE Start
    <3>1. engine = "starting" /\ engine' = "running" /\ UNCHANGED <<today, ordered>>
      BY <2>4 DEF Start
    <3>2. /\ DOMAIN risk = Fields /\ risk.day \in Day /\ risk.day <= today
          /\ \A d \in Day : d > risk.day => rows[d] = NoRow
          /\ risk.manual = ordered /\ risk.killed \in BOOLEAN /\ (risk.manual => risk.killed)
      BY <3>1 DEF HInv, Latest, Remembered
    <3>3. CASE risk.pending
      <4>1. risk' = Established(risk, equity) /\ rows' = Persist(risk', equity)
        BY <2>4, <3>3 DEF Start
      <4>2. /\ DOMAIN risk' = Fields /\ risk'.day = risk.day /\ risk'.manual = ordered
            /\ risk'.killed = risk'.manual
        BY <4>1, <3>2 DEF Established, Fields
      <4> QED  BY <4>1, <4>2, <3>1, <3>2, EngineWrites DEF HInv
    <3>4. CASE ~risk.pending
      <4>1. UNCHANGED <<risk, rows>>
        BY <2>4, <3>4 DEF Start
      <4> QED  BY <4>1, <3>1, <3>2, EngineKeeps, RiskAssumption DEF Day
    <3> QED  BY <3>3, <3>4
  <2>5. CASE Mark
    <3>1. /\ engine # "down" /\ UNCHANGED <<today, rows, engine, ordered>>
          /\ risk' = [risk EXCEPT !.restored = NotRestored]
      BY <2>5 DEF Mark
    <3>2. /\ DOMAIN risk' = Fields /\ risk'.day = risk.day /\ risk'.manual = risk.manual
          /\ risk'.killed = risk.killed
      BY <3>1 DEF HInv, Latest, Fields
    <3> QED  BY <3>1, <3>2, EngineKeeps, RiskAssumption DEF HInv, Latest, Remembered, Day
  <2>6. CASE OrderResult
    <3>1. engine # "down" /\ UNCHANGED <<today, engine, ordered>>
          /\ risk' = EnsureDay(risk, equity) /\ rows' = Persist(risk', equity)
      BY <2>6 DEF OrderResult
    <3> QED  BY <3>1, HandlerKeeps
  <2>7. CASE AskHalt
    <3> DEFINE r == EnsureDay(risk, equity)
               loss == ~r.killed /\ DailyPnl(r, equity) <= -LossKill
    <3>1. engine # "down" /\ UNCHANGED <<today, engine, ordered>>
          /\ risk' = (IF loss THEN [r EXCEPT !.killed = TRUE, !.manual = FALSE] ELSE r)
          /\ rows' = (IF loss \/ r # risk THEN Persist(risk', equity) ELSE rows)
      BY <2>7 DEF AskHalt
    <3>2. /\ DOMAIN r = Fields /\ r.day = today
          /\ r.manual = ordered /\ r.killed \in BOOLEAN /\ (r.manual => r.killed)
      BY <3>1, EnsuredDay
    <3>3. today \in Day /\ today <= today /\ \A c \in Day : c > today => rows[c] = NoRow
      BY RiskAssumption DEF HInv, Table, Day
    <3> HIDE DEF r
    <3>4. CASE loss
      <4>1. r.manual = FALSE
        BY <3>2, <3>4 DEF HInv
      <4>2. risk' = [r EXCEPT !.killed = TRUE, !.manual = FALSE] /\ rows' = Persist(risk', equity)
        BY <3>1, <3>4
      <4>3. DOMAIN risk' = Fields /\ risk'.day = today /\ risk'.manual = FALSE /\ risk'.killed = TRUE
        BY <4>2, <3>2 DEF Fields
      <4> QED  BY <4>1, <4>2, <4>3, <3>1, <3>2, <3>3, EngineWrites DEF HInv
    <3>5. CASE ~loss /\ r # risk
      BY <3>1, <3>2, <3>3, <3>5, EngineWrites
    <3>6. CASE ~loss /\ r = risk
      <4>1. risk' = risk /\ UNCHANGED rows
        BY <3>1, <3>6
      <4>2. today \in Int
        BY RiskAssumption DEF HInv, Table, Day
      <4> QED  BY <4>1, <4>2, <3>1, <3>2, <3>3, <3>6, EngineKeeps
    <3> QED  BY <3>4, <3>5, <3>6
  <2>8. CASE Stop \/ UNCHANGED vars
    BY <2>8, StopKeeps
  <2>9. CASE Halt \/ Resume
    <3>1. CASE Halt
      BY <3>1, CommandKeeps DEF Halt
    <3>2. CASE Resume
      BY <3>2, CommandKeeps DEF Resume
    <3> QED  BY <2>9, <3>1, <3>2
  <2>10. CASE NextDay
    BY <2>10, NextDayKeeps
  <2> QED  BY <2>1, <2>2, <2>3, <2>4, <2>5, <2>6, <2>7, <2>8, <2>9, <2>10 DEF Next
<1> QED  BY <1>1, <1>2

\* The kill switch survives what it must: for every number of days, restarts and
\* writes of every handler, the newest row says what the operator ordered last, and a
\* running engine obeys an ordered halt, provided that halts are given to a stopped one.
THEOREM HaltIsKept ==
  ASSUME HaltLive = FALSE
  PROVE  Spec => []HaltPersists
<1>1. HInv => HaltPersists
  BY DEF HInv, HaltPersists, Remembered
<1>2. Init => HInv
  BY HaltInductive
<1>3. HInv /\ [Next]_vars => HInv'
  BY HaltInductive
<1> QED  BY <1>1, <1>2, <1>3, PTL DEF Spec

-------------------------------------------------------------------------------
(* Types *)

Manager == [day : Day, pending : BOOLEAN, restored : Pnl \union {NotRestored}, start : Equity,
            killed : BOOLEAN, manual : BOOLEAN]

Typed ==
  /\ today \in Day /\ rows \in [Day -> Row \union {NoRow}]
  /\ engine \in {"down", "starting", "running"}
  /\ equity \in Equity /\ risk \in Manager /\ ordered \in BOOLEAN

\* A profit or loss is a difference of two equities, unless it was restored from disk.
LEMMA PnlTyped ==
  ASSUME NEW r \in Manager, NEW e \in Equity
  PROVE  DailyPnl(r, e) \in Pnl
  BY RiskAssumption DEF Manager, DailyPnl, Pnl, Equity, NotRestored

\* A manager is written as a row.
LEMMA PersistTyped ==
  ASSUME Typed, NEW r \in Manager, NEW e \in Equity
  PROVE  Persist(r, e) \in [Day -> Row \union {NoRow}]
<1>1. [start |-> r.start, pnl |-> DailyPnl(r, e), killed |-> r.killed, manual |-> r.manual] \in Row
  BY PnlTyped DEF Manager, Row
<1> QED  BY <1>1 DEF Typed, Persist, Manager

\* What the disk says of the manual kill is a truth value.
LEMMA ManualTyped ==
  PreviousManual \in BOOLEAN
  BY DEF PreviousManual

\* No row is taken for a missing one.
LEMMA RowIsSome ==
  NoRow \notin Row
<1>1. ASSUME NEW row \in Row PROVE "start" \in DOMAIN row
  BY DEF Row
<1>2. "start" \notin DOMAIN NoRow
  BY DEF NoRow
<1> QED  BY <1>1, <1>2

\* Every manager the handlers make is one.
LEMMA ManagersTyped ==
  ASSUME Typed, NEW e \in Equity
  PROVE  /\ \A mismatch \in BOOLEAN : Loaded(e, mismatch) \in Manager
         /\ EnsureDay(risk, e) \in Manager
         /\ \A r \in Manager : /\ Established(r, e) \in Manager
                               /\ [r EXCEPT !.restored = NotRestored] \in Manager
                               /\ \A k \in BOOLEAN : [r EXCEPT !.killed = k, !.manual = k] \in Manager
                               /\ [r EXCEPT !.killed = TRUE, !.manual = FALSE] \in Manager
<1>1. ASSUME NEW mismatch \in BOOLEAN PROVE Loaded(e, mismatch) \in Manager
  <2>1. CASE rows[today] = NoRow
    BY <2>1, ManualTyped DEF Loaded, Manager, Typed
  <2>2. CASE rows[today] # NoRow
    <3>1. rows[today] \in Row
      BY <2>2 DEF Typed
    <3> QED  BY <2>2, <3>1 DEF Loaded, Manager, Typed, Row
  <2> QED  BY <2>1, <2>2
<1>2. EnsureDay(risk, e) \in Manager
  BY DEF Typed, EnsureDay, Manager
<1>3. ASSUME NEW r \in Manager PROVE Established(r, e) \in Manager
  BY DEF Established, Manager
<1>4. ASSUME NEW r \in Manager
      PROVE  /\ [r EXCEPT !.restored = NotRestored] \in Manager
             /\ \A k \in BOOLEAN : [r EXCEPT !.killed = k, !.manual = k] \in Manager
             /\ [r EXCEPT !.killed = TRUE, !.manual = FALSE] \in Manager
  BY DEF Manager
<1> QED  BY <1>1, <1>2, <1>3, <1>4

\* Types hold at first and are kept by every step, halts of a running engine included.
THEOREM TypesInductive ==
  /\ Init => Typed
  /\ Typed /\ [Next]_vars => Typed'
<1>1. Init => Typed
  <2> SUFFICES ASSUME Init PROVE Typed
    OBVIOUS
  <2>1. today = 0 /\ 0 \in Day
    BY RiskAssumption DEF Init, Day
  <2>2. rows \in [Day -> Row \union {NoRow}] /\ equity \in Equity /\ ordered = FALSE
    BY DEF Init
  <2>3. risk \in Manager
    BY <2>1 DEF Init, Manager
  <2> QED  BY <2>1, <2>2, <2>3 DEF Init, Typed
<1>2. ASSUME Typed, [Next]_vars PROVE Typed'
  <2>0. /\ today \in Day /\ rows \in [Day -> Row \union {NoRow}] /\ equity \in Equity
        /\ risk \in Manager /\ ordered \in BOOLEAN
    BY <1>2 DEF Typed
  <2>1. CASE Boot
    <3>1. PICK e \in Equity, mismatch \in BOOLEAN :
            /\ equity' = e /\ risk' = Loaded(e, mismatch)
            /\ rows' = IF rows[today] = NoRow THEN rows ELSE Persist(risk', e)
      BY <2>1 DEF Boot
    <3>2. risk' \in Manager
      BY <1>2, <3>1, ManagersTyped
    <3>3. rows' \in [Day -> Row \union {NoRow}]
      BY <1>2, <2>0, <3>1, <3>2, PersistTyped
    <3> QED  BY <2>0, <2>1, <3>1, <3>2, <3>3 DEF Boot, Typed
  <2>2. ASSUME NEW known \in BOOLEAN, Fill(known) PROVE Typed'
    <3>1. PICK e \in Equity :
            /\ equity' = e
            /\ LET r == EnsureDay(risk, equity)
                   s == IF known /\ r.pending THEN Established(r, equity) ELSE r
               IN  risk' = [s EXCEPT !.restored = NotRestored]
            /\ rows' = Persist(risk', e)
      BY <2>2 DEF Fill
    <3>2. EnsureDay(risk, equity) \in Manager
          /\ Established(EnsureDay(risk, equity), equity) \in Manager
      BY <1>2, <2>0, ManagersTyped
    <3>3. risk' \in Manager
      BY <1>2, <2>0, <3>1, <3>2, ManagersTyped
    <3> QED  BY <1>2, <2>0, <2>2, <3>1, <3>3, PersistTyped DEF Fill, Typed
  <2>3. CASE ReconcileCash
    <3>1. PICK e \in Equity :
            /\ equity' = e
            /\ risk' = [EnsureDay(risk, e) EXCEPT !.restored = NotRestored]
            /\ rows' = Persist(risk', e)
      BY <2>3 DEF ReconcileCash
    <3>2. risk' \in Manager
      BY <1>2, <3>1, ManagersTyped
    <3> QED  BY <1>2, <2>0, <2>3, <3>1, <3>2, PersistTyped DEF ReconcileCash, Typed
  <2>4. CASE Start
    <3>1. CASE risk.pending
      <4>1. risk' = Established(risk, equity) /\ rows' = Persist(risk', equity)
        BY <2>4, <3>1 DEF Start
      <4> QED  BY <1>2, <2>0, <2>4, <4>1, ManagersTyped, PersistTyped DEF Start, Typed
    <3>2. CASE ~risk.pending
      BY <2>0, <2>4, <3>2 DEF Start, Typed
    <3> QED  BY <3>1, <3>2
  <2>5. CASE Mark
    BY <1>2, <2>0, <2>5, ManagersTyped DEF Mark, Typed
  <2>6. CASE OrderResult
    BY <1>2, <2>0, <2>6, ManagersTyped, PersistTyped DEF OrderResult, Typed
  <2>7. CASE AskHalt
    <3> DEFINE r == EnsureDay(risk, equity)
               loss == ~r.killed /\ DailyPnl(r, equity) <= -LossKill
    <3>1. /\ risk' = (IF loss THEN [r EXCEPT !.killed = TRUE, !.manual = FALSE] ELSE r)
          /\ rows' = (IF loss \/ r # risk THEN Persist(risk', equity) ELSE rows)
      BY <2>7 DEF AskHalt
    <3>2. r \in Manager
      BY <1>2, <2>0, ManagersTyped
    <3> HIDE DEF r, loss
    <3>3. risk' \in Manager
      BY <1>2, <2>0, <3>1, <3>2, ManagersTyped
    <3> QED  BY <1>2, <2>0, <2>7, <3>1, <3>3, PersistTyped DEF AskHalt, Typed
  <2>8. CASE Stop \/ UNCHANGED vars
    BY <1>2, <2>8 DEF Stop, vars, Typed
  <2>9. CASE Halt \/ Resume
    <3>1. PICK killed \in BOOLEAN, e \in Equity, mismatch \in BOOLEAN : Command(killed, e, mismatch)
      BY <2>9 DEF Halt, Resume
    <3>2. [Loaded(e, mismatch) EXCEPT !.killed = killed, !.manual = killed] \in Manager
      BY <1>2, ManagersTyped
    <3>3. rows' \in [Day -> Row \union {NoRow}]
      BY <1>2, <3>1, <3>2, PersistTyped DEF Command
    <3> QED  BY <1>2, <2>9, <3>3 DEF Halt, Resume, Typed
  <2>10. CASE NextDay
    BY <2>0, <2>10, RiskAssumption, <1>2 DEF NextDay, Typed, Day
  <2> QED  BY <1>2, <2>1, <2>2, <2>3, <2>4, <2>5, <2>6, <2>7, <2>8, <2>9, <2>10 DEF Next
<1> QED  BY <1>1, <1>2

\* TypeOK: whatever handler, command or restart writes it, a row of risk_state holds an
\* equity, a difference of two equities and two flags.
THEOREM TypeCorrect == Spec => []TypeOK
<1>1. Typed => TypeOK
  BY DEF Typed, Manager, TypeOK
<1> QED  BY <1>1, TypesInductive, PTL DEF Spec

-------------------------------------------------------------------------------
(* The loss kill and the baseline of the day *)

\* What disk and memory have in common while an engine runs: the row of the manager's day,
\* once there, has its kill switch and, unless the baseline is still pending, its start.
\* A baseline is pending only before the engine runs, with no kill but the operator's.
KInv ==
  engine # "down" =>
    /\ risk.pending => engine = "starting" /\ risk.killed = risk.manual
    /\ rows[risk.day] # NoRow =>
         /\ rows[risk.day].killed = risk.killed
         /\ risk.pending \/ rows[risk.day].start = risk.start

\* A write moves the kill switch and the start of one row.
LEMMA WrittenRow ==
  ASSUME Typed, NEW r \in Manager, NEW e \in Equity, rows' = Persist(r, e)
  PROVE  /\ rows'[r.day] # NoRow
         /\ rows'[r.day].killed = r.killed /\ rows'[r.day].start = r.start
         /\ \A d \in Day \ {r.day} : rows'[d] = rows[d]
<1> DEFINE row == [start |-> r.start, pnl |-> DailyPnl(r, e), killed |-> r.killed,
                   manual |-> r.manual]
<1>1. row \in Row
  BY PnlTyped DEF Manager, Row
<1>2. row # NoRow /\ row.killed = r.killed /\ row.start = r.start
  BY <1>1, RowIsSome
<1>3. rows' = [rows EXCEPT ![r.day] = row]
  BY DEF Persist
<1> HIDE DEF row
<1> QED  BY <1>2, <1>3 DEF Typed, Manager

\* What a step may do to the rows of the days.
RowsKept ==
  /\ rows[today] # NoRow /\ rows[today].killed /\ rows'[today] # NoRow =>
       rows'[today].killed \/ Resume
  /\ \A d \in Day : rows[d] # NoRow /\ rows'[d].start # rows[d].start => risk.pending

\* A handler of the engine writes the row of a manager that agrees with the one on disk.
LEMMA AgreedWrite ==
  ASSUME Typed, NEW r \in Manager, NEW e \in Equity,
         risk' = r, rows' = Persist(r, e), engine' # "down", r.day = today,
         r.pending => engine' = "starting" /\ r.killed = r.manual,
         rows[today] # NoRow => /\ rows[today].killed => r.killed
                                /\ risk.pending \/ rows[today].start = r.start
  PROVE  KInv' /\ RowsKept
<1>1. /\ rows'[today] # NoRow
      /\ rows'[today].killed = r.killed /\ rows'[today].start = r.start
      /\ \A d \in Day \ {today} : rows'[d] = rows[d]
  BY WrittenRow
<1>2. KInv'
  BY <1>1 DEF KInv
<1>3. RowsKept
  BY <1>1 DEF RowsKept
<1> QED  BY <1>2, <1>3

\* After the rollover the manager agrees with the row of today.
LEMMA EnsuredAgrees ==
  ASSUME Typed, HInv, KInv, engine # "down", NEW e \in Equity
  PROVE  LET r == EnsureDay(risk, e)
         IN  /\ r \in Manager /\ r.day = today
             /\ r.pending => risk.pending /\ engine = "starting" /\ r.killed = r.manual
             /\ rows[today] # NoRow => /\ r.killed = rows[today].killed
                                       /\ risk.pending \/ rows[today].start = r.start
<1>1. EnsureDay(risk, e) \in Manager
  BY ManagersTyped
<1>2. CASE risk.day = today
  BY <1>1, <1>2 DEF EnsureDay, KInv
<1>3. CASE risk.day # today
  <2>1. rows[today] = NoRow
    BY <1>3, RiskAssumption DEF HInv, Latest, Typed, Day
  <2> QED  BY <1>1, <1>3, <2>1 DEF EnsureDay
<1> QED  BY <1>2, <1>3

\* A handler that leaves the rows alone.
LEMMA NothingWritten ==
  ASSUME rows' = rows
  PROVE  RowsKept
  BY DEF RowsKept

\* Every step keeps the invariant, and does to the rows what the properties allow.
LEMMA KeptByEachStep ==
  ASSUME HaltLive = FALSE, Typed, HInv, KInv, [Next]_vars
  PROVE  KInv' /\ RowsKept
<1>0. /\ today \in Day /\ rows \in [Day -> Row \union {NoRow}] /\ equity \in Equity
      /\ risk \in Manager /\ ordered \in BOOLEAN
  BY DEF Typed
<1>1. CASE Boot
  <2>1. PICK e \in Equity, mismatch \in BOOLEAN :
          /\ risk' = Loaded(e, mismatch)
          /\ rows' = IF rows[today] = NoRow THEN rows ELSE Persist(risk', e)
          /\ engine' = "starting"
    BY <1>1 DEF Boot
  <2>2. risk' \in Manager /\ risk'.day = today
    BY <2>1, ManagersTyped DEF Loaded
  <2>3. CASE rows[today] = NoRow
    <3>1. rows' = rows /\ rows'[risk'.day] = NoRow /\ risk'.killed = risk'.manual
      BY <2>1, <2>2, <2>3 DEF Loaded
    <3> QED  BY <2>1, <3>1, NothingWritten DEF KInv
  <2>4. CASE rows[today] # NoRow
    <3>1. ~risk'.pending /\ risk'.killed = rows[today].killed /\ risk'.start = rows[today].start
      BY <2>1, <2>4 DEF Loaded
    <3> QED  BY <2>1, <2>2, <2>4, <3>1, AgreedWrite
  <2> QED  BY <2>3, <2>4
<1>2. ASSUME NEW known \in BOOLEAN, Fill(known) PROVE KInv' /\ RowsKept
  <2> DEFINE r == EnsureDay(risk, equity)
             s == IF known /\ r.pending THEN Established(r, equity) ELSE r
  <2>1. PICK e \in Equity : risk' = [s EXCEPT !.restored = NotRestored] /\ rows' = Persist(risk', e)
    BY <1>2 DEF Fill
  <2>2. engine # "down" /\ engine' = engine
    BY <1>2 DEF Fill
  <2>3. /\ r \in Manager /\ r.day = today
        /\ r.pending => risk.pending /\ engine = "starting" /\ r.killed = r.manual
        /\ rows[today] # NoRow => /\ r.killed = rows[today].killed
                                  /\ risk.pending \/ rows[today].start = r.start
    BY <1>0, <2>2, EnsuredAgrees
  <2> HIDE DEF r
  <2>4. s \in Manager /\ s.day = today /\ (s.pending => r.pending) /\ s.killed = r.killed /\ s.manual = r.manual
        /\ (s.start # r.start => risk.pending)
    <3>1. CASE known /\ r.pending
      <4>1. s = Established(r, equity)
        BY <3>1
      <4> QED  BY <1>0, <2>3, <3>1, <4>1, ManagersTyped DEF Established, Manager
    <3>2. CASE ~(known /\ r.pending)
      BY <2>3, <3>2
    <3> QED  BY <3>1, <3>2
  <2> HIDE DEF s
  <2>5. /\ risk' \in Manager /\ risk'.day = s.day /\ risk'.pending = s.pending
        /\ risk'.killed = s.killed /\ risk'.manual = s.manual /\ risk'.start = s.start
    BY <2>1, <2>4 DEF Manager
  <2> QED  BY <2>1, <2>2, <2>3, <2>4, <2>5, AgreedWrite
<1>3. CASE ReconcileCash
  <2>1. PICK e \in Equity : /\ risk' = [EnsureDay(risk, e) EXCEPT !.restored = NotRestored]
                            /\ rows' = Persist(risk', e)
    BY <1>3 DEF ReconcileCash
  <2>2. engine # "down" /\ engine' = engine
    BY <1>3 DEF ReconcileCash
  <2> DEFINE r == EnsureDay(risk, e)
  <2>3. /\ r \in Manager /\ r.day = today
        /\ r.pending => risk.pending /\ engine = "starting" /\ r.killed = r.manual
        /\ rows[today] # NoRow => /\ r.killed = rows[today].killed
                                  /\ risk.pending \/ rows[today].start = r.start
    BY <2>2, EnsuredAgrees
  <2> HIDE DEF r
  <2>4. risk' = [r EXCEPT !.restored = NotRestored]
    BY <2>1 DEF r
  <2>5. /\ risk' \in Manager /\ risk'.day = r.day /\ risk'.pending = r.pending
        /\ risk'.killed = r.killed /\ risk'.manual = r.manual /\ risk'.start = r.start
    BY <2>3, <2>4 DEF Manager
  <2> QED  BY <2>1, <2>2, <2>3, <2>5, AgreedWrite
<1>4. CASE Start
  <2>1. engine = "starting" /\ engine' = "running" /\ today' = today
    BY <1>4 DEF Start
  <2>2. CASE risk.pending
    <3>1. risk' = Established(risk, equity) /\ rows' = Persist(risk', equity)
      BY <1>4, <2>2 DEF Start
    <3>2. /\ risk' \in Manager /\ risk'.day = risk.day /\ ~risk'.pending
          /\ risk'.killed = risk.manual /\ risk.killed = risk.manual
      <4>1. risk' \in Manager
        BY <1>0, <3>1, ManagersTyped
      <4>2. risk'.day = risk.day /\ ~risk'.pending /\ risk'.killed = risk.manual
        BY <1>0, <3>1 DEF Established, Manager
      <4>3. risk.killed = risk.manual
        BY <2>1, <2>2 DEF KInv
      <4> QED  BY <4>1, <4>2, <4>3
    <3>3. /\ rows'[risk.day] # NoRow
          /\ rows'[risk.day].killed = risk'.killed /\ rows'[risk.day].start = risk'.start
          /\ \A d \in Day \ {risk.day} : rows'[d] = rows[d]
      BY <1>0, <3>1, <3>2, WrittenRow
    <3>4. KInv'
      BY <3>2, <3>3 DEF KInv
    <3>5. RowsKept
      <4>1. rows[risk.day] # NoRow => rows[risk.day].killed = risk.killed
        BY <2>1 DEF KInv
      <4>2. CASE today = risk.day
        BY <2>2, <3>2, <3>3, <4>1, <4>2 DEF RowsKept
      <4>3. CASE today # risk.day
        BY <1>0, <2>2, <3>3, <4>3 DEF RowsKept
      <4> QED  BY <4>2, <4>3
    <3> QED  BY <3>4, <3>5
  <2>3. CASE ~risk.pending
    BY <1>4, <2>1, <2>3, NothingWritten DEF Start, KInv
  <2> QED  BY <2>2, <2>3
<1>5. CASE Mark
  <2>1. /\ risk' = [risk EXCEPT !.restored = NotRestored] /\ rows' = rows /\ engine' = engine
        /\ engine = "running"
    BY <1>5 DEF Mark
  <2>2. /\ risk'.day = risk.day /\ risk'.pending = risk.pending
        /\ risk'.killed = risk.killed /\ risk'.manual = risk.manual /\ risk'.start = risk.start
    BY <1>0, <2>1 DEF Manager
  <2> QED  BY <2>1, <2>2, NothingWritten DEF KInv
<1>6. CASE OrderResult
  BY <1>0, <1>6, EnsuredAgrees, AgreedWrite DEF OrderResult
<1>7. CASE AskHalt
  <2> DEFINE r == EnsureDay(risk, equity)
             loss == ~r.killed /\ DailyPnl(r, equity) <= -LossKill
  <2>1. /\ risk' = (IF loss THEN [r EXCEPT !.killed = TRUE, !.manual = FALSE] ELSE r)
        /\ rows' = (IF loss \/ r # risk THEN Persist(risk', equity) ELSE rows)
        /\ engine = "running" /\ engine' = engine
    BY <1>7 DEF AskHalt
  <2>2. /\ r \in Manager /\ r.day = today
        /\ r.pending => risk.pending /\ engine = "starting" /\ r.killed = r.manual
        /\ rows[today] # NoRow => /\ r.killed = rows[today].killed
                                  /\ risk.pending \/ rows[today].start = r.start
    BY <1>0, <2>1, EnsuredAgrees
  <2> HIDE DEF r, loss
  <2>3. CASE loss
    <3>1. /\ risk' \in Manager /\ risk'.day = r.day /\ risk'.pending = r.pending
          /\ risk'.killed = TRUE /\ risk'.start = r.start
      BY <2>1, <2>2, <2>3 DEF Manager
    <3> QED  BY <1>0, <2>1, <2>2, <2>3, <3>1, AgreedWrite
  <2>4. CASE ~loss /\ r # risk
    BY <1>0, <2>1, <2>2, <2>4, AgreedWrite
  <2>5. CASE ~loss /\ r = risk
    BY <2>1, <2>5, NothingWritten DEF KInv
  <2> QED  BY <2>3, <2>4, <2>5
<1>8. CASE Stop \/ UNCHANGED vars \/ NextDay
  BY <1>8, NothingWritten DEF Stop, vars, NextDay, KInv
<1>9. CASE Halt \/ Resume
  <2>1. engine = "down" /\ engine' = engine
    BY <1>9 DEF Halt, Resume
  <2>2. PICK killed \in BOOLEAN, e \in Equity, mismatch \in BOOLEAN :
          Command(killed, e, mismatch) /\ (killed \/ Resume)
    <3>1. CASE Halt
      BY <3>1 DEF Halt
    <3>2. CASE Resume
      BY <3>2 DEF Resume
    <3> QED  BY <1>9, <3>1, <3>2
  <2> DEFINE r == [Loaded(e, mismatch) EXCEPT !.killed = killed, !.manual = killed]
  <2>3. r \in Manager
    BY ManagersTyped
  <2>4. r.day = today /\ r.killed = killed /\ (rows[today] # NoRow => r.start = rows[today].start)
    <3>1. Loaded(e, mismatch) \in Manager
      BY ManagersTyped
    <3>2. r.day = Loaded(e, mismatch).day /\ r.killed = killed /\ r.start = Loaded(e, mismatch).start
      BY <3>1 DEF Manager
    <3> QED  BY <3>2 DEF Loaded
  <2>5. rows' = Persist(r, e)
    BY <2>2 DEF Command
  <2> HIDE DEF r
  <2>6. /\ rows'[today].killed = killed
        /\ rows[today] # NoRow => rows'[today].start = rows[today].start
        /\ \A d \in Day \ {today} : rows'[d] = rows[d]
    BY <2>3, <2>4, <2>5, WrittenRow
  <2>7. RowsKept
    BY <2>2, <2>6 DEF RowsKept
  <2> QED  BY <2>1, <2>7 DEF KInv
<1> QED  BY <1>1, <1>2, <1>3, <1>4, <1>5, <1>6, <1>7, <1>8, <1>9 DEF Next

\* The loss kill of the day: while the operator halts only a stopped engine, no restart,
\* fill, mark, reconciliation, rollover or command but resume clears it from the row of
\* the day, however often the equity recovers.
THEOREM LossKillIsKept ==
  ASSUME HaltLive = FALSE
  PROVE  Spec => LossKillHolds
<1>1. Init => Typed /\ HInv /\ KInv
  BY TypesInductive, HaltInductive DEF Init, KInv
<1>2. Typed /\ HInv /\ KInv /\ [Next]_vars => Typed' /\ HInv' /\ KInv'
  BY TypesInductive, HaltInductive, KeptByEachStep
<1>3. Typed /\ HInv /\ KInv /\ [Next]_vars =>
        [rows[today] # NoRow /\ rows[today].killed /\ rows'[today] # NoRow =>
           rows'[today].killed \/ Resume]_vars
  BY KeptByEachStep DEF RowsKept
<1> QED  BY <1>1, <1>2, <1>3, PTL DEF Spec, LossKillHolds

\* The baseline of the day: under the same condition a row's start moves only while the
\* baseline is pending, so that no restart makes the losses of the day forgotten.
THEOREM BaselineIsKept ==
  ASSUME HaltLive = FALSE
  PROVE  Spec => BaselineKept
<1>1. Init => Typed /\ HInv /\ KInv
  BY TypesInductive, HaltInductive DEF Init, KInv
<1>2. Typed /\ HInv /\ KInv /\ [Next]_vars => Typed' /\ HInv' /\ KInv'
  BY TypesInductive, HaltInductive, KeptByEachStep
<1>3. Typed /\ HInv /\ KInv /\ [Next]_vars =>
        [\A d \in Day : rows[d] # NoRow /\ rows'[d].start # rows[d].start => risk.pending]_vars
  BY KeptByEachStep DEF RowsKept
<1> QED  BY <1>1, <1>2, <1>3, PTL DEF Spec, BaselineKept
===============================================================================
