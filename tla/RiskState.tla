------------------------------- MODULE RiskState -------------------------------
(***************************************************************************)
(* The kill switch and the daily loss, kept in memory by the engine's      *)
(* RiskManager, on disk in one row per UTC day, and written by a second    *)
(* process: the "halt" and "resume" commands.                              *)
(*                                                                         *)
(*   risk/manager.py   RiskManager, but for the caps on exposure           *)
(*   state/store.py    save_risk_state, load_risk_state, latest_risk_state *)
(*   cli.py            halt, resume                                        *)
(*   engine.py         the order in which a startup calls them             *)
(*                                                                         *)
(* Equity is a small number that fills, marks and restarts move at will    *)
(* (marks are lost in a restart and inventory is then valued at cost).     *)
(* The order error counters, which only stop placements, are left out.     *)
(***************************************************************************)
EXTENDS Integers

CONSTANTS
  MaxEquity,  \* bound: equity is in 0 .. MaxEquity
  LossKill,   \* daily_loss_kill_usdc
  MaxDay,     \* bound: the last UTC day
  HaltLive    \* the operator also halts while the engine runs

ASSUME RiskAssumption ==
  MaxEquity \in Nat /\ LossKill \in Nat \ {0} /\ MaxDay \in Nat /\ HaltLive \in BOOLEAN

Day == 0 .. MaxDay
Equity == 0 .. MaxEquity
Pnl == -MaxEquity .. MaxEquity
NoRow == [none |-> TRUE]
Row == [start : Equity, pnl : Pnl, killed : BOOLEAN, manual : BOOLEAN]
NotRestored == MaxEquity + 1   \* _restored_daily_pnl is None

VARIABLES
  today,    \* wall clock: UTC day
  rows,     \* disk: risk_state, a row per day
  engine,   \* "down", "starting" or "running"
  risk,     \* memory: the engine's RiskManager
  equity,   \* cash and marked inventory as the engine sees them
  ordered   \* history: the operator's last command was halt

vars == <<today, rows, engine, risk, equity, ordered>>

-------------------------------------------------------------------------------
(* RiskManager: functions of its state and the equity *)

DailyPnlSummed(r, e) ==   \* mutant: the baseline is added
  IF r.restored # NotRestored THEN r.restored ELSE e + r.start
DailyPnl(r, e) == IF r.restored # NotRestored THEN r.restored ELSE e - r.start

\* _persist: the row of the day the manager believes in.
Persist(r, e) ==
  [rows EXCEPT ![r.day] =
     [start |-> r.start, pnl |-> DailyPnl(r, e), killed |-> r.killed, manual |-> r.manual]]

\* _ensure_day: a new day starts at the present equity; only a manual kill stays.
EnsureDay(r, e) ==
  IF r.day = today THEN r
  ELSE [day |-> today, pending |-> FALSE, restored |-> NotRestored, start |-> e,
        killed |-> r.manual, manual |-> r.manual]

Recorded == {d \in Day : d <= today /\ rows[d] # NoRow}
PreviousManualForgotten == FALSE   \* mutant: a manual kill ends with its day
PreviousManual == \E d \in Recorded : (\A c \in Recorded : c <= d) /\ rows[d].manual

LoadedUnkilled(e, mismatch) ==   \* mutant: only the manual kill is restored
  LET row == rows[today]
  IN  IF row = NoRow
      THEN [day |-> today, pending |-> TRUE, restored |-> NotRestored, start |-> e,
            killed |-> PreviousManual, manual |-> PreviousManual]
      ELSE [day |-> today, pending |-> FALSE, start |-> row.start,
            restored |-> IF mismatch THEN NotRestored ELSE row.pnl,
            killed |-> row.manual, manual |-> row.manual]

LoadedRebased(e, mismatch) ==   \* mutant: a restart starts the day over
  LET row == rows[today]
  IN  [day |-> today, pending |-> row = NoRow, start |-> e, restored |-> NotRestored,
       killed |-> IF row = NoRow THEN PreviousManual ELSE row.killed,
       manual |-> IF row = NoRow THEN PreviousManual ELSE row.manual]

\* The constructor.  "mismatch": the cached cash differs from the fill ledger's.
Loaded(e, mismatch) ==
  LET row == rows[today]
  IN  IF row = NoRow
      THEN [day |-> today, pending |-> TRUE, restored |-> NotRestored, start |-> e,
            killed |-> PreviousManual, manual |-> PreviousManual]
      ELSE [day |-> today, pending |-> FALSE, start |-> row.start,
            restored |-> IF mismatch THEN NotRestored ELSE row.pnl,
            killed |-> row.killed, manual |-> row.manual]

\* establish_daily_baseline, when it is pending.
Established(r, e) ==
  [r EXCEPT !.start = e, !.restored = NotRestored, !.pending = FALSE, !.killed = r.manual]

-------------------------------------------------------------------------------
(* The engine *)

\* The process starts: a RiskManager is built, and persisted if its day had a row.
Boot ==
  /\ engine = "down"
  /\ engine' = "starting"
  /\ \E e \in Equity, mismatch \in BOOLEAN :
       /\ equity' = e
       /\ risk' = Loaded(e, mismatch)
       /\ rows' = IF rows[today] = NoRow THEN rows ELSE Persist(risk', e)
  /\ UNCHANGED <<today, ordered>>

\* A fill: prepare_fill rolls the day over, a pending baseline is set before the
\* first one a known ledger gets (_prepare_fill), note_fill persists.
Fill(known) ==
  /\ engine # "down"
  /\ \E e \in Equity :
       /\ equity' = e
       /\ LET r == EnsureDay(risk, equity)
              s == IF known /\ r.pending THEN Established(r, equity) ELSE r
          IN  risk' = [s EXCEPT !.restored = NotRestored]
       /\ rows' = Persist(risk', e)
  /\ UNCHANGED <<today, engine, ordered>>

\* reconcile_cash_ledger, each time a reconciliation publishes its snapshot.
ReconcileCash ==
  /\ engine # "down"
  /\ \E e \in Equity :
       /\ equity' = e
       /\ risk' = [EnsureDay(risk, e) EXCEPT !.restored = NotRestored]
       /\ rows' = Persist(risk', e)
  /\ UNCHANGED <<today, engine, ordered>>

\* The end of _startup_reconcile.
Start ==
  /\ engine = "starting"
  /\ engine' = "running"
  /\ IF risk.pending
     THEN /\ risk' = Established(risk, equity)
          /\ rows' = Persist(risk', equity)
     ELSE UNCHANGED <<risk, rows>>
  /\ UNCHANGED <<today, equity, ordered>>

\* update_mark
Mark ==
  /\ engine = "running"
  /\ equity' \in Equity
  /\ risk' = [risk EXCEPT !.restored = NotRestored]
  /\ UNCHANGED <<today, rows, engine, ordered>>

\* note_order_result, but for the counters
OrderResult ==
  /\ engine = "running"
  /\ risk' = EnsureDay(risk, equity)
  /\ rows' = Persist(risk', equity)
  /\ UNCHANGED <<today, engine, equity, ordered>>

\* global_halt, which evaluate and every placement ask.  _ensure_day persists a
\* new day; a loss beyond the limit engages the kill switch for the day.
AskHalt ==
  /\ engine = "running"
  /\ LET r == EnsureDay(risk, equity)
         loss == ~r.killed /\ DailyPnl(r, equity) <= -LossKill
     IN  /\ risk' = IF loss THEN [r EXCEPT !.killed = TRUE, !.manual = FALSE] ELSE r
         /\ rows' = IF loss \/ r # risk THEN Persist(risk', equity) ELSE rows
  /\ UNCHANGED <<today, engine, equity, ordered>>

Stop ==   \* shutdown or crash
  /\ engine # "down"
  /\ engine' = "down"
  /\ UNCHANGED <<today, rows, risk, equity, ordered>>

-------------------------------------------------------------------------------
(* The operator's commands, in a process of their own *)

\* A RiskManager of its own is built from disk; the constructor's write of the
\* same row is overwritten at once.
Command(killed, e, mismatch) ==
  rows' = Persist([Loaded(e, mismatch) EXCEPT !.killed = killed, !.manual = killed], e)

Halt ==
  /\ HaltLive \/ engine = "down"
  /\ \E e \in Equity, mismatch \in BOOLEAN : Command(TRUE, e, mismatch)
  /\ ordered' = TRUE
  /\ UNCHANGED <<today, engine, risk, equity>>

\* resume after a passed preflight; the engine stops placing under a kill but its
\* copy of the switch is only read again when it boots.
Resume ==
  /\ engine = "down"
  /\ \E e \in Equity, mismatch \in BOOLEAN : Command(FALSE, e, mismatch)
  /\ ordered' = FALSE
  /\ UNCHANGED <<today, engine, risk, equity>>

NextDay ==
  /\ today < MaxDay
  /\ today' = today + 1
  /\ UNCHANGED <<rows, engine, risk, equity, ordered>>

-------------------------------------------------------------------------------
Init ==
  /\ today = 0
  /\ rows = [d \in Day |-> NoRow]
  /\ engine = "down"
  /\ equity \in Equity
  /\ risk = [day |-> 0, pending |-> TRUE, restored |-> NotRestored, start |-> equity,
             killed |-> FALSE, manual |-> FALSE]
  /\ ordered = FALSE

Next ==
  \/ Boot \/ (\E known \in BOOLEAN : Fill(known)) \/ ReconcileCash \/ Start
  \/ Mark \/ OrderResult \/ AskHalt \/ Stop
  \/ Halt \/ Resume \/ NextDay

Spec == Init /\ [][Next]_vars

-------------------------------------------------------------------------------
(* Properties *)

\* Every variable has its type; a profit or loss is a difference of two equities.
TypeOK ==
  /\ today \in Day
  /\ rows \in [Day -> Row \union {NoRow}]
  /\ engine \in {"down", "starting", "running"}
  /\ equity \in Equity
  /\ risk.day \in Day /\ risk.start \in Equity
  /\ risk.restored \in Pnl \union {NotRestored}
  /\ {risk.pending, risk.killed, risk.manual, ordered} \subseteq BOOLEAN

\* What the newest row says of the manual kill is what the operator ordered last,
\* and an engine started since obeys it: across restarts, UTC days, the daily-loss
\* kill and the writes of every other handler.
HaltPersists ==
  /\ PreviousManual <=> ordered
  /\ engine = "running" /\ ordered => risk.killed

\* Once today's loss has engaged the kill switch it stays engaged, on disk and in
\* the running engine, until the day ends or the operator resumes: neither a
\* restart nor a recovered equity clears it.
LossKillHolds ==
  [][ rows[today] # NoRow /\ rows[today].killed /\ rows'[today] # NoRow =>
        \/ rows'[today].killed
        \/ Resume ]_vars

\* The baseline of a day that has a row is moved only while it is still pending:
\* no restart and no command makes the losses of the day forgotten.
BaselineKept ==
  [][ \A d \in Day : rows[d] # NoRow /\ rows'[d].start # rows[d].start => risk.pending ]_vars

\* "Persist the kill switch" (cli.py halt): a persisted halt stays persisted.
HaltStays == ordered => PreviousManual
===============================================================================
