----------------------------- MODULE Market_proofs ------------------------------
(***************************************************************************)
(* What the engine sees of a market and when it quotes there: the theorems *)
(* of Regime and MarketFeed.                                               *)
(*                                                                         *)
(* Regime.  What is left of a cool-off is never more than what is left of  *)
(* the machine's own horizon, which an overlay may prolong but not         *)
(* shorten.  And a quoter whose quotes are pulled for an event wakes at    *)
(* most one unit after the horizon: while time passes, the wait that is    *)
(* left and the lateness together stay within it.                          *)
(*                                                                         *)
(* MarketFeed.  Replay is a fold, and tlapm cannot instantiate an          *)
(* induction over it; so the fold is first turned into a sequence of       *)
(* books, with the Induction of RewardRefresh_proofs.  A snapshot is the   *)
(* first message of its connection, and whoever applies it is in step with *)
(* the exchange, whatever it has missed before.                            *)
(***************************************************************************)
EXTENDS MarketFeed, Regime, RewardRefresh_proofs

-------------------------------------------------------------------------------
(* Regime: what carries the cool-off *)

\* Durations of zero are legal settings, and the quoter then waits a whole tick.
Positive == Cooloff > 0 /\ Pause > 0 /\ Confirm > 0

Horizons == pause \in Nat /\ event \in Nat /\ owed \in Nat /\ wake \in Nat

\* The cool-off of a sweep or jump is inside the horizon, and quotes are pulled in it.
Covered == owed <= event /\ owed <= Cooloff /\ (event > 0 => Pulled)

\* The wait ends no more than one unit after the horizon.
Prompt ==
  /\ late \in {NotLate} \union Nat
  /\ regime # "EVENT" => late \in {NotLate, 0}
  /\ regime = "EVENT" /\ late # NotLate =>
       /\ event > 0 => late = 0
       /\ wake + late <= event + 1

RInv == Horizons /\ Covered /\ Prompt

-------------------------------------------------------------------------------
(* The largest and the smallest of what the module takes them of *)

LEMMA MaxOfTwo ==
  ASSUME NEW a \in Int, NEW b \in Int
  PROVE  Max({a, b}) = IF a >= b THEN a ELSE b
<1> DEFINE m == IF a >= b THEN a ELSE b
<1>1. m \in {a, b} /\ \A y \in {a, b} : m >= y
  OBVIOUS
<1>2. \A x \in {a, b} : (\A y \in {a, b} : x >= y) => x = m
  OBVIOUS
<1> QED  BY <1>1, <1>2 DEF Max

LEMMA LessByOne ==
  ASSUME NEW n \in Nat
  PROVE  /\ Less(n) \in Nat
         /\ Less(n) = IF n > 0 THEN n - 1 ELSE 0
  BY MaxOfTwo DEF Less

LEMMA MinOfThree ==
  ASSUME NEW a \in Int, NEW b \in Int, NEW c \in Int
  PROVE  /\ Min({a, b, c}) \in {a, b, c}
         /\ \A y \in {a, b, c} : Min({a, b, c}) <= y
<1> DEFINE least == IF a <= b THEN (IF a <= c THEN a ELSE c) ELSE (IF b <= c THEN b ELSE c)
<1>1. least \in {a, b, c} /\ \A y \in {a, b, c} : least <= y
  OBVIOUS
<1> HIDE DEF least
<1> QED  BY <1>1 DEF Min

\* The wait is at least one unit, and ends right after a horizon that is left.
LEMMA WakeBound ==
  ASSUME NEW n \in Nat, NEW holding \in BOOLEAN
  PROVE  /\ NextWake(n, holding) \in Nat
         /\ n > 0 => NextWake(n, holding) <= n + 1
<1> DEFINE b == IF n > 0 THEN n + 1 ELSE BaseTick
           c == IF holding THEN HeldTick ELSE BaseTick
           S == {BaseTick} \union (IF n > 0 THEN {n + 1} ELSE {})
                           \union (IF holding THEN {HeldTick} ELSE {})
<1>1. BaseTick \in Nat /\ HeldTick \in Nat /\ b \in Nat /\ c \in Nat
  BY RegimeAssumption
<1>2. S = {BaseTick, b, c}
  OBVIOUS
<1>3. Min(S) \in Nat /\ Min(S) <= b
  <2> HIDE DEF b, c, S
  <2>1. BaseTick \in Int /\ b \in Int /\ c \in Int
    BY <1>1
  <2>2. /\ Min({BaseTick, b, c}) \in {BaseTick, b, c}
        /\ \A y \in {BaseTick, b, c} : Min({BaseTick, b, c}) <= y
    BY <2>1, MinOfThree
  <2> QED  BY <1>1, <1>2, <2>2
<1>4. NextWake(n, holding) = Max({1, Min(S)})
  BY DEF NextWake
<1>5. NextWake(n, holding) = IF 1 >= Min(S) THEN 1 ELSE Min(S)
  <2> HIDE DEF S
  <2> QED  BY <1>3, <1>4, MaxOfTwo
<1> QED
  <2> HIDE DEF S
  <2> QED  BY <1>1, <1>3, <1>5

-------------------------------------------------------------------------------
(* One recompute *)

\* The horizon a recompute leaves behind covers what is owed, and there is one
\* whenever quotes are pulled for an event.
LEMMA HorizonAfter ==
  ASSUME Positive, Horizons, Covered, NEW o \in Observation
  PROVE  /\ EventAfter(o) \in Nat
         /\ PauseAfter(o.move) \in Nat
         /\ owed <= EventAfter(o)
         /\ Confirmed(o) => EventAfter(o) = Cooloff
         /\ EventAfter(o) > 0 => Decide(o) \in {"EVENT", "HALTED"}
         /\ Decide(o) = "EVENT" => EventAfter(o) > 0
<1>1. Cooloff \in Nat /\ Pause \in Nat /\ Confirm \in Nat
  BY RegimeAssumption
<1>2. PauseAfter(o.move) \in Nat
  BY <1>1, MaxOfTwo DEF PauseAfter, Horizons
<1>3. o.halt \in BOOLEAN
  BY DEF Observation
<1>4. CASE o.halt
  BY <1>2, <1>4 DEF EventAfter, Confirmed, Decide, Horizons, Covered
<1>5. CASE ~o.halt /\ Confirmed(o)
  BY <1>1, <1>2, <1>5 DEF EventAfter, Decide, InEvent, Horizons, Covered, Positive
<1>6. CASE ~o.halt /\ ~Confirmed(o) /\ Overlay(o) /\ event = 0
  BY <1>1, <1>2, <1>6 DEF EventAfter, Decide, InEvent, Horizons, Covered, Positive
<1>7. CASE ~o.halt /\ ~Confirmed(o) /\ ~(Overlay(o) /\ event = 0)
  BY <1>1, <1>2, <1>7 DEF EventAfter, Decide, InEvent, Horizons, Covered
<1> QED  BY <1>3, <1>4, <1>5, <1>6, <1>7

\* A recompute that can price the book begins a wait that fits its horizon.
LEMMA ObserveKeeps ==
  ASSUME Positive, RInv, Observe
  PROVE  RInv'
<1>1. PICK o \in Observation :
        /\ pause' = PauseAfter(o.move)
        /\ event' = EventAfter(o)
        /\ regime' = Decide(o)
        /\ owed' = IF Confirmed(o) THEN Cooloff ELSE owed
        /\ Waits(EventAfter(o))
  BY DEF Observe, CalmObservation
<1>2. PICK holding \in BOOLEAN : wake' = NextWake(EventAfter(o), holding)
  BY <1>1 DEF Waits
<1>3. late' = 0
  BY DEF Observe
<1>4. /\ EventAfter(o) \in Nat
      /\ PauseAfter(o.move) \in Nat
      /\ owed <= EventAfter(o)
      /\ Confirmed(o) => EventAfter(o) = Cooloff
      /\ EventAfter(o) > 0 => Decide(o) \in {"EVENT", "HALTED"}
      /\ Decide(o) = "EVENT" => EventAfter(o) > 0
  BY HorizonAfter DEF RInv
<1>5. /\ wake' \in Nat
      /\ event' > 0 => wake' <= event' + 1
  BY <1>1, <1>2, <1>4, WakeBound
<1>6. Cooloff \in Nat
  BY RegimeAssumption
<1>7. Horizons'
  BY <1>1, <1>4, <1>5, <1>6 DEF Horizons, RInv
<1>8. Covered'
  BY <1>1, <1>4, <1>6 DEF Covered, Pulled, RInv
<1>9. Prompt'
  BY <1>1, <1>3, <1>4, <1>5, <1>7 DEF Prompt, Horizons
<1> QED  BY <1>7, <1>8, <1>9 DEF RInv

\* Time takes from the wait what it adds to the lateness, or takes from both.
LEMMA TimeKeeps ==
  ASSUME RInv, RegimeTime
  PROVE  RInv'
<1>1. /\ wake > 0 /\ wake' = wake - 1
      /\ pause' = Less(pause) /\ event' = Less(event) /\ owed' = Less(owed)
      /\ regime' = regime
      /\ late' = IF regime = "EVENT" /\ event = 0 /\ late # NotLate THEN late + 1 ELSE late
  BY DEF RegimeTime
<1>2. /\ pause' \in Nat
      /\ event' \in Nat /\ event' = IF event > 0 THEN event - 1 ELSE 0
      /\ owed' \in Nat /\ owed' = IF owed > 0 THEN owed - 1 ELSE 0
  BY <1>1, LessByOne DEF RInv, Horizons
<1>3. Cooloff \in Nat
  BY RegimeAssumption
<1>4. Horizons'
  BY <1>1, <1>2 DEF RInv, Horizons
<1>5. Covered'
  BY <1>1, <1>2, <1>3 DEF RInv, Horizons, Covered, Pulled
<1>6. Prompt'
  <2>1. CASE late = NotLate
    BY <1>1, <2>1 DEF RInv, Prompt, NotLate
  <2>2. CASE late # NotLate /\ regime # "EVENT"
    BY <1>1, <2>2 DEF RInv, Prompt, NotLate
  <2>3. CASE late # NotLate /\ regime = "EVENT"
    BY <1>1, <1>2, <2>3 DEF RInv, Horizons, Prompt, NotLate
  <2> QED  BY <2>1, <2>2, <2>3
<1> QED  BY <1>4, <1>5, <1>6 DEF RInv

\* The invariant holds at first and is kept by every step.
THEOREM RegimeInductive ==
  ASSUME Positive
  PROVE  /\ RegimeInit => RInv
         /\ RInv /\ [RegimeNext]_regimeVars => RInv'
<1>1. RegimeInit => RInv
  BY RegimeAssumption DEF RegimeInit, RInv, Horizons, Covered, Prompt, Pulled, NotLate
<1>2. ASSUME RInv, [RegimeNext]_regimeVars
      PROVE  RInv'
  <2>1. CASE Observe
    BY <1>2, <2>1, ObserveKeeps
  <2>2. CASE Unreadable
    <3>1. PICK holding \in BOOLEAN : wake' = NextWake(event, holding)
      BY <2>2 DEF Unreadable, Waits
    <3>2. wake' \in Nat
      BY <1>2, <3>1, WakeBound DEF RInv, Horizons
    <3> QED  BY <1>2, <2>2, <3>2 DEF Unreadable, RInv, Horizons, Covered, Prompt, Pulled
  <2>3. CASE RegimeTime
    BY <1>2, <2>3, TimeKeeps
  <2>4. CASE Sweep \/ CalmDown \/ UNCHANGED regimeVars
    BY <1>2, <2>4 DEF Sweep, CalmDown, regimeVars, RInv, Horizons, Covered, Prompt, Pulled
  <2> QED  BY <1>2, <2>1, <2>2, <2>3, <2>4 DEF RegimeNext
<1> QED  BY <1>1, <1>2

\* A cool-off that was decided upon is served in full, and the quotes it pulled are asked
\* for again within one unit of its end, for all positive durations and every tick.
THEOREM CooloffIsServed ==
  ASSUME Positive
  PROVE  RegimeSpec => []CooloffServed
<1>1. RegimeInit => RInv
  BY RegimeInductive
<1>2. RInv /\ [RegimeNext]_regimeVars => RInv'
  BY RegimeInductive
<1>3. RInv => CooloffServed
  <2> SUFFICES ASSUME RInv
               PROVE  CooloffServed
    OBVIOUS
  <2>1. owed > 0 => Pulled
    BY DEF RInv, Horizons, Covered
  <2>2. late <= 1
    BY DEF RInv, Horizons, Prompt, NotLate
  <2> QED  BY <2>1, <2>2 DEF CooloffServed
<1> QED  BY <1>1, <1>2, <1>3, PTL DEF RegimeSpec

-------------------------------------------------------------------------------
(* The types of Regime, which need no duration to be positive *)

LEMMA MaxOfThree ==
  ASSUME NEW a \in Int, NEW b \in Int, NEW c \in Int
  PROVE  /\ Max({a, b, c}) \in {a, b, c}
         /\ \A y \in {a, b, c} : y <= Max({a, b, c})
<1> DEFINE most == IF a >= b THEN (IF a >= c THEN a ELSE c) ELSE (IF b >= c THEN b ELSE c)
<1>1. most \in {a, b, c} /\ \A y \in {a, b, c} : most >= y
  OBVIOUS
<1> HIDE DEF most
<1>2. \E x \in {a, b, c} : \A y \in {a, b, c} : x >= y
  BY <1>1
<1>3. Max({a, b, c}) \in {a, b, c} /\ \A y \in {a, b, c} : Max({a, b, c}) >= y
  BY <1>2 DEF Max
<1> QED  BY <1>3

\* The longest horizon and the longest wait.
LEMMA Longest ==
  /\ Max({Cooloff, Pause, Confirm}) \in Nat /\ Cooloff \in Nat /\ Pause \in Nat /\ Confirm \in Nat
  /\ \A d \in {Cooloff, Pause, Confirm} : d <= Max({Cooloff, Pause, Confirm})
  /\ Max({1, BaseTick, HeldTick}) \in Nat /\ BaseTick \in Nat \ {0} /\ HeldTick \in Nat \ {0}
  /\ \A d \in {1, BaseTick, HeldTick} : d <= Max({1, BaseTick, HeldTick})
<1>1. /\ Cooloff \in Nat /\ Pause \in Nat /\ Confirm \in Nat
      /\ BaseTick \in Nat \ {0} /\ HeldTick \in Nat \ {0}
  BY RegimeAssumption
<1>2. /\ Max({Cooloff, Pause, Confirm}) \in Nat
      /\ \A d \in {Cooloff, Pause, Confirm} : d <= Max({Cooloff, Pause, Confirm})
  <2>1. Cooloff \in Int /\ Pause \in Int /\ Confirm \in Int
    BY <1>1
  <2>2. /\ Max({Cooloff, Pause, Confirm}) \in {Cooloff, Pause, Confirm}
        /\ \A d \in {Cooloff, Pause, Confirm} : d <= Max({Cooloff, Pause, Confirm})
    BY <2>1, MaxOfThree
  <2> QED  BY <1>1, <2>2
<1>3. /\ Max({1, BaseTick, HeldTick}) \in Nat
      /\ \A d \in {1, BaseTick, HeldTick} : d <= Max({1, BaseTick, HeldTick})
  <2>1. BaseTick \in Int /\ HeldTick \in Int
    BY <1>1
  <2>2. \A a \in Int : /\ Max({a, BaseTick, HeldTick}) \in {a, BaseTick, HeldTick}
                       /\ \A d \in {a, BaseTick, HeldTick} : d <= Max({a, BaseTick, HeldTick})
    BY <2>1, MaxOfThree
  <2> QED  BY <1>1, <2>2
<1> QED  BY <1>1, <1>2, <1>3

\* Whatever horizon is left, the wait is no longer than a tick, or than the second that
\* _next_wake_s asks for at least.
LEMMA WakeInTick ==
  ASSUME NEW n \in Nat, NEW holding \in BOOLEAN
  PROVE  NextWake(n, holding) \in 0 .. Max({1, BaseTick, HeldTick})
<1> DEFINE b == IF n > 0 THEN n + 1 ELSE BaseTick
           c == IF holding THEN HeldTick ELSE BaseTick
           S == {BaseTick} \union (IF n > 0 THEN {n + 1} ELSE {})
                           \union (IF holding THEN {HeldTick} ELSE {})
<1>1. BaseTick \in Int /\ b \in Int /\ c \in Int
  BY RegimeAssumption
<1>2. S = {BaseTick, b, c}
  OBVIOUS
<1> HIDE DEF b, c
<1>3. Min(S) \in Int /\ Min(S) <= BaseTick
  <2>1. /\ Min({BaseTick, b, c}) \in {BaseTick, b, c}
        /\ \A y \in {BaseTick, b, c} : Min({BaseTick, b, c}) <= y
    BY <1>1, MinOfThree
  <2> HIDE DEF S
  <2> QED  BY <1>1, <1>2, <2>1
<1>4. NextWake(n, holding) = Max({1, Min(S)})
  BY DEF NextWake
<1> HIDE DEF S
<1>5. NextWake(n, holding) = IF 1 >= Min(S) THEN 1 ELSE Min(S)
  BY <1>3, <1>4, MaxOfTwo
<1> QED  BY <1>3, <1>5, Longest

LEMMA ObserveTyped ==
  ASSUME RegimeTypeOK, Observe
  PROVE  RegimeTypeOK'
<1> DEFINE longest == Max({Cooloff, Pause, Confirm})
           tick == Max({1, BaseTick, HeldTick})
<1>1. PICK o \in Observation :
        /\ pause' = PauseAfter(o.move) /\ steady' = SteadyAfter(o.move)
        /\ event' = EventAfter(o) /\ trending' = TrendingAfter(o) /\ regime' = Decide(o)
        /\ owed' = IF Confirmed(o) THEN Cooloff ELSE owed
        /\ Waits(EventAfter(o))
  BY DEF Observe, CalmObservation
<1>2. o.halt \in BOOLEAN /\ o.jump \in BOOLEAN /\ o.reduce \in BOOLEAN
  BY DEF Observation
<1>3. /\ pause \in 0 .. Pause /\ event \in 0 .. longest /\ steady \in {Unsteady} \union 0 .. Confirm
      /\ trending \in BOOLEAN /\ sweep \in BOOLEAN /\ owed \in 0 .. Cooloff
  BY DEF RegimeTypeOK
<1>4. /\ Cooloff \in 0 .. longest /\ Pause \in 0 .. longest /\ Confirm \in 0 .. longest
      /\ longest \in Nat
  BY Longest
<1> HIDE DEF longest, tick
<1>5. pause' \in 0 .. Pause
  BY <1>1, <1>3, Longest, MaxOfTwo DEF PauseAfter
<1>6. steady' \in {Unsteady} \union 0 .. Confirm
  BY <1>1, <1>3, Longest DEF SteadyAfter
<1>7. event' \in 0 .. longest
  BY <1>1, <1>3, <1>4 DEF EventAfter
<1>8. trending' \in BOOLEAN
  BY <1>1, <1>3 DEF TrendingAfter
<1>9. regime' \in {"QUIET", "TRENDING", "EVENT", "REDUCE_ONLY", "HALTED"}
  BY <1>1 DEF Decide
<1>10. owed' \in 0 .. Cooloff
  BY <1>1, <1>3, Longest
<1>11. wake' \in 0 .. tick
  <2>1. PICK holding \in BOOLEAN : wake' = NextWake(EventAfter(o), holding)
    BY <1>1 DEF Waits
  <2>2. EventAfter(o) \in Nat
    BY <1>1, <1>4, <1>7
  <2> QED  BY <2>1, <2>2, WakeInTick DEF tick
<1>12. sweep' = FALSE /\ late' = 0 /\ calm' = calm /\ calm \in BOOLEAN
  BY DEF Observe, RegimeTypeOK
<1> QED
  BY <1>5, <1>6, <1>7, <1>8, <1>9, <1>10, <1>11, <1>12 DEF RegimeTypeOK, longest, tick

LEMMA RegimeTimeTyped ==
  ASSUME RegimeTypeOK, RegimeTime
  PROVE  RegimeTypeOK'
<1> DEFINE longest == Max({Cooloff, Pause, Confirm})
           tick == Max({1, BaseTick, HeldTick})
<1>1. /\ wake > 0 /\ wake' = wake - 1 /\ UNCHANGED <<trending, regime, sweep, calm>>
      /\ pause' = Less(pause) /\ event' = Less(event) /\ owed' = Less(owed)
      /\ steady' = IF steady = Unsteady THEN steady ELSE Min({steady + 1, Confirm})
      /\ late' = IF regime = "EVENT" /\ event = 0 /\ late # NotLate THEN late + 1 ELSE late
  BY DEF RegimeTime
<1>2. /\ pause \in 0 .. Pause /\ event \in 0 .. longest /\ steady \in {Unsteady} \union 0 .. Confirm
      /\ wake \in 0 .. tick /\ owed \in 0 .. Cooloff /\ late \in {NotLate} \union Nat
      /\ trending \in BOOLEAN /\ sweep \in BOOLEAN /\ calm \in BOOLEAN
      /\ regime \in {"QUIET", "TRENDING", "EVENT", "REDUCE_ONLY", "HALTED"}
  BY DEF RegimeTypeOK
<1>3. longest \in Nat /\ tick \in Nat
  BY Longest
<1> HIDE DEF longest, tick
<1>4. pause' \in 0 .. Pause /\ event' \in 0 .. longest /\ owed' \in 0 .. Cooloff
  BY <1>1, <1>2, <1>3, Longest, LessByOne
<1>5. steady' \in {Unsteady} \union 0 .. Confirm
  <2>1. CASE steady = Unsteady
    BY <1>1, <2>1
  <2>2. CASE steady \in 0 .. Confirm /\ steady # Unsteady
    <3>1. steady + 1 \in Int /\ Confirm \in Nat
      BY <2>2, Longest
    <3>2. Min({steady + 1, Confirm, Confirm}) \in {steady + 1, Confirm, Confirm}
          /\ \A y \in {steady + 1, Confirm, Confirm} : Min({steady + 1, Confirm, Confirm}) <= y
      BY <3>1, MinOfThree
    <3>3. {steady + 1, Confirm, Confirm} = {steady + 1, Confirm}
      OBVIOUS
    <3>4. Min({steady + 1, Confirm}) \in 0 .. Confirm
      BY <2>2, <3>1, <3>2, <3>3
    <3> QED  BY <1>1, <2>2, <3>4
  <2> QED  BY <1>2, <2>1, <2>2
<1>6. wake' \in 0 .. tick /\ late' \in {NotLate} \union Nat
  BY <1>1, <1>2, <1>3 DEF NotLate
<1> QED  BY <1>1, <1>2, <1>4, <1>5, <1>6 DEF RegimeTypeOK, longest, tick

\* The types hold at first and are kept by every step.
THEOREM RegimeTypesInductive ==
  /\ RegimeInit => RegimeTypeOK
  /\ RegimeTypeOK /\ [RegimeNext]_regimeVars => RegimeTypeOK'
<1>1. RegimeInit => RegimeTypeOK
  <2> SUFFICES ASSUME RegimeInit PROVE RegimeTypeOK
    OBVIOUS
  <2>1. wake \in 0 .. Max({1, BaseTick, HeldTick})
    BY Longest DEF RegimeInit
  <2>2. 0 \in 0 .. Pause /\ 0 \in 0 .. Cooloff /\ 0 \in 0 .. Max({Cooloff, Pause, Confirm})
    BY Longest
  <2> QED  BY <2>1, <2>2 DEF RegimeInit, RegimeTypeOK
<1>2. RegimeTypeOK /\ [RegimeNext]_regimeVars => RegimeTypeOK'
  <2> SUFFICES ASSUME RegimeTypeOK, [RegimeNext]_regimeVars PROVE RegimeTypeOK'
    OBVIOUS
  <2>1. CASE Unreadable
    <3>1. PICK holding \in BOOLEAN : wake' = NextWake(event, holding)
      BY <2>1 DEF Unreadable, Waits
    <3>2. event \in Nat
      BY Longest DEF RegimeTypeOK
    <3>3. wake' \in 0 .. Max({1, BaseTick, HeldTick})
      BY <3>1, <3>2, WakeInTick
    <3> QED  BY <2>1, <3>3 DEF Unreadable, RegimeTypeOK
  <2>2. CASE Sweep \/ CalmDown \/ UNCHANGED regimeVars
    BY <2>2 DEF Sweep, CalmDown, regimeVars, RegimeTypeOK
  <2> QED  BY <2>1, <2>2, ObserveTyped, RegimeTimeTyped DEF RegimeNext
<1> QED  BY <1>1, <1>2

-------------------------------------------------------------------------------
(* MarketFeed: what a fold computes *)

\* The largest of a set of indices that holds the last one.
LEMMA MaxOfPrefix ==
  ASSUME NEW n \in Nat, NEW T \in SUBSET (1 .. n + 1), n + 1 \in T
  PROVE  Max(T) = n + 1
<1>1. \A x \in T : x \in Int /\ x <= n + 1
  OBVIOUS
<1>2. Max(T) \in T /\ \A y \in T : Max(T) >= y
  <2>1. \E x \in T : \A y \in T : x >= y
    BY <1>1
  <2> QED  BY <2>1 DEF Max
<1>3. Max(T) >= n + 1 /\ Max(T) \in Int /\ Max(T) <= n + 1
  BY <1>1, <1>2
<1> QED  BY <1>3

\* What FoldLeft computes is a function on the sets of indices.
Fold(b, s, n, it) ==
  it = [T \in SUBSET (1 .. n) |->
          IF T = {} THEN b ELSE FeedApply(it[T \ {Max(T)}], s[Max(T)])]

LEMMA FoldExists ==
  ASSUME NEW b, NEW s, NEW n \in Nat
  PROVE  \E it : Fold(b, s, n, it)
<1> DEFINE T == {k \in Nat : \E it : Fold(b, s, k, it)}
<1>1. 0 \in T
  <2> DEFINE it == [U \in {{}} |-> b]
  <2>1. SUBSET (1 .. 0) = {{}}
    OBVIOUS
  <2>2. Fold(b, s, 0, it)
    BY <2>1 DEF Fold
  <2> QED  BY <2>2
<1>2. ASSUME NEW k \in Nat, k \in T PROVE k + 1 \in T
  <2>1. PICK it : Fold(b, s, k, it)
    BY <1>2
  <2> DEFINE new == [U \in SUBSET (1 .. k + 1) |->
                       IF k + 1 \in U THEN FeedApply(it[U \ {k + 1}], s[k + 1]) ELSE it[U]]
  <2>2. \A U \in SUBSET (1 .. k + 1) : k + 1 \notin U => U \in SUBSET (1 .. k)
    OBVIOUS
  <2>3. \A U \in SUBSET (1 .. k + 1) : U \ {k + 1} \in SUBSET (1 .. k + 1)
    OBVIOUS
  <2>4. ASSUME NEW U \in SUBSET (1 .. k + 1)
        PROVE  new[U] = IF U = {} THEN b ELSE FeedApply(new[U \ {Max(U)}], s[Max(U)])
    <3>1. CASE k + 1 \in U
      <4>1. Max(U) = k + 1
        BY <3>1, MaxOfPrefix
      <4>2. new[U \ {k + 1}] = it[U \ {k + 1}]
        BY <2>3
      <4> QED  BY <3>1, <4>1, <4>2
    <3>2. CASE k + 1 \notin U
      <4>1. U \in SUBSET (1 .. k) /\ new[U] = it[U]
        BY <2>2, <3>2
      <4>2. CASE U = {}
        BY <2>1, <4>1, <4>2 DEF Fold
      <4>3. CASE U # {}
        <5> DEFINE V == U \ {Max(U)}
        <5>1. it[U] = FeedApply(it[V], s[Max(U)])
          BY <2>1, <4>1, <4>3 DEF Fold
        <5>2. V \in SUBSET (1 .. k + 1) /\ k + 1 \notin V
          BY <4>1, <3>2
        <5>3. new[V] = it[V]
          BY <5>2
        <5> QED  BY <4>1, <4>3, <5>1, <5>3
      <4> QED  BY <4>2, <4>3
    <3> QED  BY <3>1, <3>2
  <2>5. Fold(b, s, k + 1, new)
    BY <2>4 DEF Fold
  <2> QED  BY <2>5
<1> HIDE DEF T
<1>3. n \in T
  BY <1>1, <1>2, Induction
<1> QED  BY <1>3 DEF T

\* The book after each of the messages.
IsRun(b, s, r) ==
  /\ r[0] = b
  /\ \A k \in 0 .. Len(s) - 1 : r[k + 1] = FeedApply(r[k], s[k + 1])

LEMMA ReplayIsRun ==
  ASSUME NEW M, NEW b, NEW s \in Seq(M)
  PROVE  \E r : IsRun(b, s, r) /\ r[Len(s)] = Replay(b, s)
<1>1. DOMAIN s = 1 .. Len(s) /\ Len(s) \in Nat
  OBVIOUS
<1> DEFINE it == CHOOSE it : Fold(b, s, Len(s), it)
           r == [k \in 0 .. Len(s) |-> it[1 .. k]]
<1>2. Replay(b, s) = it[1 .. Len(s)]
  <2>1. Replay(b, s) = (CHOOSE f : f = [T \in SUBSET DOMAIN s |->
          IF T = {} THEN b ELSE FeedApply(f[T \ {Max(T)}], s[Max(T)])])[DOMAIN s]
    BY Zenon DEF Replay, FoldLeft, MapThenFoldSet
  <2> QED  BY <1>1, <2>1 DEF Fold
<1>3. Fold(b, s, Len(s), it)
  BY <1>1, FoldExists
<1> HIDE DEF it
<1>4. r[0] = b
  <2>1. it[{}] = b
    BY <1>3 DEF Fold
  <2>2. 1 .. 0 = {} /\ 0 \in 0 .. Len(s)
    BY <1>1
  <2> QED  BY <2>1, <2>2
<1>5. ASSUME NEW k \in 0 .. Len(s) - 1 PROVE r[k + 1] = FeedApply(r[k], s[k + 1])
  <2>1. k \in Nat /\ k + 1 \in 1 .. k + 1 /\ k + 1 <= Len(s)
    BY <1>1
  <2>5. 1 .. k + 1 \in SUBSET (1 .. Len(s)) /\ 1 .. k + 1 # {}
    <3>1. \A x \in 1 .. k + 1 : x \in 1 .. Len(s)
      BY <1>1, <2>1
    <3> QED  BY <2>1, <3>1, Zenon
  <2>2. Max(1 .. k + 1) = k + 1
    BY <2>1, <2>5, MaxOfPrefix
  <2>3. (1 .. k + 1) \ {k + 1} = 1 .. k
    BY <2>1
  <2>4. it[1 .. k + 1] = FeedApply(it[1 .. k], s[k + 1])
    BY <1>3, <2>5, <2>2, <2>3 DEF Fold
  <2> QED  BY <1>1, <2>4
<1>6. r[Len(s)] = it[1 .. Len(s)]
  BY <1>1
<1> QED  BY <1>2, <1>4, <1>5, <1>6 DEF IsRun

LEMMA RunIsReplay ==
  ASSUME NEW M, NEW b, NEW s \in Seq(M), NEW r, IsRun(b, s, r)
  PROVE  r[Len(s)] = Replay(b, s)
<1>1. PICK q : IsRun(b, s, q) /\ q[Len(s)] = Replay(b, s)
  BY ReplayIsRun
<1> DEFINE T == {k \in Nat : k <= Len(s) => q[k] = r[k]}
<1>2. 0 \in T
  BY <1>1 DEF IsRun
<1>3. ASSUME NEW k \in Nat, k \in T PROVE k + 1 \in T
  <2> SUFFICES ASSUME k + 1 <= Len(s) PROVE q[k + 1] = r[k + 1]
    OBVIOUS
  <2>1. Len(s) \in Nat
    OBVIOUS
  <2>2. k \in 0 .. Len(s) - 1 /\ q[k] = r[k]
    BY <1>3, <2>1
  <2> QED  BY <1>1, <2>2 DEF IsRun
<1> HIDE DEF T
<1>4. Len(s) \in T
  BY <1>2, <1>3, Induction
<1> QED  BY <1>1, <1>4 DEF T

\* Nothing to replay, one more message, and the first message.
LEMMA ReplayNothing ==
  ASSUME NEW b
  PROVE  Replay(b, <<>>) = b
<1>1. PICK r : IsRun(b, <<>>, r) /\ r[Len(<<>>)] = Replay(b, <<>>)
  BY ReplayIsRun, <<>> \in Seq({})
<1> QED  BY <1>1 DEF IsRun

LEMMA ReplayAppend ==
  ASSUME NEW M, NEW b, NEW s \in Seq(M), NEW m \in M
  PROVE  Replay(b, Append(s, m)) = FeedApply(Replay(b, s), m)
<1> DEFINE t == Append(s, m)
<1>1. /\ t \in Seq(M) /\ Len(s) \in Nat /\ Len(t) = Len(s) + 1 /\ t[Len(s) + 1] = m
      /\ \A i \in 1 .. Len(s) : t[i] = s[i]
  OBVIOUS
<1>2. PICK r : IsRun(b, t, r) /\ r[Len(t)] = Replay(b, t)
  BY <1>1, ReplayIsRun
<1>3. IsRun(b, s, r)
  BY <1>1, <1>2 DEF IsRun
<1>4. r[Len(s)] = Replay(b, s)
  BY <1>3, RunIsReplay
<1>5. r[Len(s) + 1] = FeedApply(r[Len(s)], m)
  BY <1>1, <1>2 DEF IsRun
<1> QED  BY <1>1, <1>2, <1>4, <1>5

LEMMA ReplayHead ==
  ASSUME NEW M, NEW b, NEW s \in Seq(M), s # <<>>
  PROVE  Replay(b, s) = Replay(FeedApply(b, Head(s)), Tail(s))
<1> DEFINE t == Tail(s)
<1>1. /\ t \in Seq(M) /\ Len(s) \in Nat \ {0} /\ Len(t) = Len(s) - 1 /\ Head(s) = s[1]
      /\ \A i \in 1 .. Len(s) - 1 : t[i] = s[i + 1]
  OBVIOUS
<1>2. PICK r : IsRun(b, s, r) /\ r[Len(s)] = Replay(b, s)
  BY ReplayIsRun
<1> DEFINE q == [k \in 0 .. Len(s) - 1 |-> r[k + 1]]
<1>3. IsRun(FeedApply(b, Head(s)), t, q)
  <2>1. q[0] = r[1]
    BY <1>1
  <2>2. r[1] = FeedApply(b, Head(s))
    BY <1>1, <1>2 DEF IsRun
  <2>3. ASSUME NEW k \in 0 .. Len(t) - 1 PROVE q[k + 1] = FeedApply(q[k], t[k + 1])
    <3>1. k + 1 \in 0 .. Len(s) - 1 /\ k \in 0 .. Len(s) - 1 /\ t[k + 1] = s[k + 2]
      BY <1>1
    <3>2. r[(k + 1) + 1] = FeedApply(r[k + 1], s[(k + 1) + 1])
      BY <1>2, <3>1 DEF IsRun
    <3> QED  BY <3>1, <3>2
  <2> HIDE DEF q
  <2> QED  BY <2>1, <2>2, <2>3 DEF IsRun
<1>4. q[Len(t)] = r[Len(s)]
  BY <1>1
<1> HIDE DEF q
<1>5. q[Len(t)] = Replay(FeedApply(b, Head(s)), t)
  BY <1>1, <1>3, RunIsReplay
<1> QED  BY <1>2, <1>4, <1>5

-------------------------------------------------------------------------------
(* MarketFeed: the invariant and its steps *)

Snapshots == [kind : {"book"}, book : Book]
Deltas == [kind : {"price_change"}, side : Sides, price : Prices, on : BOOLEAN]
Messages == Snapshots \union Deltas

FTypes ==
  /\ xbook \in Book /\ book \in Book /\ Uncrossed(xbook)
  /\ link \in {"up", "down", "off"} /\ gap \in 0 .. StaleAfter + 1
  /\ chan \in Seq(Messages) /\ (link # "up" => chan = <<>>)
  /\ fetch = {} \/ \E b \in Book : fetch = {b}
  /\ behind \in BOOLEAN /\ killed \in BOOLEAN /\ quoted \in BOOLEAN

\* A snapshot is the first message of its connection.
SnapshotFirst == \A i \in 2 .. Len(chan) : chan[i] \in Deltas

\* Whoever applies the snapshot is in step, whatever was missed before.
InStep ==
  link = "up" /\ (~behind \/ (chan # <<>> /\ Head(chan) \in Snapshots)) =>
    Replay(book, chan) = xbook

FInv == FTypes /\ SnapshotFirst /\ InStep

LEMMA MessageKinds ==
  /\ \A m \in Snapshots : m.kind = "book" /\ m.book \in Book
  /\ \A m \in Deltas : m.kind = "price_change" /\ m.side \in Sides /\ m.price \in Prices
                       /\ m.on \in BOOLEAN
  /\ \A m \in Messages : m \in Snapshots <=> m.kind = "book"
  BY DEF Snapshots, Deltas, Messages

LEMMA Applied ==
  ASSUME NEW b \in Book, NEW m \in Messages
  PROVE  /\ FeedApply(b, m) \in Book
         /\ m \in Snapshots => FeedApply(b, m) = m.book
         /\ m \in Deltas => FeedApply(b, m) = ApplyDelta(b, m)
<1>1. CASE m \in Snapshots
  BY <1>1, MessageKinds DEF FeedApply, ApplySnapshot
<1>2. CASE m \in Deltas
  BY <1>2, MessageKinds DEF FeedApply, ApplyDelta, Book
<1> QED  BY <1>1, <1>2, MessageKinds DEF Messages

\* The messages left when the first is taken are changes.
LEMMA Rest ==
  ASSUME chan \in Seq(Messages), SnapshotFirst, chan # <<>>
  PROVE  /\ Tail(chan) \in Seq(Messages) /\ Head(chan) \in Messages
         /\ \A i \in 1 .. Len(Tail(chan)) : Tail(chan)[i] \in Deltas
<1>1. /\ Tail(chan) \in Seq(Messages) /\ Head(chan) \in Messages /\ Len(chan) \in Nat \ {0}
      /\ Len(Tail(chan)) = Len(chan) - 1
      /\ \A i \in 1 .. Len(chan) - 1 : Tail(chan)[i] = chan[i + 1]
  OBVIOUS
<1> QED  BY <1>1 DEF SnapshotFirst

\* Of a sequence of changes none is a snapshot.
LEMMA NoSnapshotLeft ==
  ASSUME NEW s \in Seq(Messages), \A i \in 1 .. Len(s) : s[i] \in Deltas
  PROVE  ~(s # <<>> /\ Head(s) \in Snapshots) /\ \A i \in 2 .. Len(s) : s[i] \in Deltas
<1>1. s # <<>> => Head(s) = s[1] /\ 1 \in 1 .. Len(s)
  OBVIOUS
<1>2. \A m \in Deltas : m \notin Snapshots
  BY MessageKinds
<1>3. \A i \in 2 .. Len(s) : i \in 1 .. Len(s)
  OBVIOUS
<1> QED  BY <1>1, <1>2, <1>3

LEMMA FeedFrame ==
  ASSUME FInv, UNCHANGED <<xbook, link, chan, gap, book>>, behind' \in BOOLEAN,
         killed' \in BOOLEAN, quoted' \in BOOLEAN,
         fetch' = {} \/ \E b \in Book : fetch' = {b}, behind => behind'
  PROVE  FInv'
  BY DEF FInv, FTypes, SnapshotFirst, InStep

LEMMA MovesKeep ==
  ASSUME FInv, ExchangeMoves
  PROVE  FInv'
<1> USE DEF FInv
<1>1. PICK s \in Sides, p \in Prices :
        /\ xbook' = ApplyDelta(xbook, Delta(s, p, p \notin xbook[s]))
        /\ chan' = IF link = "up" THEN Append(chan, Delta(s, p, p \notin xbook[s])) ELSE chan
  BY DEF ExchangeMoves
<1> DEFINE m == Delta(s, p, p \notin xbook[s])
<1>2. m \in Deltas
  BY DEF Delta, Deltas
<1>3. /\ m \in Messages /\ xbook' = ApplyDelta(xbook, m) /\ xbook' = FeedApply(xbook, m)
      /\ chan' = (IF link = "up" THEN Append(chan, m) ELSE chan) /\ xbook' \in Book
  BY <1>1, <1>2, Applied DEF Messages, FTypes
<1> HIDE DEF m
<1>4. Uncrossed(xbook)' /\ UNCHANGED <<link, gap, book, fetch, behind, killed, quoted>>
  BY DEF ExchangeMoves
<1>5. CASE link = "up"
  <2>1. chan' = Append(chan, m) /\ chan' \in Seq(Messages)
    BY <1>3, <1>5 DEF FTypes
  <2>2. FTypes'
    BY <1>3, <1>4, <1>5, <2>1 DEF FTypes
  <2>3. SnapshotFirst'
    BY <1>2, <2>1 DEF FTypes, SnapshotFirst
  <2>4. Replay(book, chan') = FeedApply(Replay(book, chan), m)
    BY <1>3, <2>1, ReplayAppend DEF FTypes
  <2>5. ASSUME chan' # <<>>, Head(chan') \in Snapshots PROVE chan # <<>> /\ Head(chan) \in Snapshots
    <3>1. chan = <<>> => Head(chan') = m
      BY <2>1
    <3>2. chan # <<>> => Head(chan') = Head(chan)
      BY <2>1 DEF FTypes
    <3>3. m \notin Snapshots
      BY <1>2, MessageKinds
    <3> QED  BY <2>5, <3>1, <3>2, <3>3
  <2>6. InStep'
    BY <1>3, <1>4, <2>4, <2>5 DEF InStep
  <2> QED  BY <2>2, <2>3, <2>6
<1>6. CASE link # "up"
  <2>1. chan' = chan /\ link' # "up"
    BY <1>3, <1>4, <1>6
  <2> QED  BY <1>3, <1>4, <2>1 DEF FTypes, SnapshotFirst, InStep
<1> QED  BY <1>5, <1>6

LEMMA ConnectKeeps ==
  ASSUME FInv, Connect
  PROVE  FInv'
<1> DEFINE m == Snapshot(xbook)
<1>1. m \in Snapshots /\ m.book = xbook
  BY DEF FInv, FTypes, Snapshot, Snapshots
<1>2. chan' = <<m>> /\ UNCHANGED <<xbook, book, fetch, killed, quoted>>
      /\ link' = "up" /\ gap' = 0 /\ behind' = FALSE
  BY DEF Connect
<1> HIDE DEF m
<1>3. m \in Messages /\ FeedApply(book, m) = xbook
  BY <1>1, Applied DEF FInv, FTypes, Messages
<1>4. Replay(book, <<m>>) = xbook
  <2> DEFINE e == <<>>
  <2>1. e \in Seq(Messages) /\ <<m>> = Append(e, m) /\ e = <<>>
    OBVIOUS
  <2>2. m \in Messages
    BY <1>3
  <2> HIDE DEF e
  <2>3. \A s \in Seq(Messages) : Replay(book, Append(s, m)) = FeedApply(Replay(book, s), m)
    BY <2>2, ReplayAppend
  <2>4. Replay(book, e) = book
    BY <2>1, ReplayNothing
  <2> QED  BY <1>3, <2>1, <2>3, <2>4
<1>5. chan' \in Seq(Messages) /\ Len(chan') = 1
  BY <1>2, <1>3
<1>6. FTypes'
  <2>1. StaleAfter \in Nat
    BY FeedAssumption
  <2>2. gap' \in 0 .. StaleAfter + 1
    BY <1>2, <2>1
  <2>3. Uncrossed(xbook)'
    BY <1>2 DEF FInv, FTypes, Uncrossed
  <2> QED  BY <1>2, <1>5, <2>2, <2>3 DEF FInv, FTypes
<1>7. SnapshotFirst'
  <2>1. \A i \in 2 .. Len(chan') : chan'[i] \in Deltas
    BY <1>5
  <2> QED  BY <1>2, <1>5, <2>1 DEF SnapshotFirst
<1>8. InStep'
  BY <1>2, <1>4 DEF InStep
<1> QED  BY <1>6, <1>7, <1>8 DEF FInv

LEMMA ReceiveKeeps ==
  ASSUME FInv, Receive
  PROVE  FInv'
<1> USE DEF FInv
<1> DEFINE m == Head(chan)
<1>1. chan # <<>> /\ book' = FeedApply(book, m) /\ chan' = Tail(chan)
      /\ behind' = (behind /\ m.kind # "book") /\ UNCHANGED <<xbook, link, gap, fetch, killed, quoted>>
  BY DEF Receive
<1>2. chan' \in Seq(Messages) /\ m \in Messages /\ \A i \in 1 .. Len(chan') : chan'[i] \in Deltas
  BY <1>1, Rest DEF FTypes
<1>3. Replay(book', chan') = Replay(book, chan)
  BY <1>1, ReplayHead DEF FTypes
<1>4. book' \in Book /\ link = "up"
  BY <1>1, <1>2, Applied DEF FTypes
<1>5. behind' \in BOOLEAN
  <2>1. (behind /\ m.kind # "book") \in BOOLEAN
    OBVIOUS
  <2> QED  BY <1>1, <2>1, Zenon
<1>6. FTypes'
  BY <1>1, <1>2, <1>4, <1>5 DEF FTypes
<1>7. SnapshotFirst'
  BY <1>2, NoSnapshotLeft DEF SnapshotFirst
<1>8. InStep'
  <2> SUFFICES ASSUME ~behind' PROVE Replay(book, chan) = xbook
    BY <1>1, <1>2, <1>3, NoSnapshotLeft DEF InStep
  <2>1. ~behind \/ m \in Snapshots
    BY <1>1, <1>2, MessageKinds
  <2> QED  BY <1>1, <1>4, <2>1 DEF InStep
<1> QED  BY <1>6, <1>7, <1>8

LEMMA MissedKeeps ==
  ASSUME FInv, Missed
  PROVE  FInv'
<1> USE DEF FInv
<1>1. chan # <<>> /\ chan' = Tail(chan) /\ behind' = TRUE
      /\ UNCHANGED <<xbook, link, gap, fetch, killed, quoted>>
  BY DEF Missed
<1>2. chan' \in Seq(Messages) /\ Head(chan) \in Messages
      /\ \A i \in 1 .. Len(chan') : chan'[i] \in Deltas
  BY <1>1, Rest DEF FTypes
<1>3. book' \in Book
  <2>1. CASE UNCHANGED book
    BY <2>1 DEF FTypes
  <2>2. CASE /\ Head(chan).kind = "book"
             /\ \E s \in Sides : \E p \in Head(chan).book[s] :
                  book' = [Head(chan).book EXCEPT ![s] = @ \ {p}]
    <3>1. Head(chan).book \in Book
      BY <1>2, <2>2, MessageKinds
    <3> QED  BY <2>2, <3>1 DEF Book
  <2> QED  BY <2>1, <2>2 DEF Missed
<1>4. FTypes' /\ link = "up"
  BY <1>1, <1>2, <1>3 DEF FTypes
<1>5. SnapshotFirst' /\ InStep'
  BY <1>1, <1>2, NoSnapshotLeft DEF SnapshotFirst, InStep
<1> QED  BY <1>4, <1>5

LEMMA AnswerKeeps ==
  ASSUME FInv, RefreshAnswered
  PROVE  FInv'
<1> USE DEF FInv
<1>1. PICK rest \in fetch :
        /\ book' = IF DriftOf(book, rest) THEN ApplySnapshot(book, rest) ELSE book
        /\ behind' = (behind \/ (DriftOf(book, rest) /\ Replay(rest, chan) # xbook))
  BY DEF RefreshAnswered
<1>2. fetch' = {} /\ UNCHANGED <<xbook, link, chan, gap, killed, quoted>>
  BY DEF RefreshAnswered
<1>3. rest \in Book
  BY DEF FTypes
<1>4. behind' \in BOOLEAN
  <2>1. (behind \/ (DriftOf(book, rest) /\ Replay(rest, chan) # xbook)) \in BOOLEAN
    OBVIOUS
  <2> QED  BY <1>1, <2>1, Zenon
<1>5. book' \in Book /\ (book' = book \/ (DriftOf(book, rest) /\ book' = rest))
  BY <1>1, <1>3 DEF FTypes, ApplySnapshot
<1>6. FTypes' /\ SnapshotFirst'
  BY <1>2, <1>4, <1>5 DEF FTypes, SnapshotFirst
<1>7. InStep'
  <2> SUFFICES ASSUME link = "up", ~behind' \/ (chan # <<>> /\ Head(chan) \in Snapshots)
               PROVE  Replay(book', chan) = xbook
    BY <1>2 DEF InStep
  <2>1. CASE book' = book
    <3>1. ~behind \/ (chan # <<>> /\ Head(chan) \in Snapshots)
      BY <1>1
    <3> QED  BY <2>1, <3>1 DEF InStep
  <2>2. CASE DriftOf(book, rest) /\ book' = rest /\ ~behind'
    BY <1>1, <2>2
  <2>3. CASE chan # <<>> /\ Head(chan) \in Snapshots
    <3>1. Replay(book, chan) = xbook
      BY <2>3 DEF InStep
    <3>2. FeedApply(book', Head(chan)) = FeedApply(book, Head(chan))
      BY <1>5, <2>3, Applied DEF FTypes, Messages
    <3>3. Replay(book', chan) = Replay(FeedApply(book', Head(chan)), Tail(chan))
      BY <2>3, ReplayHead DEF FTypes
    <3>4. Replay(book, chan) = Replay(FeedApply(book, Head(chan)), Tail(chan))
      BY <2>3, ReplayHead DEF FTypes
    <3> QED  BY <3>1, <3>2, <3>3, <3>4
  <2> QED  BY <1>5, <2>1, <2>2, <2>3
<1> QED  BY <1>6, <1>7

LEMMA FeedStep ==
  ASSUME FInv, [FeedNext]_feedVars
  PROVE  FInv'
<1>1. CASE ExchangeMoves \/ Connect \/ Receive \/ Missed \/ RefreshAnswered
  BY <1>1, MovesKeep, ConnectKeeps, ReceiveKeeps, MissedKeeps, AnswerKeeps
<1>2. CASE ConnectFails \/ RefreshAsks \/ RefreshFails \/ FeedKill \/ UNCHANGED feedVars
  <2>1. UNCHANGED <<xbook, link, chan, gap, book, behind, quoted>>
    BY <1>2 DEF ConnectFails, RefreshAsks, RefreshFails, FeedKill, feedVars
  <2>2. killed' \in BOOLEAN
    BY <1>2 DEF ConnectFails, RefreshAsks, RefreshFails, FeedKill, feedVars, FInv, FTypes
  <2>3. fetch' = {} \/ \E b \in Book : fetch' = {b}
    BY <1>2 DEF ConnectFails, RefreshAsks, RefreshFails, FeedKill, feedVars, FInv, FTypes
  <2> QED  BY <2>1, <2>2, <2>3, FeedFrame DEF FInv, FTypes
<1>3. CASE FeedRecompute
  <2>1. UNCHANGED <<xbook, link, chan, gap, book, behind, killed, fetch>> /\ quoted' \in BOOLEAN
    BY <1>3 DEF FeedRecompute
  <2> QED  BY <2>1, FeedFrame DEF FInv, FTypes
<1>4. CASE Drop
  <2>1. /\ UNCHANGED <<xbook, book, fetch, behind, killed, quoted>> /\ link' = "down"
        /\ gap' = 0 /\ chan' = <<>>
    BY <1>4 DEF Drop
  <2>2. <<>> \in Seq(Messages) /\ Len(<<>>) = 0 /\ StaleAfter \in Nat
    BY FeedAssumption
  <2> QED  BY <2>1, <2>2 DEF FInv, FTypes, SnapshotFirst, InStep
<1>5. CASE FeedTime
  <2>1. /\ UNCHANGED <<xbook, link, chan, book, fetch, behind, killed, quoted>>
        /\ gap <= StaleAfter /\ gap' = gap + 1
    BY <1>5 DEF FeedTime
  <2>2. StaleAfter \in Nat
    BY FeedAssumption
  <2> QED  BY <2>1, <2>2 DEF FInv, FTypes, SnapshotFirst, InStep
<1> QED  BY <1>1, <1>2, <1>3, <1>4, <1>5 DEF FeedNext

LEMMA FeedStart ==
  ASSUME FeedInit
  PROVE  FInv
<1>1. EmptyBook \in Book /\ FirstBook \in Book /\ StaleAfter \in Nat
  BY FeedAssumption DEF EmptyBook, Book
<1>2. chan \in Seq(Messages) /\ Len(chan) = 0 /\ chan = <<>>
  BY DEF FeedInit
<1>3. Uncrossed(xbook)
  BY FirstBookAssumption DEF FeedInit
<1>4. FTypes
  <2>1. xbook \in Book /\ book \in Book /\ link \in {"up", "down", "off"}
    BY <1>1 DEF FeedInit
  <2>2. gap \in 0 .. StaleAfter + 1
    BY <1>1 DEF FeedInit
  <2>3. fetch = {} /\ behind \in BOOLEAN /\ killed \in BOOLEAN /\ quoted \in BOOLEAN
    BY DEF FeedInit
  <2> QED  BY <1>2, <1>3, <2>1, <2>2, <2>3, Zenon DEF FTypes
<1>5. SnapshotFirst
  BY <1>2 DEF SnapshotFirst
<1>6. InStep
  BY DEF FeedInit, InStep
<1> QED  BY <1>4, <1>5, <1>6 DEF FInv

LEMMA FeedTypesImply ==
  ASSUME FInv
  PROVE  FeedTypeOK /\ FeedInSync
<1>1. Cardinality(fetch) <= 1 /\ fetch \subseteq Book
  <2>1. CASE fetch = {}
    BY <2>1, FS_EmptySet
  <2>2. CASE \E b \in Book : fetch = {b}
    BY <2>2, FS_Singleton
  <2> QED  BY <2>1, <2>2 DEF FInv, FTypes
<1> QED  BY <1>1 DEF FInv, FTypes, FeedTypeOK, FeedInSync, InStep

\* The invariant holds in every state.
THEOREM FeedInductive == FeedSpec => []FInv
  BY FeedStart, FeedStep, PTL DEF FeedSpec

\* Types; nothing of a lost connection is left to be applied, and one answer at most is
\* waited for.
THEOREM FeedTypeCorrect == FeedSpec => []FeedTypeOK
<1>1. FInv => FeedTypeOK
  BY FeedTypesImply
<1> QED  BY <1>1, FeedInductive, PTL

\* "Reconnects re-snapshot automatically" (marketdata/service.py), for every book, any
\* number of changes, losses and reconnections: unless a message of this connection was
\* missed, or undone by an older answer, what is under way leads to the exchange's book.
THEOREM FeedStaysInSync == FeedSpec => []FeedInSync
<1>1. FInv => FeedInSync
  BY FeedTypesImply
<1> QED  BY <1>1, FeedInductive, PTL
===============================================================================
