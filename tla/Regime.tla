-------------------------------- MODULE Regime --------------------------------
(***************************************************************************)
(* When a market's quotes are pulled for an event, and when they return.   *)
(*                                                                         *)
(*   strategy/regime.py      RegimeMachine                                 *)
(*   strategy/estimators.py  MidpointGuard.update                          *)
(*   engine.py               _on_trade's sweep flag, _next_wake_s, the     *)
(*                           quoter's wait, the inputs of decide           *)
(*                                                                         *)
(* Deadlines are kept as the time that is left until them.  Prices and     *)
(* flows are left out: an observation says how far the midpoint moved      *)
(* ("still", "moved" by more than a tick, "jumped"), whether the fair      *)
(* value jumped, and whether the trend signals are low, between their two  *)
(* thresholds, or high.                                                    *)
(***************************************************************************)
EXTENDS Integers, FiniteSetsExt

CONSTANTS
  Cooloff,     \* event_cooloff_s
  Pause,       \* anti_sniping_pause_s
  Confirm,     \* anti_sniping_stable_confirm_s
  BaseTick,    \* quoter_tick_s
  HeldTick     \* the tick while inventory is held

ASSUME RegimeAssumption ==
  /\ {Cooloff, Pause, Confirm} \subseteq Nat
  /\ {BaseTick, HeldTick} \subseteq Nat \ {0}

Unsteady == -1   \* _stable_since is None
NotLate == -1    \* the last recompute found a book it could not price

Observation ==
  [move : {"still", "moved", "jumped"}, jump : BOOLEAN, trend : {"low", "between", "high"},
   halt : BOOLEAN, reduce : BOOLEAN]

CalmObservation ==
  {o \in Observation : o.move = "still" /\ ~o.jump /\ ~o.halt /\ ~o.reduce}

VARIABLES
  pause,     \* MidpointGuard: left until _pause_until
  steady,    \* MidpointGuard: age of _stable_since, as far as it matters
  event,     \* RegimeMachine: left until _event_until
  trending,  \* RegimeMachine
  regime,    \* what the last recompute decided
  sweep,     \* Engine._sweep of the market
  wake,      \* the quoter: left until its wait times out
  calm,      \* history: from now on nothing happens in the market
  owed,      \* history: left of the cool-off of the last sweep or jump decided upon
  late       \* history: for how long the quotes have been away without a reason

regimeVars == <<pause, steady, event, trending, regime, sweep, wake, calm, owed, late>>

Less(n) == Max({n - 1, 0})

-------------------------------------------------------------------------------
(* MidpointGuard.update *)

SteadyRestarted(move) ==   \* mutant: every update starts the confirmation over
  IF move = "jumped" THEN Unsteady ELSE 0

SteadyAfter(move) ==
  IF move = "jumped" THEN Unsteady
  ELSE IF steady = Unsteady \/ move = "moved" THEN 0 ELSE steady

PauseAfter(move) == IF move = "jumped" THEN Max({pause, Pause}) ELSE pause

StableAfter(move) ==
  PauseAfter(move) = 0 /\ SteadyAfter(move) # Unsteady /\ SteadyAfter(move) >= Confirm

-------------------------------------------------------------------------------
(* RegimeMachine.decide *)

Confirmed(o) == ~o.halt /\ (sweep \/ o.jump)

Overlay(o) == PauseAfter(o.move) > 0 \/ ~StableAfter(o.move)

EventOverridden(o) ==   \* mutant: the overlay's horizon replaces a longer cool-off
  IF o.halt THEN event
  ELSE IF Confirmed(o) THEN Cooloff
  ELSE IF Overlay(o) THEN (IF PauseAfter(o.move) > 0 THEN Pause ELSE Confirm)
  ELSE event

EventAfter(o) ==
  IF o.halt THEN event
  ELSE IF Confirmed(o) THEN Cooloff
  ELSE IF Overlay(o) /\ event = 0 THEN (IF PauseAfter(o.move) > 0 THEN Pause ELSE Confirm)
  ELSE event

InEvent(o) == Confirmed(o) \/ Overlay(o) \/ event > 0

TrendingAfter(o) ==
  IF o.halt \/ InEvent(o) \/ o.reduce THEN trending
  ELSE IF trending THEN o.trend # "low" ELSE o.trend = "high"

Decide(o) ==
  IF o.halt THEN "HALTED"
  ELSE IF InEvent(o) THEN "EVENT"
  ELSE IF o.reduce THEN "REDUCE_ONLY"
  ELSE IF TrendingAfter(o) THEN "TRENDING" ELSE "QUIET"

-------------------------------------------------------------------------------
(* The quoter *)

NextWakeIgnoringCooloff(left, holding) ==   \* mutant
  Min({BaseTick} \union IF holding THEN {HeldTick} ELSE {})

\* _next_wake_s: just after the end of a cool-off, sooner with inventory.
NextWake(left, holding) ==
  Max({1, Min({BaseTick} \union (IF left > 0 THEN {left + 1} ELSE {})
                         \union (IF holding THEN {HeldTick} ELSE {}))})

Waits(left) == \E holding \in BOOLEAN : wake' = NextWake(left, holding)

\* The book can be priced.  The sweep flag is taken even if decide never asks for it.
Observe ==
  /\ \E o \in IF calm THEN CalmObservation ELSE Observation :
       /\ pause' = PauseAfter(o.move)
       /\ steady' = SteadyAfter(o.move)
       /\ event' = EventAfter(o)
       /\ trending' = TrendingAfter(o)
       /\ regime' = Decide(o)
       /\ owed' = IF Confirmed(o) THEN Cooloff ELSE owed
       /\ Waits(EventAfter(o))
  /\ sweep' = FALSE
  /\ late' = 0
  /\ UNCHANGED calm

\* It cannot: nothing is decided, and the wait begins again.  The message that makes
\* the book readable ends it.
Unreadable ==
  /\ ~calm
  /\ Waits(event)
  /\ late' = NotLate
  /\ UNCHANGED <<pause, steady, event, trending, regime, sweep, calm, owed>>

\* A wait that timed out is over before more time passes.
RegimeTime ==
  /\ wake > 0
  /\ wake' = wake - 1
  /\ pause' = Less(pause)
  /\ event' = Less(event)
  /\ owed' = Less(owed)
  /\ steady' = IF steady = Unsteady THEN steady ELSE Min({steady + 1, Confirm})
  /\ late' = IF regime = "EVENT" /\ event = 0 /\ late # NotLate THEN late + 1 ELSE late
  /\ UNCHANGED <<trending, regime, sweep, calm>>

\* _on_trade: a print that ate through the book.
Sweep ==
  /\ ~calm
  /\ sweep' = TRUE
  /\ UNCHANGED <<pause, steady, event, trending, regime, wake, calm, owed, late>>

CalmDown ==
  /\ ~calm
  /\ calm' = TRUE
  /\ UNCHANGED <<pause, steady, event, trending, regime, sweep, wake, owed, late>>

-------------------------------------------------------------------------------
RegimeInit ==
  /\ pause = 0 /\ steady = Unsteady /\ event = 0 /\ trending = FALSE /\ regime = "QUIET"
  /\ sweep = FALSE /\ wake = BaseTick /\ calm = FALSE /\ owed = 0 /\ late = 0

RegimeNext == Observe \/ Unreadable \/ RegimeTime \/ Sweep \/ CalmDown

\* Time passes, and a wait that timed out is followed by a recompute.
RegimeFair == WF_regimeVars(RegimeTime) /\ WF_regimeVars(wake = 0 /\ Observe)

RegimeSpec == RegimeInit /\ [][RegimeNext]_regimeVars /\ RegimeFair

-------------------------------------------------------------------------------
(* Properties *)

Pulled == regime \in {"EVENT", "HALTED"}

\* The cool-off of a sweep or jump that was decided upon is served in full: neither a
\* halt in between nor the shorter pauses of the midpoint guard bring quotes back.
\* And "re-enter promptly, not up to a minute late" (_quoter): once the horizon is
\* over, quotes pulled for an event are asked for again within one unit.
CooloffServed ==
  /\ owed > 0 => Pulled
  /\ late <= 1

\* Pulled quotes return once the market is calm: no horizon renews itself for ever.
EventEnds == calm ~> [](regime # "EVENT")

RegimeTypeOK ==
  /\ pause \in 0 .. Pause /\ event \in 0 .. Max({Cooloff, Pause, Confirm})
  /\ steady \in {Unsteady} \union 0 .. Confirm
  /\ {trending, sweep, calm} \subseteq BOOLEAN
  /\ regime \in {"QUIET", "TRENDING", "EVENT", "REDUCE_ONLY", "HALTED"}
  /\ wake \in 0 .. Max({1, BaseTick, HeldTick}) /\ owed \in 0 .. Cooloff /\ late \in {NotLate} \union Nat
===============================================================================
