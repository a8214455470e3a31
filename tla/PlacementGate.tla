----------------------------- MODULE PlacementGate -----------------------------
(***************************************************************************)
(* How orders reach the exchange and are taken off it again, by tasks that *)
(* interleave at every await.                                              *)
(*                                                                         *)
(*   engine.py         _recompute (one quoter per market), _quarantine,    *)
(*                     _cancel_assets, _placement_allowed, the authorita-  *)
(*                     tive reconciliation, _heartbeat_loop, the metadata  *)
(*                     halt                                                *)
(*   state/store.py    replace_open_orders, clear_orders                   *)
(*   state/tracker.py  on_order                                            *)
(*                                                                         *)
(* A market is one token with one target quote at most.  Each call to the  *)
(* gateway is one step at the exchange and one at the answer where what    *)
(* happens between them matters.  _placement_epoch is only ever compared   *)
(* for equality with a copy taken earlier, so the model keeps the set of   *)
(* tasks whose copy is still equal ("current") in place of the counter.    *)
(*                                                                         *)
(* What the reconciliation proves about trades and positions before it     *)
(* reads the open orders is here one step that may refuse.                 *)
(***************************************************************************)
EXTENDS Integers, FiniteSets

CONSTANTS
  Markets,
  Orders,       \* pool of order ids; an id is used again once nobody knows it
  Free,         \* the holder of a free lock
  Haltable,     \* markets the metadata refresh may find closed
  Busy,         \* markets that may have an in-flight fill when a snapshot is published
  SnapshotLags, \* an open-orders answer may lack a just placed order
  MaxBeats,     \* bound: the heartbeat goes down at most so often
  MaxFaults     \* bound: failed calls, lost answers and refused snapshots

ASSUME GateAssumption ==
  /\ Haltable \subseteq Markets /\ Busy \subseteq Markets
  /\ SnapshotLags \in BOOLEAN /\ MaxBeats \in Nat /\ MaxFaults \in Nat
  /\ Free \notin Markets \union {"recon"} /\ "recon" \notin Markets

VARIABLES
  exch,        \* exchange: market -> our live orders
  local,       \* StateStore.orders: market -> orders
  young,       \* orders created less than grace_s ago
  unknown,     \* _state_unknown
  quarantined, \* _state_unknown_quarantined
  killed,      \* risk.global_halt()
  halted,      \* _halted
  current,     \* tasks whose copy of _placement_epoch is the current one
  marketLock, reservationLock, placementLock,
  quoter,      \* market -> its _recompute task
  recon,       \* the reconcile loop
  beat,        \* the heartbeat loop
  faults, beats

ordersVars == <<exch, local, young>>
gateVars == <<unknown, quarantined, killed, halted, current>>
lockVars == <<marketLock, reservationLock, placementLock>>
boundVars == <<faults, beats>>
vars == <<ordersVars, gateVars, lockVars, quoter, recon, beat, boundVars>>

Procs == Markets \union {"recon"}
Idle == [pc |-> "idle", cancel |-> {}, place |-> FALSE, answer |-> {}]
NoOrders == [m \in Markets |-> {}]
ReconIdle == [pc |-> "idle", snap |-> NoOrders, todo |-> {}, ok |-> TRUE]
BeatOk == [pc |-> "ok", todo |-> {}, at |-> {}, snap |-> {}]

Used == UNION ({exch[m] : m \in Markets} \union {local[m] : m \in Markets}
               \union {quoter[m].cancel : m \in Markets}
               \union {quoter[m].answer : m \in Markets}
               \union {recon.snap[m] : m \in Markets} \union {beat.snap})

\* Everything that can fail or be refused from outside costs one unit of the bound.
Fault == faults < MaxFaults /\ faults' = faults + 1 /\ UNCHANGED beats

-------------------------------------------------------------------------------
(* Shared pieces *)

\* _placement_allowed, asked by the quoter of m with the epoch it copied.
PlacementAllowed(m) ==
  m \in current /\ ~unknown /\ m \notin halted /\ ~killed

BlindToKill(m) == unknown \/ m \in halted \/ beat.pc = "down"   \* mutant

\* Recompute's blind and risk halts: the target has no quote.
Blind(m) == unknown \/ m \in halted \/ killed \/ beat.pc = "down"

\* What open_orders may answer for m.
Answers(m) ==
  {exch[m]} \union IF SnapshotLags THEN {exch[m] \ young} ELSE {}

ReplaceWithoutGrace(m, seen) == seen   \* mutant

\* replace_open_orders with the default grace_s: an order too young to be in the
\* answer survives.  With grace_s=0 the answer alone counts.
Replace(m, seen) == seen \union (local[m] \cap young)

LeaveWithReservation(m) ==   \* mutant: an early return keeps the lock
  /\ quoter' = [quoter EXCEPT ![m] = Idle]
  /\ marketLock' = [marketLock EXCEPT ![m] = Free]
  /\ UNCHANGED reservationLock

Leave(m) ==
  /\ quoter' = [quoter EXCEPT ![m] = Idle]
  /\ marketLock' = [marketLock EXCEPT ![m] = Free]
  /\ reservationLock' = IF reservationLock = m THEN Free ELSE reservationLock

Goto(m, step) == quoter' = [quoter EXCEPT ![m].pc = step]

-------------------------------------------------------------------------------
(* Engine._recompute *)

\* The market lock is taken, the epoch copied, the target chosen.
Recompute(m) ==
  /\ quoter[m].pc = "idle"
  /\ marketLock[m] = Free
  /\ marketLock' = [marketLock EXCEPT ![m] = m]
  /\ current' = current \union {m}
  /\ \E want \in BOOLEAN :
       /\ Blind(m) => ~want
       /\ quoter' = [quoter EXCEPT ![m] = [Idle EXCEPT !.pc = "reserve", !.place = want]]
  /\ UNCHANGED <<ordersVars, unknown, quarantined, killed, halted, reservationLock,
                 placementLock, recon, beat, boundVars>>

\* To the placement lock, or away: nothing to place, not allowed, or load shed.
TowardsPlacement(m, place) ==
  \/ /\ place /\ PlacementAllowed(m)
     /\ quoter' = [quoter EXCEPT ![m] = [Idle EXCEPT !.pc = "gate", !.place = TRUE]]
     /\ UNCHANGED marketLock
     /\ reservationLock' = m
  \/ Leave(m)

\* The reservation lock is taken and the target reconciled with the live view.
Plan(m) ==
  /\ quoter[m].pc = "reserve"
  /\ reservationLock = Free
  /\ \E keep \in SUBSET local[m] :
       /\ Cardinality(keep) <= IF quoter[m].place THEN 1 ELSE 0
       /\ LET place == quoter[m].place /\ keep = {}
          IN  IF keep = local[m]
              THEN TowardsPlacement(m, place)
              ELSE /\ quoter' = [quoter EXCEPT ![m] = [Idle EXCEPT
                         !.pc = "cancel", !.cancel = local[m] \ keep, !.place = place]]
                   /\ reservationLock' = m
                   /\ UNCHANGED marketLock
  /\ UNCHANGED <<ordersVars, gateVars, placementLock, recon, beat, boundVars>>

CancelOk(m) ==
  /\ quoter[m].pc = "cancel"
  /\ exch' = [exch EXCEPT ![m] = @ \ quoter[m].cancel]
  /\ local' = [local EXCEPT ![m] = @ \ quoter[m].cancel]
  /\ TowardsPlacement(m, quoter[m].place)
  /\ UNCHANGED <<young, gateVars, placementLock, recon, beat, boundVars>>

CancelFailsForgets(m) ==   \* mutant: the local view takes the cancel for done
  /\ quoter[m].pc = "cancel"
  /\ Fault
  /\ \E gone \in SUBSET quoter[m].cancel : exch' = [exch EXCEPT ![m] = @ \ gone]
  /\ local' = [local EXCEPT ![m] = @ \ quoter[m].cancel]
  /\ quoter' = [quoter EXCEPT ![m] = [Idle EXCEPT !.pc = "resync"]]
  /\ UNCHANGED <<young, gateVars, lockVars, recon, beat>>

\* The cancel may have worked in part; the local view stays until it is read again.
CancelFails(m) ==
  /\ quoter[m].pc = "cancel"
  /\ Fault
  /\ \E gone \in SUBSET quoter[m].cancel : exch' = [exch EXCEPT ![m] = @ \ gone]
  /\ quoter' = [quoter EXCEPT ![m] = [Idle EXCEPT !.pc = "resync"]]
  /\ UNCHANGED <<local, young, gateVars, lockVars, recon, beat>>

\* _refresh_token_orders: after a failed cancel ("resync", with the grace) and at
\* the end of a quarantine ("refresh", without).
ReadOrders(m) ==
  /\ quoter[m].pc \in {"resync", "refresh"}
  /\ \E seen \in Answers(m) :
       quoter' = [quoter EXCEPT ![m].answer = seen, ![m].pc =
                    IF @ = "resync" THEN "resyncApply" ELSE "refreshApply"]
  /\ UNCHANGED <<ordersVars, gateVars, lockVars, recon, beat, boundVars>>

ReadOrdersFails(m) ==
  /\ quoter[m].pc \in {"resync", "refresh"}
  /\ Fault
  /\ unknown' = TRUE
  /\ Leave(m)
  /\ UNCHANGED <<ordersVars, quarantined, killed, halted, current, placementLock, recon, beat>>

ApplyOrders(m) ==
  /\ quoter[m].pc \in {"resyncApply", "refreshApply"}
  /\ local' = [local EXCEPT ![m] =
       IF quoter[m].pc = "resyncApply" THEN Replace(m, quoter[m].answer) ELSE quoter[m].answer]
  /\ Leave(m)
  /\ UNCHANGED <<exch, young, gateVars, placementLock, recon, beat, boundVars>>

Gate(m) ==
  /\ quoter[m].pc = "gate"
  /\ placementLock = Free
  /\ IF PlacementAllowed(m)
     THEN /\ Goto(m, "submit")
          /\ placementLock' = m
          /\ UNCHANGED <<marketLock, reservationLock>>
     ELSE /\ Leave(m)
          /\ UNCHANGED placementLock
  /\ UNCHANGED <<ordersVars, gateVars, recon, beat, boundVars>>

EnterQuarantineLocked(m) ==   \* mutant: called with the placement lock still held
  /\ unknown' = TRUE
  /\ current' = {}
  /\ quoter' = [quoter EXCEPT ![m] = [Idle EXCEPT !.pc = "quarantine"]]
  /\ UNCHANGED <<quarantined, killed, halted, lockVars>>

\* _quarantine, up to the wait for the placement lock; the caller held that lock.
EnterQuarantine(m) ==
  /\ unknown' = TRUE
  /\ current' = {}
  /\ quoter' = [quoter EXCEPT ![m] = [Idle EXCEPT !.pc = "quarantine"]]
  /\ placementLock' = Free
  /\ UNCHANGED <<quarantined, killed, halted, marketLock, reservationLock>>

\* gateway.place after its rate budget: can_place is asked once more.
Submit(m) ==
  /\ quoter[m].pc = "submit"
  /\ IF PlacementAllowed(m)
     THEN Goto(m, "posting") /\ UNCHANGED <<gateVars, lockVars>>
     ELSE EnterQuarantine(m)
  /\ UNCHANGED <<ordersVars, recon, beat, boundVars>>

\* The exchange takes the order, or refuses it.
Post(m) ==
  /\ quoter[m].pc = "posting"
  /\ \/ \E o \in Orders \ Used :
          /\ exch' = [exch EXCEPT ![m] = @ \union {o}]
          /\ young' = young \union {o}
          /\ quoter' = [quoter EXCEPT ![m].pc = "response", ![m].answer = {o}]
     \/ Goto(m, "response") /\ UNCHANGED <<exch, young>>
  /\ UNCHANGED <<local, gateVars, lockVars, recon, beat, boundVars>>

\* The answer names the order, or does not: refused, or lost on the way.
Response(m) ==
  /\ quoter[m].pc = "response"
  /\ \E got \in {quoter[m].answer, {}} :
       /\ IF got = quoter[m].answer THEN UNCHANGED boundVars ELSE Fault
       /\ local' = [local EXCEPT ![m] = @ \union got]
       /\ IF PlacementAllowed(m) /\ got # {}
          THEN /\ Leave(m)
               /\ placementLock' = Free
               /\ UNCHANGED gateVars
          ELSE EnterQuarantine(m)
  /\ UNCHANGED <<exch, young, recon, beat>>

\* _cancel_assets for one market.
QuarantineLock(m) ==
  /\ quoter[m].pc = "quarantine"
  /\ placementLock = Free
  /\ placementLock' = m
  /\ Goto(m, "cancelling")
  /\ UNCHANGED <<ordersVars, gateVars, marketLock, reservationLock, recon, beat, boundVars>>

QuarantineCancels(m) ==
  /\ quoter[m].pc = "cancelling"
  /\ exch' = [exch EXCEPT ![m] = {}]
  /\ local' = [local EXCEPT ![m] = {}]
  /\ placementLock' = Free
  /\ Goto(m, "refresh")
  /\ UNCHANGED <<young, gateVars, marketLock, reservationLock, recon, beat, boundVars>>

QuarantineFails(m) ==
  /\ quoter[m].pc = "cancelling"
  /\ Fault
  /\ exch' \in {exch, [exch EXCEPT ![m] = {}]}
  /\ unknown' = TRUE
  /\ placementLock' = Free
  /\ Leave(m)
  /\ UNCHANGED <<local, young, quarantined, killed, halted, current, recon, beat>>

-------------------------------------------------------------------------------
(* The reconcile loop: _reconcile_authoritative_state and its failure path *)

ReconBegin ==
  /\ recon.pc = "idle"
  /\ recon' = [recon EXCEPT !.pc = "read"]
  /\ current' = current \union {"recon"}
  /\ UNCHANGED <<ordersVars, unknown, quarantined, killed, halted, lockVars, quoter, beat,
                 boundVars>>

ReconRead ==
  /\ recon.pc = "read"
  /\ \E seen \in [Markets -> SUBSET Orders] :
       /\ \A m \in Markets : seen[m] \in Answers(m)
       /\ recon' = [recon EXCEPT !.pc = "locks", !.snap = seen]
  /\ UNCHANGED <<ordersVars, gateVars, lockVars, quoter, beat, boundVars>>

ReconLock(m) ==
  /\ recon.pc = "locks"
  /\ marketLock[m] = Free
  /\ marketLock' = [marketLock EXCEPT ![m] = "recon"]
  /\ UNCHANGED <<ordersVars, gateVars, reservationLock, placementLock, quoter, recon, beat,
                 boundVars>>

ReconUnlock ==
  marketLock' = [m \in Markets |-> IF marketLock[m] = "recon" THEN Free ELSE marketLock[m]]

\* _quarantine_unknown_state: one cancellation per episode, unless it failed.
ReconRaise ==
  /\ unknown' = TRUE
  /\ IF quarantined
     THEN recon' = ReconIdle /\ UNCHANGED current
     ELSE recon' = [ReconIdle EXCEPT !.pc = "cancelLock"] /\ current' = {}
  /\ UNCHANGED <<quarantined, killed, halted>>

\* A read raises, or what was read is refused.
ReconRefuses ==
  /\ recon.pc \in {"read", "locks"}
  /\ Fault
  /\ ReconRaise
  /\ ReconUnlock
  /\ UNCHANGED <<ordersVars, reservationLock, placementLock, quoter, beat>>

KnownAgain == unknown' = FALSE /\ quarantined' = FALSE

\* All locks held: if the epoch did not move, the snapshot is published.
ReconPublish ==
  /\ recon.pc = "locks"
  /\ \A m \in Markets : marketLock[m] = "recon"
  /\ placementLock = Free
  /\ ReconUnlock
  /\ IF "recon" \in current
     THEN /\ \E busy \in SUBSET Busy :
               local' = [m \in Markets |->
                           IF m \in busy THEN local[m] ELSE Replace(m, recon.snap[m])]
          /\ KnownAgain
          /\ recon' = [ReconIdle EXCEPT !.pc = "check"]
          /\ UNCHANGED <<killed, halted, current>>
     ELSE ReconRaise /\ UNCHANGED local
  /\ UNCHANGED <<exch, young, reservationLock, placementLock, quoter, beat, boundVars>>

\* _check_position_divergence after a published cycle: nothing, or a divergence
\* that opens a new unknown-state episode.
ReconChecks ==
  /\ recon.pc = "check"
  /\ recon' = ReconIdle
  /\ UNCHANGED <<ordersVars, gateVars, lockVars, quoter, beat, boundVars>>

ReconDiverges ==
  /\ recon.pc = "check"
  /\ Fault
  /\ current' = {}
  /\ unknown' = TRUE
  /\ recon' = [ReconIdle EXCEPT !.pc = "cancelLock"]
  /\ UNCHANGED <<ordersVars, quarantined, killed, halted, lockVars, quoter, beat>>

ReconCancelAtOnce ==   \* mutant: cancels beside a placement under way
  /\ recon.pc = "cancelLock"
  /\ placementLock' = "recon"
  /\ recon' = [recon EXCEPT !.pc = "cancelling", !.todo = Markets]
  /\ UNCHANGED <<ordersVars, gateVars, marketLock, reservationLock, quoter, beat, boundVars>>

\* _cancel_assets for every managed market.
ReconCancelLock ==
  /\ recon.pc = "cancelLock"
  /\ placementLock = Free
  /\ placementLock' = "recon"
  /\ recon' = [recon EXCEPT !.pc = "cancelling", !.todo = Markets]
  /\ UNCHANGED <<ordersVars, gateVars, marketLock, reservationLock, quoter, beat, boundVars>>

ReconCancels(m) ==
  /\ recon.pc = "cancelling"
  /\ m \in recon.todo
  /\ exch' = [exch EXCEPT ![m] = {}]
  /\ local' = [local EXCEPT ![m] = {}]
  /\ recon' = [recon EXCEPT !.todo = @ \ {m}]
  /\ UNCHANGED <<young, gateVars, lockVars, quoter, beat, boundVars>>

ReconCancelFails(m) ==
  /\ recon.pc = "cancelling"
  /\ m \in recon.todo
  /\ Fault
  /\ exch' \in {exch, [exch EXCEPT ![m] = {}]}
  /\ recon' = [recon EXCEPT !.todo = @ \ {m}, !.ok = FALSE]
  /\ UNCHANGED <<local, young, gateVars, lockVars, quoter, beat>>

ReconCancelled ==
  /\ recon.pc = "cancelling"
  /\ recon.todo = {}
  /\ unknown' = (unknown \/ ~recon.ok)
  /\ quarantined' = recon.ok
  /\ placementLock' = Free
  /\ recon' = ReconIdle
  /\ UNCHANGED <<ordersVars, killed, halted, current, marketLock, reservationLock, quoter,
                 beat, boundVars>>

-------------------------------------------------------------------------------
(* Engine._heartbeat_loop *)

BeatDown ==
  /\ beat.pc = "ok"
  /\ beats < MaxBeats
  /\ beats' = beats + 1
  /\ beat' = [beat EXCEPT !.pc = "down"]
  /\ UNCHANGED <<ordersVars, gateVars, lockVars, quoter, recon, faults>>

\* The exchange cancels everything of ours (external).
BeatWipe ==
  /\ beat.pc = "down"
  /\ exch' = NoOrders
  /\ UNCHANGED <<local, young, gateVars, lockVars, quoter, recon, beat, boundVars>>

\* A beat succeeds again: clear_orders, then one resync per market.
BeatRecovers ==
  /\ beat.pc = "down"
  /\ local' = NoOrders
  /\ beat' = [BeatOk EXCEPT !.pc = "resync", !.todo = Markets]
  /\ UNCHANGED <<exch, young, gateVars, lockVars, quoter, recon, boundVars>>

BeatNext(m) ==
  LET rest == beat.todo \ {m}
  IN  beat' = IF rest = {} THEN BeatOk ELSE [BeatOk EXCEPT !.pc = "resync", !.todo = rest]

BeatRead(m) ==
  /\ beat.pc = "resync"
  /\ m \in beat.todo
  /\ \E seen \in Answers(m) :
       beat' = [beat EXCEPT !.pc = "apply", !.at = {m}, !.snap = seen]
  /\ UNCHANGED <<ordersVars, gateVars, lockVars, quoter, recon, boundVars>>

BeatReadFails(m) ==
  /\ beat.pc = "resync"
  /\ m \in beat.todo
  /\ Fault
  /\ unknown' = TRUE
  /\ BeatNext(m)
  /\ UNCHANGED <<ordersVars, quarantined, killed, halted, current, lockVars, quoter, recon>>

BeatApply(m) ==
  /\ beat.pc = "apply"
  /\ beat.at = {m}
  /\ local' = [local EXCEPT ![m] = beat.snap]
  /\ BeatNext(m)
  /\ UNCHANGED <<exch, young, gateVars, lockVars, quoter, recon, boundVars>>

-------------------------------------------------------------------------------
(* Order events, halts, time *)

\* An order leaves the exchange: filled, cancelled by hand, by the metadata halt,
\* or by a cancellation that outlived its timeout (external).
Gone(m, o) ==
  /\ o \in exch[m]
  /\ exch' = [exch EXCEPT ![m] = @ \ {o}]
  /\ UNCHANGED <<local, young, gateVars, lockVars, quoter, recon, beat, boundVars>>

\* on_order with size remaining: about a live order, or late, about one long gone.
OrderLive(m, o) ==
  /\ o \notin local[m]
  /\ o \in exch[m] \/ o \notin Used
  /\ local' = [local EXCEPT ![m] = @ \union {o}]
  /\ young' = young \union {o}
  /\ UNCHANGED <<exch, gateVars, lockVars, quoter, recon, beat, boundVars>>

\* on_order for a cancelled or fully matched order.
OrderGone(m, o) ==
  /\ o \in local[m] \ exch[m]
  /\ local' = [local EXCEPT ![m] = @ \ {o}]
  /\ UNCHANGED <<exch, young, gateVars, lockVars, quoter, recon, beat, boundVars>>

\* grace_s passes.  A snapshot is assumed to be applied within grace_s of its read.
Age(o) ==
  /\ o \in young
  /\ \A m \in Markets :
       o \in exch[m] \union local[m] =>
         /\ recon.pc = "locks" => o \in recon.snap[m]
         /\ quoter[m].pc = "resyncApply" => o \in quoter[m].answer
  /\ young' = young \ {o}
  /\ UNCHANGED <<exch, local, gateVars, lockVars, quoter, recon, beat, boundVars>>

\* risk.global_halt: a kill, the daily loss or the error rate; and its end.
GlobalHalt ==
  /\ killed' = ~killed
  /\ UNCHANGED <<ordersVars, unknown, quarantined, halted, current, lockVars, quoter, recon,
                 beat, boundVars>>

\* refresh_market_metadata finds the market closed: it is halted.  Its orders are
\* then cancelled without a lock, whatever the outcome, and stay in the local view;
\* what the exchange makes of that is one of the ways of Gone.
MetaHalt(m) ==
  /\ m \in Haltable \ halted
  /\ halted' = halted \union {m}
  /\ UNCHANGED <<ordersVars, unknown, quarantined, killed, current, lockVars, quoter, recon,
                 beat, boundVars>>

MetaResume(m) ==
  /\ m \in halted
  /\ halted' = halted \ {m}
  /\ UNCHANGED <<ordersVars, unknown, quarantined, killed, current, lockVars, quoter, recon,
                 beat, boundVars>>

-------------------------------------------------------------------------------
\* After a startup reconciliation that found no order of ours.
Init ==
  /\ exch = NoOrders /\ local = NoOrders /\ young = {}
  /\ unknown = FALSE /\ quarantined = FALSE /\ killed = FALSE /\ halted = {}
  /\ current = {}
  /\ marketLock = [m \in Markets |-> Free]
  /\ reservationLock = Free /\ placementLock = Free
  /\ quoter = [m \in Markets |-> Idle]
  /\ recon = ReconIdle
  /\ beat = BeatOk
  /\ faults = 0 /\ beats = 0

Quoter(m) ==
  \/ Recompute(m) \/ Plan(m) \/ CancelOk(m) \/ CancelFails(m)
  \/ ReadOrders(m) \/ ReadOrdersFails(m) \/ ApplyOrders(m)
  \/ Gate(m) \/ Submit(m) \/ Post(m) \/ Response(m)
  \/ QuarantineLock(m) \/ QuarantineCancels(m) \/ QuarantineFails(m)

Recon ==
  \/ ReconBegin \/ ReconRead \/ ReconRefuses \/ ReconPublish \/ ReconChecks \/ ReconDiverges
  \/ ReconCancelLock \/ ReconCancelled
  \/ \E m \in Markets : ReconLock(m) \/ ReconCancels(m) \/ ReconCancelFails(m)

Beat ==
  \/ BeatDown \/ BeatRecovers
  \/ \E m \in Markets : BeatRead(m) \/ BeatReadFails(m) \/ BeatApply(m)

Environment ==
  \/ BeatWipe \/ GlobalHalt
  \/ \E m \in Markets : MetaHalt(m) \/ MetaResume(m)
  \/ \E o \in Orders : Age(o)
  \/ \E m \in Markets, o \in Orders : Gone(m, o) \/ OrderLive(m, o) \/ OrderGone(m, o)

Next == (\E m \in Markets : Quoter(m)) \/ Recon \/ Beat \/ Environment

Spec == Init /\ [][Next]_vars

\* The tasks are never starved: an asyncio lock is handed over in the order of its
\* waiters, and every call to the exchange returns or times out.  Nothing is
\* assumed of order events, kills and halts, nor that the heartbeat ever fails.
FairSpec ==
  /\ Spec
  /\ \A m \in Markets : SF_vars(Quoter(m))
  /\ SF_vars(Recon)
  /\ WF_vars(Beat /\ UNCHANGED beats)

-------------------------------------------------------------------------------
(* Properties *)

InPlacement == {"submit", "posting", "response", "cancelling"}

\* Every variable has its type, and no task keeps a lock on any way out: a held
\* lock is held by a task that is inside the section it guards.
TypeOK ==
  /\ exch \in [Markets -> SUBSET Orders]
  /\ local \in [Markets -> SUBSET Orders]
  /\ young \subseteq Orders
  /\ unknown \in BOOLEAN /\ quarantined \in BOOLEAN /\ killed \in BOOLEAN
  /\ halted \subseteq Haltable
  /\ current \subseteq Procs
  /\ \A m \in Markets :
       /\ marketLock[m] \in {Free, m, "recon"}
       /\ marketLock[m] = m <=> quoter[m].pc # "idle"
       /\ marketLock[m] = "recon" => recon.pc = "locks"
       /\ reservationLock = m <=> quoter[m].pc \notin {"idle", "reserve"}
       /\ placementLock = m <=> quoter[m].pc \in InPlacement
  /\ reservationLock \in Markets \union {Free}
  /\ placementLock \in Procs \union {Free}
  /\ placementLock = "recon" <=> recon.pc = "cancelling"
  /\ faults \in 0 .. MaxFaults /\ beats \in 0 .. MaxBeats

\* Once _state_unknown_quarantined is set nothing of ours is at the exchange, and
\* nothing gets there until a snapshot is published: a placement already under
\* way when the quarantine began cannot slip past the cancellation.
QuarantineEmpties ==
  quarantined => unknown /\ \A m \in Markets : exch[m] = {}

\* The DOUBLE-ORDER GUARD of replace_open_orders: one target, one live order.
NoDoubleOrder == \A m \in Markets : Cardinality(exch[m]) <= 1

\* "Never risk an untracked order" (_recompute): while placing is allowed, every
\* live order is in the local view, but for the one whose answer is awaited.
UntrackedMeansUnknown ==
  \A m \in Markets : exch[m] \subseteq local[m] \/ unknown \/ quoter[m].pc = "response"

\* A market that stays killed or halted ends up without live orders, whatever
\* placement, cancellation or quarantine was under way.  The book is taken to be one
\* that can be priced: a recompute that finds another returns before it asks.
HaltDrains ==
  \A m \in Markets :
    <>[](killed \/ m \in halted) => <>[](exch[m] = {})

\* An unknown-state episode ends: no lock is waited for in a circle, no stale
\* epoch refuses every snapshot, no failed cancellation is left alone.
Recovers == unknown ~> ~unknown
===============================================================================
