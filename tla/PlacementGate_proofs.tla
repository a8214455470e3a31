-------------------------- MODULE PlacementGate_proofs --------------------------
(***************************************************************************)
(* The safety of PlacementGate, for any markets, orders and failures.      *)
(*                                                                         *)
(* TypeOK: every step of a task is a turn (Turn): it moves its own locks   *)
(* only, and leaves them as its program counter says.                      *)
(*                                                                         *)
(* QuarantineEmpties: once the quarantine is declared no order reaches the *)
(* exchange, because no task is posting (Quiescent) and none starts while  *)
(* the state is unknown.  That holds when it is declared because the       *)
(* cancellation was made under the placement lock, under which every       *)
(* market it has left behind is and stays empty (Emptied).                 *)
(*                                                                         *)
(* UntrackedMeansUnknown and NoDoubleOrder: an answer still to be applied  *)
(* names everything that lives (Answered); so does a snapshot, but for     *)
(* orders young enough to survive it (Covered); and a task on its way to   *)
(* the exchange has cleared its market (Clearing).                         *)
(***************************************************************************)
EXTENDS PlacementGate, FiniteSetTheorems, TLAPS

-------------------------------------------------------------------------------
(* Types and locks *)

Steps == {"idle", "reserve", "cancel", "resync", "resyncApply", "refresh", "refreshApply",
          "gate", "submit", "posting", "response", "quarantine", "cancelling"}
Task == [pc : Steps, cancel : SUBSET Orders, place : BOOLEAN, answer : SUBSET Orders]
ReconTask == [pc : {"idle", "read", "locks", "check", "cancelLock", "cancelling"},
              snap : [Markets -> SUBSET Orders], todo : SUBSET Markets, ok : BOOLEAN]
BeatTask == [pc : {"ok", "down", "resync", "apply"}, todo : SUBSET Markets,
             at : SUBSET Markets, snap : SUBSET Orders]

OrdersTyped ==
  exch \in [Markets -> SUBSET Orders] /\ local \in [Markets -> SUBSET Orders] /\ young \subseteq Orders

FlagsTyped ==
  /\ unknown \in BOOLEAN /\ quarantined \in BOOLEAN /\ killed \in BOOLEAN
  /\ halted \subseteq Haltable /\ current \subseteq Procs
  /\ faults \in 0 .. MaxFaults /\ beats \in 0 .. MaxBeats

TasksTyped == quoter \in [Markets -> Task] /\ recon \in ReconTask /\ beat \in BeatTask

\* The rows of TypeOK about the locks of one market's task, and of the reconcile loop.
Holds(m) ==
  /\ marketLock[m] = m <=> quoter[m].pc # "idle"
  /\ reservationLock = m <=> quoter[m].pc \notin {"idle", "reserve"}
  /\ placementLock = m <=> quoter[m].pc \in InPlacement

Locked ==
  /\ marketLock \in [Markets -> Procs \union {Free}]
  /\ reservationLock \in Markets \union {Free} /\ placementLock \in Procs \union {Free}
  /\ \A m \in Markets :
       /\ marketLock[m] \in {Free, m, "recon"}
       /\ marketLock[m] = "recon" => recon.pc = "locks"
       /\ Holds(m)
  /\ placementLock = "recon" <=> recon.pc = "cancelling"

TInv == OrdersTyped /\ FlagsTyped /\ TasksTyped /\ Locked

\* Giving a task a new record changes no other.
LEMMA NewTask ==
  ASSUME TasksTyped, NEW m \in Markets, NEW r \in Task, quoter' = [quoter EXCEPT ![m] = r]
  PROVE  /\ quoter' \in [Markets -> Task] /\ quoter'[m] = r
         /\ \A n \in Markets \ {m} : quoter'[n] = quoter[n]
  BY DEF TasksTyped

\* The records a task is given are tasks.
LEMMA IdleTask ==
  /\ Idle \in Task /\ Idle.pc = "idle"
  /\ \A want \in BOOLEAN : [Idle EXCEPT !.pc = "reserve", !.place = want] \in Task
  /\ [Idle EXCEPT !.pc = "gate", !.place = TRUE] \in Task
  /\ [Idle EXCEPT !.pc = "resync"] \in Task
  /\ [Idle EXCEPT !.pc = "quarantine"] \in Task
  /\ \A gone \in SUBSET Orders, place \in BOOLEAN :
       [Idle EXCEPT !.pc = "cancel", !.cancel = gone, !.place = place] \in Task
  BY DEF Idle, Task, Steps

\* A step of one market's task: nobody else's locks move, its own are as its program
\* counter says, and it gets to posting only while the state is known.
Turn(m) ==
  /\ quoter'[m].pc = "posting" => ~unknown
  /\ quoter' \in [Markets -> Task] /\ \A n \in Markets \ {m} : quoter'[n] = quoter[n]
  /\ recon' = recon
  /\ marketLock' = [marketLock EXCEPT ![m] = marketLock'[m]]
  /\ marketLock'[m] = IF quoter'[m].pc = "idle" THEN Free ELSE m
  /\ \/ reservationLock' = reservationLock
     \/ {reservationLock, reservationLock'} \subseteq {Free, m}
  /\ \/ placementLock' = placementLock
     \/ {placementLock, placementLock'} \subseteq {Free, m}
  /\ Holds(m)'

\* A turn keeps every lock with the task that is inside its section.
LEMMA TurnKeeps ==
  ASSUME Locked, NEW m \in Markets, Turn(m)
  PROVE  Locked'
<1>1. Free \notin Markets /\ Free # "recon" /\ "recon" \notin Markets
  BY GateAssumption
<1>2. marketLock' \in [Markets -> Procs \union {Free}]
  BY DEF Locked, Turn, Procs
<1>3. \A n \in Markets \ {m} : marketLock'[n] = marketLock[n]
  BY DEF Locked, Turn
<1>4. ASSUME NEW n \in Markets \ {m} PROVE Holds(n)'
  BY <1>1, <1>3 DEF Locked, Turn, Holds
<1> QED  BY <1>1, <1>2, <1>3, <1>4 DEF Locked, Turn, Procs

\* No two holders of a lock are confused.
LEMMA Names == Free \notin Markets /\ Free # "recon" /\ "recon" \notin Markets
  BY GateAssumption

\* A task leaves.
LEMMA LeaveTurns ==
  ASSUME TInv, NEW m \in Markets, Leave(m), recon' = recon,
         \/ placementLock' = placementLock /\ quoter[m].pc \notin InPlacement
         \/ placementLock' = Free /\ quoter[m].pc \in InPlacement
  PROVE  Turn(m) /\ quoter'[m] = Idle
<1>1. /\ quoter' \in [Markets -> Task] /\ quoter'[m] = Idle
      /\ \A n \in Markets \ {m} : quoter'[n] = quoter[n]
  BY IdleTask, NewTask DEF TInv, Leave
<1>2. quoter'[m].pc = "idle"
  BY <1>1, IdleTask
<1>3. m # Free /\ marketLock'[m] = Free /\ reservationLock' # m /\ placementLock' # m
  BY Names DEF TInv, Locked, Holds, Leave
<1>4. Holds(m)'
  BY <1>2, <1>3 DEF Holds, InPlacement
<1> QED  BY <1>1, <1>2, <1>3, <1>4, Names DEF TInv, Locked, Leave, Turn, Holds

\* On to the placement lock, or away.
LEMMA TowardsTurns ==
  ASSUME TInv, NEW m \in Markets, NEW place, TowardsPlacement(m, place), recon' = recon,
         placementLock' = placementLock,
         \/ quoter[m].pc = "reserve" /\ reservationLock = Free
         \/ quoter[m].pc = "cancel"
  PROVE  Turn(m) /\ quoter'[m].pc \in {"idle", "gate"}
<1>1. quoter[m].pc \notin InPlacement
  BY DEF InPlacement
<1>2. CASE Leave(m)
  BY <1>1, <1>2, LeaveTurns, IdleTask
<1>3. CASE /\ quoter' = [quoter EXCEPT ![m] = [Idle EXCEPT !.pc = "gate", !.place = TRUE]]
           /\ UNCHANGED marketLock /\ reservationLock' = m
  <2> DEFINE next == [Idle EXCEPT !.pc = "gate", !.place = TRUE]
  <2>1. next \in Task /\ next.pc = "gate"
    BY IdleTask DEF Task
  <2> HIDE DEF next
  <2>2. /\ quoter' \in [Markets -> Task] /\ quoter'[m] = next
        /\ \A n \in Markets \ {m} : quoter'[n] = quoter[n]
    BY <1>3, <2>1, NewTask DEF TInv, next
  <2> QED  BY <1>1, <1>3, <2>1, <2>2, Names DEF TInv, Locked, Turn, Holds, InPlacement
<1> QED  BY <1>2, <1>3 DEF TowardsPlacement

\* Into a quarantine, the placement lock given back.
LEMMA QuarantineTurns ==
  ASSUME TInv, NEW m \in Markets, EnterQuarantine(m), recon' = recon,
         quoter[m].pc \in InPlacement
  PROVE  Turn(m) /\ quoter'[m].pc = "quarantine"
<1> DEFINE next == [Idle EXCEPT !.pc = "quarantine"]
<1>1. next \in Task /\ next.pc = "quarantine"
  BY IdleTask DEF Task
<1> HIDE DEF next
<1>2. /\ quoter' \in [Markets -> Task] /\ quoter'[m] = next
      /\ \A n \in Markets \ {m} : quoter'[n] = quoter[n]
  BY <1>1, NewTask DEF TInv, EnterQuarantine, next
<1> QED  BY <1>1, <1>2, Names DEF TInv, Locked, EnterQuarantine, Turn, Holds, InPlacement

\* A task that only moves on, and takes or leaves the placement lock as it does.
LEMMA GotoTurns ==
  ASSUME TInv, NEW m \in Markets, NEW step \in Steps, Goto(m, step), recon' = recon,
         UNCHANGED <<marketLock, reservationLock>>,
         quoter[m].pc \notin {"idle", "reserve"}, step \notin {"idle", "reserve"},
         step = "posting" => ~unknown,
         \/ placementLock' = placementLock /\ (step \in InPlacement <=> quoter[m].pc \in InPlacement)
         \/ placementLock = Free /\ placementLock' = m /\ step \in InPlacement
         \/ placementLock = m /\ placementLock' = Free /\ step \notin InPlacement
  PROVE  Turn(m) /\ quoter'[m] = [quoter[m] EXCEPT !.pc = step]
<1>1. [quoter[m] EXCEPT !.pc = step] \in Task
  BY DEF TInv, TasksTyped, Task
<1>2. /\ quoter' \in [Markets -> Task] /\ quoter'[m] = [quoter[m] EXCEPT !.pc = step]
      /\ \A n \in Markets \ {m} : quoter'[n] = quoter[n]
  BY <1>1, NewTask DEF TInv, Goto, TasksTyped
<1>3. quoter'[m].pc = step
  BY <1>2 DEF TInv, TasksTyped, Task
<1> QED  BY <1>2, <1>3, Names DEF TInv, Locked, Turn, Holds

\* Every step of a task is a turn: the locks it takes and leaves match its program counter.
LEMMA QuoterTurns ==
  ASSUME TInv, NEW m \in Markets, Quoter(m)
  PROVE  Turn(m)
<1> USE DEF gateVars, lockVars
<1>1. CASE Recompute(m)
  <2>1. PICK want \in BOOLEAN :
          quoter' = [quoter EXCEPT ![m] = [Idle EXCEPT !.pc = "reserve", !.place = want]]
    BY <1>1 DEF Recompute
  <2> DEFINE next == [Idle EXCEPT !.pc = "reserve", !.place = want]
  <2>2. next \in Task /\ next.pc = "reserve"
    BY IdleTask DEF Task
  <2> HIDE DEF next
  <2>3. /\ quoter' \in [Markets -> Task] /\ quoter'[m] = next
        /\ \A n \in Markets \ {m} : quoter'[n] = quoter[n]
    BY <2>1, <2>2, NewTask DEF TInv, next
  <2> QED  BY <1>1, <2>2, <2>3, Names DEF TInv, Locked, Recompute, Turn, Holds, InPlacement
<1>2. CASE Plan(m)
  <2>1. PICK keep \in SUBSET local[m], place \in BOOLEAN :
          \/ TowardsPlacement(m, place)
          \/ /\ quoter' = [quoter EXCEPT ![m] = [Idle EXCEPT
                  !.pc = "cancel", !.cancel = local[m] \ keep, !.place = place]]
             /\ reservationLock' = m
             /\ UNCHANGED marketLock
    BY <1>2, Zenon DEF Plan
  <2>2. /\ quoter[m].pc = "reserve" /\ reservationLock = Free
        /\ placementLock' = placementLock /\ recon' = recon
    BY <1>2 DEF Plan
  <2>3. CASE TowardsPlacement(m, place)
    BY <2>2, <2>3, TowardsTurns
  <2>4. CASE /\ quoter' = [quoter EXCEPT ![m] = [Idle EXCEPT
                  !.pc = "cancel", !.cancel = local[m] \ keep, !.place = place]]
             /\ reservationLock' = m
             /\ UNCHANGED marketLock
    <3> DEFINE next == [Idle EXCEPT !.pc = "cancel", !.cancel = local[m] \ keep, !.place = place]
    <3>1. next \in Task /\ next.pc = "cancel"
      BY IdleTask DEF Task, TInv, OrdersTyped
    <3> HIDE DEF next
    <3>2. /\ quoter' \in [Markets -> Task] /\ quoter'[m] = next
          /\ \A n \in Markets \ {m} : quoter'[n] = quoter[n]
      BY <2>4, <3>1, NewTask DEF TInv, next
    <3> QED  BY <2>2, <2>4, <3>1, <3>2, Names DEF TInv, Locked, Turn, Holds, InPlacement
  <2> QED  BY <2>1, <2>3, <2>4
<1>3. CASE CancelOk(m)
  BY <1>3, TowardsTurns DEF CancelOk
<1>4. CASE CancelFails(m)
  <2> DEFINE next == [Idle EXCEPT !.pc = "resync"]
  <2>1. next \in Task /\ next.pc = "resync"
    BY IdleTask DEF Task
  <2> HIDE DEF next
  <2>2. /\ quoter' \in [Markets -> Task] /\ quoter'[m] = next
        /\ \A n \in Markets \ {m} : quoter'[n] = quoter[n]
    BY <1>4, <2>1, NewTask DEF TInv, CancelFails, next
  <2> QED  BY <1>4, <2>1, <2>2 DEF TInv, Locked, CancelFails, Turn, Holds, InPlacement
<1>5. CASE ReadOrders(m)
  <2>1. PICK seen \in Answers(m) :
          quoter' = [quoter EXCEPT ![m].answer = seen, ![m].pc =
                       IF @ = "resync" THEN "resyncApply" ELSE "refreshApply"]
    BY <1>5 DEF ReadOrders
  <2>2. seen \in SUBSET Orders
    BY DEF TInv, OrdersTyped, Answers
  <2>3. /\ quoter' \in [Markets -> Task] /\ quoter'[m].pc \in {"resyncApply", "refreshApply"}
        /\ \A n \in Markets \ {m} : quoter'[n] = quoter[n]
    BY <2>1, <2>2 DEF TInv, TasksTyped, Task, Steps
  <2> QED  BY <1>5, <2>3 DEF TInv, Locked, ReadOrders, Turn, Holds, InPlacement
<1>6. CASE ReadOrdersFails(m)
  BY <1>6, LeaveTurns DEF ReadOrdersFails, InPlacement
<1>7. CASE ApplyOrders(m)
  BY <1>7, LeaveTurns DEF ApplyOrders, InPlacement
<1>8. CASE Gate(m)
  <2>1. CASE PlacementAllowed(m)
    BY <1>8, <2>1, GotoTurns DEF Gate, InPlacement, Steps
  <2>2. CASE ~PlacementAllowed(m)
    BY <1>8, <2>2, LeaveTurns DEF Gate, InPlacement
  <2> QED  BY <2>1, <2>2
<1>9. CASE Submit(m)
  <2>1. CASE PlacementAllowed(m)
    BY <1>9, <2>1, GotoTurns DEF Submit, PlacementAllowed, InPlacement, Steps
  <2>2. CASE ~PlacementAllowed(m)
    BY <1>9, <2>2, QuarantineTurns DEF Submit, InPlacement
  <2> QED  BY <2>1, <2>2
<1>10. CASE Post(m)
  <2>1. /\ quoter' \in [Markets -> Task] /\ quoter'[m].pc = "response"
        /\ \A n \in Markets \ {m} : quoter'[n] = quoter[n]
    <3>1. CASE Goto(m, "response")
      BY <3>1 DEF TInv, TasksTyped, Goto, Task, Steps
    <3>2. CASE \E o \in Orders : quoter' = [quoter EXCEPT ![m].pc = "response", ![m].answer = {o}]
      <4>1. PICK o \in Orders :
              quoter' = [quoter EXCEPT ![m] = [@ EXCEPT !.pc = "response", !.answer = {o}]]
        BY <3>2
      <4>2. [quoter[m] EXCEPT !.pc = "response", !.answer = {o}] \in Task
        BY DEF TInv, TasksTyped, Task, Steps
      <4> QED  BY <4>1, <4>2 DEF TInv, TasksTyped, Task
    <3> QED  BY <1>10, <3>1, <3>2 DEF Post
  <2> QED  BY <1>10, <2>1 DEF TInv, Locked, Post, Turn, Holds, InPlacement
<1>11. CASE Response(m)
  BY <1>11, LeaveTurns, QuarantineTurns DEF Response, InPlacement
<1>12. CASE QuarantineLock(m)
  BY <1>12, GotoTurns DEF QuarantineLock, InPlacement, Steps
<1>13. CASE QuarantineCancels(m)
  BY <1>13, GotoTurns DEF QuarantineCancels, InPlacement, Steps, TInv, Locked, Holds
<1>14. CASE QuarantineFails(m)
  BY <1>14, LeaveTurns DEF QuarantineFails, InPlacement
<1> QED  BY <1>1, <1>2, <1>3, <1>4, <1>5, <1>6, <1>7, <1>8, <1>9, <1>10, <1>11, <1>12,
            <1>13, <1>14 DEF Quoter

\* Orders come from the pool.
LEMMA OrdersStayTyped ==
  ASSUME TInv, [Next]_vars
  PROVE  OrdersTyped'
<1> USE DEF OrdersTyped, ordersVars
<1>0. OrdersTyped /\ quoter \in [Markets -> Task] /\ recon \in ReconTask /\ beat \in BeatTask
  BY DEF TInv, TasksTyped
<1>1. ASSUME NEW m \in Markets, Quoter(m) PROVE OrdersTyped'
  <2>1. quoter[m].cancel \subseteq Orders /\ quoter[m].answer \subseteq Orders
    BY <1>0 DEF Task
  <2>2. CASE Post(m) \/ Response(m) \/ ApplyOrders(m)
    BY <1>0, <2>1, <2>2 DEF Post, Response, ApplyOrders, Replace
  <2>3. CASE CancelOk(m) \/ CancelFails(m) \/ QuarantineCancels(m) \/ QuarantineFails(m)
    BY <1>0, <2>3 DEF CancelOk, CancelFails, QuarantineCancels, QuarantineFails
  <2> QED  BY <1>0, <1>1, <2>2, <2>3
     DEF Quoter, Recompute, Plan, ReadOrders, ReadOrdersFails, Gate, Submit, QuarantineLock
<1>2. ASSUME Recon PROVE OrdersTyped'
  <2>1. recon.snap \in [Markets -> SUBSET Orders]
    BY <1>0 DEF ReconTask
  <2> QED  BY <1>0, <1>2, <2>1
     DEF Recon, ReconBegin, ReconRead, ReconRefuses, ReconPublish, Replace, ReconChecks,
         ReconDiverges, ReconCancelLock, ReconCancelled, ReconLock, ReconCancels, ReconCancelFails
<1>3. ASSUME Beat PROVE OrdersTyped'
  <2>1. beat.snap \subseteq Orders
    BY <1>0 DEF BeatTask
  <2> QED  BY <1>0, <1>3, <2>1
     DEF Beat, BeatDown, BeatRecovers, BeatRead, BeatReadFails, BeatApply, NoOrders
<1>4. ASSUME Environment PROVE OrdersTyped'
  BY <1>0, <1>4 DEF Environment, BeatWipe, GlobalHalt, MetaHalt, MetaResume, Age, Gone, OrderLive,
     OrderGone, NoOrders
<1> QED  BY <1>0, <1>1, <1>2, <1>3, <1>4 DEF Next, vars

\* Flags, epochs and bounds.
LEMMA FlagsStayTyped ==
  ASSUME TInv, [Next]_vars
  PROVE  FlagsTyped'
<1> USE DEF FlagsTyped, gateVars, boundVars
<1>0. FlagsTyped /\ MaxFaults \in Nat /\ MaxBeats \in Nat /\ Haltable \subseteq Markets
  BY GateAssumption DEF TInv
<1>b. Fault => faults' \in 0 .. MaxFaults /\ beats' = beats
  BY <1>0 DEF Fault
<1>1. ASSUME NEW m \in Markets, Quoter(m) PROVE FlagsTyped'
  BY <1>0, <1>1, <1>b
     DEF Quoter, Recompute, Plan, CancelOk, CancelFails, ReadOrders, ReadOrdersFails, ApplyOrders,
         Gate, Submit, Post, Response, EnterQuarantine, QuarantineLock, QuarantineCancels,
         QuarantineFails, Procs
<1>2. ASSUME Recon PROVE FlagsTyped'
  <2>1. recon.ok \in BOOLEAN
    BY DEF TInv, TasksTyped, ReconTask
  <2> QED  BY <1>0, <1>2, <1>b, <2>1
     DEF Recon, ReconBegin, ReconRead, ReconRefuses, ReconRaise, ReconPublish, KnownAgain,
         ReconChecks, ReconDiverges, ReconCancelLock, ReconCancelled, ReconLock, ReconCancels,
         ReconCancelFails, Procs
<1>3. ASSUME Beat PROVE FlagsTyped'
  <2>1. CASE BeatDown
    BY <1>0, <2>1 DEF BeatDown
  <2> QED  BY <1>0, <1>3, <1>b, <2>1 DEF Beat, BeatRecovers, BeatRead, BeatReadFails, BeatApply
<1>4. ASSUME Environment PROVE FlagsTyped'
  BY <1>0, <1>4 DEF Environment, BeatWipe, GlobalHalt, MetaHalt, MetaResume, Age, Gone, OrderLive,
     OrderGone
<1> QED  BY <1>0, <1>1, <1>2, <1>3, <1>4 DEF Next, vars

\* The records of the reconcile loop and of the heartbeat.
LEMMA ReconStaysTyped ==
  ASSUME TInv, Recon
  PROVE  recon' \in ReconTask
<1>0. recon \in ReconTask /\ exch \in [Markets -> SUBSET Orders]
  BY DEF TInv, TasksTyped, OrdersTyped
<1>1. /\ ReconIdle \in ReconTask
      /\ [ReconIdle EXCEPT !.pc = "check"] \in ReconTask
      /\ [ReconIdle EXCEPT !.pc = "cancelLock"] \in ReconTask
  BY DEF ReconIdle, ReconTask, NoOrders
<1>2. ReconRaise => recon' \in ReconTask
  BY <1>1 DEF ReconRaise
<1>3. CASE ReconBegin \/ ReconRead
  BY <1>0, <1>3 DEF ReconBegin, ReconRead, ReconTask
<1>4. CASE ReconRefuses \/ ReconPublish \/ ReconChecks \/ ReconDiverges
  BY <1>1, <1>2, <1>4 DEF ReconRefuses, ReconPublish, ReconChecks, ReconDiverges
<1>5. CASE \E m \in Markets : ReconLock(m) \/ ReconCancels(m) \/ ReconCancelFails(m)
  <2>1. \A m \in Markets : /\ [recon EXCEPT !.todo = @ \ {m}] \in ReconTask
                            /\ [recon EXCEPT !.todo = @ \ {m}, !.ok = FALSE] \in ReconTask
    BY <1>0 DEF ReconTask
  <2> QED  BY <1>0, <1>5, <2>1 DEF ReconLock, ReconCancels, ReconCancelFails
<1>6. CASE ReconCancelLock \/ ReconCancelled
  BY <1>0, <1>1, <1>6 DEF ReconCancelLock, ReconCancelled, ReconTask
<1> QED  BY <1>3, <1>4, <1>5, <1>6 DEF Recon

\* The same of the heartbeat.
LEMMA BeatStaysTyped ==
  ASSUME TInv, Beat
  PROVE  beat' \in BeatTask
<1>0. beat \in BeatTask /\ exch \in [Markets -> SUBSET Orders]
  BY DEF TInv, TasksTyped, OrdersTyped
<1>1. /\ BeatOk \in BeatTask
      /\ \A todo \in SUBSET Markets : [BeatOk EXCEPT !.pc = "resync", !.todo = todo] \in BeatTask
  BY DEF BeatOk, BeatTask
<1>2. CASE BeatDown
  BY <1>0, <1>2 DEF BeatDown, BeatTask
<1>3. CASE BeatRecovers
  BY <1>1, <1>3 DEF BeatRecovers
<1>4. ASSUME NEW m \in Markets, BeatRead(m) PROVE beat' \in BeatTask
  <2>1. PICK seen \in Answers(m) : beat' = [beat EXCEPT !.pc = "apply", !.at = {m}, !.snap = seen]
    BY <1>4 DEF BeatRead
  <2>2. seen \in SUBSET Orders
    BY <1>0 DEF Answers
  <2> QED  BY <1>0, <2>1, <2>2 DEF BeatTask
<1>5. ASSUME NEW m \in Markets, BeatReadFails(m) \/ BeatApply(m) PROVE beat' \in BeatTask
  <2>1. BeatNext(m)
    BY <1>5 DEF BeatReadFails, BeatApply
  <2>2. beat.todo \ {m} \in SUBSET Markets
    BY <1>0 DEF BeatTask
  <2> QED  BY <1>1, <2>1, <2>2 DEF BeatNext
<1> QED  BY <1>2, <1>3, <1>4, <1>5 DEF Beat

\* The reconcile loop holds market locks only while it publishes or gives up, and the
\* placement lock only while it cancels.
LEMMA ReconStaysLocked ==
  ASSUME TInv, Recon
  PROVE  Locked'
<1> USE DEF lockVars
<1>0. Locked /\ recon \in ReconTask
  BY DEF TInv, TasksTyped
<1>1. ReconUnlock => /\ marketLock' \in [Markets -> Procs \union {Free}]
                     /\ \A m \in Markets : marketLock'[m] = IF marketLock[m] = "recon" THEN Free
                                                            ELSE marketLock[m]
  BY <1>0 DEF ReconUnlock, Locked
<1>2. \A pc \in {"check", "cancelLock"} : [ReconIdle EXCEPT !.pc = pc].pc = pc
  BY DEF ReconIdle
<1>3. ReconIdle.pc = "idle"
  BY DEF ReconIdle
<1>4. ReconRaise => recon'.pc \in {"idle", "cancelLock"}
  BY <1>2, <1>3 DEF ReconRaise
<1>5. CASE ReconBegin \/ ReconRead \/ ReconChecks \/ ReconDiverges
  <2>1. recon.pc \notin {"locks", "cancelling"} /\ recon'.pc # "cancelling"
    BY <1>0, <1>2, <1>3, <1>5 DEF ReconBegin, ReconRead, ReconChecks, ReconDiverges, ReconTask
  <2> QED  BY <1>0, <1>5, <2>1
           DEF ReconBegin, ReconRead, ReconChecks, ReconDiverges, Locked, Holds
<1>6. CASE ReconRefuses \/ ReconPublish
  <2>1. /\ ReconUnlock /\ recon.pc # "cancelling" /\ recon'.pc # "cancelling"
        /\ UNCHANGED <<reservationLock, placementLock, quoter>>
    BY <1>2, <1>4, <1>6 DEF ReconRefuses, ReconPublish
  <2> QED  BY <1>0, <1>1, <2>1, Names DEF Locked, Holds
<1>7. ASSUME NEW m \in Markets, ReconLock(m) PROVE Locked'
  BY <1>0, <1>7, Names DEF ReconLock, Locked, Holds, Procs
<1>8. ASSUME NEW m \in Markets, ReconCancels(m) \/ ReconCancelFails(m) PROVE Locked'
  <2>1. recon.pc = "cancelling" /\ recon'.pc = recon.pc
    BY <1>0, <1>8 DEF ReconCancels, ReconCancelFails, ReconTask
  <2> QED  BY <1>0, <1>8, <2>1 DEF ReconCancels, ReconCancelFails, Locked, Holds
<1>9. CASE ReconCancelLock
  <2>1. recon.pc = "cancelLock" /\ recon'.pc = "cancelling"
    BY <1>0, <1>9 DEF ReconCancelLock, ReconTask
  <2> QED  BY <1>0, <1>9, <2>1, Names DEF ReconCancelLock, Locked, Holds, Procs
<1>10. CASE ReconCancelled
  BY <1>0, <1>3, <1>10, Names DEF ReconCancelled, Locked, Holds, Procs
<1> QED  BY <1>5, <1>6, <1>7, <1>8, <1>9, <1>10 DEF Recon

\* Types and locks hold at first and are kept by every step.
THEOREM TypesInductive ==
  /\ Init => TInv
  /\ TInv /\ [Next]_vars => TInv'
<1>1. Init => TInv
  <2> SUFFICES ASSUME Init PROVE TInv
    OBVIOUS
  <2>1. OrdersTyped /\ FlagsTyped
    <3>1. OrdersTyped
      BY DEF Init, OrdersTyped, NoOrders
    <3>2. FlagsTyped
      <4>1. faults \in 0 .. MaxFaults /\ beats \in 0 .. MaxBeats
        BY GateAssumption DEF Init
      <4>2. halted \subseteq Haltable /\ current \subseteq Procs
        BY DEF Init
      <4>3. unknown \in BOOLEAN /\ quarantined \in BOOLEAN /\ killed \in BOOLEAN
        BY DEF Init
      <4> QED  BY <4>1, <4>2, <4>3 DEF FlagsTyped
    <3> QED  BY <3>1, <3>2
  <2>2. TasksTyped
    BY IdleTask DEF Init, TasksTyped, ReconIdle, ReconTask, BeatOk, BeatTask, NoOrders
  <2>3. Locked
    BY IdleTask, Names DEF Init, Locked, Holds, InPlacement, ReconIdle
  <2> QED  BY <2>1, <2>2, <2>3 DEF TInv
<1>2. ASSUME TInv, [Next]_vars PROVE TInv'
  <2>1. OrdersTyped' /\ FlagsTyped'
    BY <1>2, OrdersStayTyped, FlagsStayTyped
  <2>2. TasksTyped' /\ Locked'
    <3>1. TasksTyped /\ Locked
      BY <1>2 DEF TInv
    <3>2. ASSUME NEW m \in Markets, Quoter(m) PROVE TasksTyped' /\ Locked'
      <4>1. Turn(m)
        BY <1>2, <3>2, QuoterTurns
      <4>2. beat' = beat
        BY <3>2 DEF Quoter, Recompute, Plan, CancelOk, CancelFails, ReadOrders, ReadOrdersFails,
           ApplyOrders, Gate, Submit, Post, Response, QuarantineLock, QuarantineCancels,
           QuarantineFails
      <4> QED  BY <3>1, <4>1, <4>2, TurnKeeps DEF TasksTyped, Turn
    <3>3. CASE Recon
      <4>1. quoter' = quoter /\ beat' = beat
        BY <3>3 DEF Recon, ReconBegin, ReconRead, ReconRefuses, ReconPublish, ReconChecks,
           ReconDiverges, ReconCancelLock, ReconCancelled, ReconLock, ReconCancels, ReconCancelFails
      <4> QED  BY <1>2, <3>1, <3>3, <4>1, ReconStaysTyped, ReconStaysLocked DEF TasksTyped
    <3>4. CASE Beat \/ Environment \/ UNCHANGED vars
      <4>1. UNCHANGED <<lockVars, quoter, recon>>
        BY <3>4 DEF Beat, BeatDown, BeatRecovers, BeatRead, BeatReadFails, BeatApply, Environment,
           BeatWipe, GlobalHalt, MetaHalt, MetaResume, Age, Gone, OrderLive, OrderGone, vars
      <4>2. beat' \in BeatTask
        <5>1. CASE Beat
          BY <1>2, <5>1, BeatStaysTyped
        <5>2. CASE Environment \/ UNCHANGED vars
          BY <3>1, <5>2 DEF Environment, BeatWipe, GlobalHalt, MetaHalt, MetaResume, Age, Gone,
             OrderLive, OrderGone, vars, TasksTyped
        <5> QED  BY <3>4, <5>1, <5>2
      <4> QED  BY <3>1, <4>1, <4>2 DEF TasksTyped, Locked, Holds, lockVars
    <3> QED  BY <1>2, <3>2, <3>3, <3>4 DEF Next
  <2> QED  BY <2>1, <2>2 DEF TInv
<1> QED  BY <1>1, <1>2

\* TypeOK: whatever fails and in whatever order the tasks run, a lock is held exactly
\* while its holder is inside the section it guards; no early return, refused
\* placement, failed cancellation or quarantine keeps one.
THEOREM LocksAreReturned == Spec => []TypeOK
<1>1. TInv => TypeOK
  BY DEF TInv, OrdersTyped, FlagsTyped, Locked, Holds, TypeOK
<1> QED  BY <1>1, TypesInductive, PTL DEF Spec
-------------------------------------------------------------------------------
(* What a step leaves alone *)

\* Orders leave the exchange, no view of them is lost
Steady(m) ==
  /\ quoter'[m] = quoter[m]
  /\ exch'[m] \subseteq exch[m] /\ local[m] \intersect exch'[m] \subseteq local'[m]

Onward ==
  /\ unknown => unknown'
  /\ recon'.pc = "locks" => recon' = recon /\ ("recon" \in current' => "recon" \in current)

\* What a step of the task of m leaves alone.
LEMMA TaskFrame ==
  ASSUME TInv, NEW m \in Markets, Quoter(m)
  PROVE  /\ Onward /\ beat' = beat /\ young \subseteq young' /\ quarantined' = quarantined
         /\ \A n \in Markets \ {m} : Steady(n)
<1> USE DEF gateVars, ordersVars, boundVars, Fault
<1>1. exch \in [Markets -> SUBSET Orders] /\ local \in [Markets -> SUBSET Orders] /\ Turn(m)
  BY QuoterTurns DEF TInv, OrdersTyped
<1>2. beat' = beat /\ young \subseteq young' /\ quarantined' = quarantined
  BY DEF Quoter, Recompute, Plan, CancelOk, CancelFails, ReadOrders, ReadOrdersFails,
     ApplyOrders, Gate, Submit, Post, Response, EnterQuarantine, QuarantineLock,
     QuarantineCancels, QuarantineFails
<1>3. Onward
  <2>1. (unknown => unknown') /\ recon' = recon
    BY DEF Quoter, Recompute, Plan, CancelOk, CancelFails, ReadOrders, ReadOrdersFails,
       ApplyOrders, Gate, Submit, Post, Response, EnterQuarantine, QuarantineLock,
       QuarantineCancels, QuarantineFails
  <2>2. "recon" \in current' => "recon" \in current
    BY Names DEF Quoter, Recompute, Plan, CancelOk, CancelFails, ReadOrders, ReadOrdersFails,
       ApplyOrders, Gate, Submit, Post, Response, EnterQuarantine, QuarantineLock,
       QuarantineCancels, QuarantineFails
  <2> QED  BY <2>1, <2>2 DEF Onward
<1>4. ASSUME NEW n \in Markets \ {m} PROVE exch'[n] = exch[n]
  BY <1>1 DEF Quoter, Recompute, Plan, CancelOk, CancelFails, ReadOrders, ReadOrdersFails,
     ApplyOrders, Gate, Submit, Post, Response, QuarantineLock, QuarantineCancels, QuarantineFails
<1>5. ASSUME NEW n \in Markets \ {m} PROVE local'[n] = local[n]
  BY <1>1 DEF Quoter, Recompute, Plan, CancelOk, CancelFails, ReadOrders, ReadOrdersFails,
     ApplyOrders, Gate, Submit, Post, Response, QuarantineLock, QuarantineCancels, QuarantineFails
<1> QED  BY <1>1, <1>2, <1>3, <1>4, <1>5 DEF Steady, Turn

\* Only Post adds an order, and a task gets to it while the state is known.
LEMMA TaskOrders ==
  ASSUME TInv, NEW m \in Markets, Quoter(m)
  PROVE  /\ exch'[m] \subseteq exch[m] \/ Post(m)
         /\ quoter'[m].pc = "posting" => ~unknown
<1> USE DEF ordersVars
<1>1. exch \in [Markets -> SUBSET Orders] /\ Turn(m) /\ quoter \in [Markets -> Task]
  BY QuoterTurns DEF TInv, OrdersTyped, TasksTyped
<1>2. exch'[m] \subseteq exch[m] \/ Post(m)
  BY <1>1 DEF Quoter, Recompute, Plan, CancelOk, CancelFails, ReadOrders, ReadOrdersFails,
     ApplyOrders, Gate, Submit, Response, QuarantineLock, QuarantineCancels, QuarantineFails
<1> QED  BY <1>1, <1>2 DEF Turn

-------------------------------------------------------------------------------
(* The quarantine *)

\* The cancellation of an episode runs while the state is unknown, and leaves empty
\* the markets it is done with.
Emptied ==
  /\ recon.pc \in {"cancelLock", "cancelling"} => unknown
  /\ recon.pc = "cancelling" /\ recon.ok =>
       \A m \in Markets \ recon.todo : exch[m] = {}

Quiescent == quarantined => \A m \in Markets : quoter[m].pc # "posting"

GInv == TInv /\ Emptied /\ Quiescent /\ QuarantineEmpties

\* What the three parts need of a step outside the cancellation: orders only leave, no
\* task gets to posting while the state is unknown, and only a publication makes it known.
Calm ==
  /\ \A m \in Markets : exch'[m] \subseteq exch[m]
  /\ \A m \in Markets : quoter'[m].pc = "posting" => quoter[m].pc = "posting" \/ ~unknown
  /\ quarantined' => quarantined /\ unknown'

\* A calm step of somebody else leaves the cancellation what it was.
LEMMA CalmKeeps ==
  ASSUME GInv, Calm,
         \/ recon' = recon /\ (unknown => unknown')
         \/ recon'.pc # "cancelling" /\ (recon'.pc = "cancelLock" => unknown')
  PROVE  Emptied' /\ Quiescent' /\ QuarantineEmpties'
<1>1. \A m \in Markets : exch[m] = {} => exch'[m] = {}
  BY DEF Calm
<1>2. Emptied'
  BY <1>1 DEF GInv, Emptied
<1>3. Quiescent'
  BY DEF GInv, Quiescent, QuarantineEmpties, Calm
<1>4. QuarantineEmpties'
  BY <1>1 DEF GInv, QuarantineEmpties, Calm
<1> QED  BY <1>2, <1>3, <1>4

\* A task's step, Post included: a declared quarantine finds no task at it, and the
\* cancellation of an episode cannot run beside one.
LEMMA TaskKeepsQuarantine ==
  ASSUME GInv, NEW m \in Markets, Quoter(m)
  PROVE  Emptied' /\ Quiescent' /\ QuarantineEmpties'
<1>1. /\ Turn(m) /\ Onward /\ quarantined' = quarantined /\ recon' = recon
      /\ (exch'[m] \subseteq exch[m] \/ Post(m))
      /\ \A n \in Markets \ {m} : exch'[n] \subseteq exch[n] /\ quoter'[n] = quoter[n]
  BY QuoterTurns, TaskFrame, TaskOrders DEF GInv, Turn, Steady
<1>2. (quarantined => unknown) /\ (unknown => unknown')
  BY <1>1 DEF GInv, QuarantineEmpties, Onward
<1>3. CASE exch'[m] \subseteq exch[m]
  <2>1. Calm
    BY <1>1, <1>2, <1>3 DEF Calm, Turn
  <2> QED  BY <1>1, <1>2, <2>1, CalmKeeps
<1>4. CASE Post(m)
  <2>1. quoter[m].pc = "posting" /\ ~quarantined
    BY <1>4 DEF Post, GInv, Quiescent
  <2>2. recon.pc # "cancelling"
    BY <2>1, Names DEF GInv, TInv, Locked, Holds, InPlacement
  <2> QED  BY <1>1, <1>2, <2>1, <2>2 DEF GInv, Emptied, Quiescent, QuarantineEmpties
<1> QED  BY <1>1, <1>3, <1>4

\* The reconcile loop outside its cancellation.
LEMMA ReconKeepsQuarantine ==
  ASSUME GInv,
         \/ ReconBegin \/ ReconRead \/ ReconRefuses \/ ReconPublish \/ ReconChecks
         \/ ReconDiverges \/ \E m \in Markets : ReconLock(m)
  PROVE  Emptied' /\ Quiescent' /\ QuarantineEmpties'
<1>1. (quarantined => unknown) /\ recon \in ReconTask
  BY DEF GInv, QuarantineEmpties, TInv, TasksTyped
<1>2. exch' = exch /\ quoter' = quoter
  BY DEF ReconBegin, ReconRead, ReconRefuses, ReconPublish, ReconChecks, ReconDiverges,
     ReconLock, ordersVars
<1>3. quarantined' => quarantined /\ unknown'
  BY <1>1 DEF ReconBegin, ReconRead, ReconRefuses, ReconPublish, ReconChecks, ReconDiverges,
     ReconLock, ReconRaise, KnownAgain, gateVars
<1>4. ReconIdle.pc = "idle" /\ \A pc \in {"check", "cancelLock"} : [ReconIdle EXCEPT !.pc = pc].pc = pc
  BY DEF ReconIdle
<1>5. \/ recon' = recon /\ (unknown => unknown')
      \/ recon'.pc # "cancelling" /\ (recon'.pc = "cancelLock" => unknown')
  <2>1. CASE ReconBegin \/ ReconRead \/ ReconChecks \/ ReconDiverges
    BY <1>1, <1>4, <2>1 DEF ReconBegin, ReconRead, ReconChecks, ReconDiverges, ReconTask
  <2>2. CASE ReconRefuses
    BY <1>4, <2>2 DEF ReconRefuses, ReconRaise
  <2>3. CASE ReconPublish
    BY <1>4, <2>3 DEF ReconPublish, ReconRaise
  <2>4. CASE \E m \in Markets : ReconLock(m)
    BY <2>4 DEF ReconLock, gateVars
  <2> QED  BY <2>1, <2>2, <2>3, <2>4
<1>6. Calm
  BY <1>2, <1>3 DEF Calm
<1> QED  BY <1>5, <1>6, CalmKeeps

\* The cancellation of an episode has the section to itself.
LEMMA CancellationKeepsQuarantine ==
  ASSUME GInv,
         \/ ReconCancelLock \/ ReconCancelled
         \/ \E m \in Markets : ReconCancels(m) \/ ReconCancelFails(m)
  PROVE  Emptied' /\ Quiescent' /\ QuarantineEmpties'
<1>1. recon \in ReconTask /\ exch \in [Markets -> SUBSET Orders]
  BY DEF GInv, TInv, TasksTyped, OrdersTyped
<1>2. CASE ReconCancelLock
  <2>1. /\ recon.pc = "cancelLock" /\ exch' = exch /\ quoter' = quoter /\ unknown' = unknown
        /\ quarantined' = quarantined
    BY <1>2 DEF ReconCancelLock, ordersVars, gateVars
  <2>2. recon'.pc = "cancelling" /\ recon'.todo = Markets
    BY <1>1, <1>2 DEF ReconCancelLock, ReconTask
  <2> QED  BY <2>1, <2>2 DEF GInv, Emptied, Quiescent, QuarantineEmpties
<1>3. CASE ReconCancelled
  <2>1. /\ recon.pc = "cancelling" /\ recon.todo = {} /\ placementLock = "recon"
        /\ unknown' = (unknown \/ ~recon.ok) /\ quarantined' = recon.ok
        /\ recon' = ReconIdle /\ exch' = exch /\ quoter' = quoter
    BY <1>3 DEF ReconCancelled, ordersVars, GInv, TInv, Locked
  <2>2. unknown /\ (recon.ok => \A m \in Markets : exch[m] = {})
    BY <2>1 DEF GInv, Emptied
  <2>3. \A m \in Markets : quoter[m].pc \notin InPlacement
    BY <2>1, Names DEF GInv, TInv, Locked, Holds
  <2> QED  BY <2>1, <2>2, <2>3 DEF ReconIdle, Emptied, Quiescent, QuarantineEmpties, InPlacement
<1>4. ASSUME NEW m \in Markets, ReconCancels(m) \/ ReconCancelFails(m)
      PROVE  Emptied' /\ Quiescent' /\ QuarantineEmpties'
  <2>1. /\ recon.pc = "cancelling" /\ quoter' = quoter
        /\ unknown' = unknown /\ quarantined' = quarantined
    BY <1>4 DEF ReconCancels, ReconCancelFails, gateVars
  <2>2. \A n \in Markets : exch'[n] \subseteq exch[n]
    BY <1>1, <1>4 DEF ReconCancels, ReconCancelFails
  <2>3. /\ recon'.pc = "cancelling" /\ recon'.todo = recon.todo \ {m}
        /\ recon'.ok => recon.ok /\ exch'[m] = {}
    BY <1>1, <1>4, <2>1 DEF ReconCancels, ReconCancelFails, ReconTask
  <2>4. Emptied'
    <3>1. ASSUME recon'.ok, NEW n \in Markets \ recon'.todo
          PROVE  exch'[n] = {}
      <4>1. CASE n = m
        BY <2>3, <3>1, <4>1
      <4>2. CASE n # m
        BY <2>1, <2>2, <2>3, <3>1, <4>2 DEF GInv, Emptied
      <4> QED  BY <4>1, <4>2
    <3> QED  BY <2>1, <2>3, <3>1 DEF GInv, Emptied
  <2> QED  BY <2>1, <2>2, <2>4 DEF GInv, Quiescent, QuarantineEmpties
<1> QED  BY <1>2, <1>3, <1>4

\* Heartbeats, order events, halts and the exchange only take orders away.
LEMMA WorldKeepsQuarantine ==
  ASSUME GInv, Beat \/ Environment \/ UNCHANGED vars
  PROVE  Emptied' /\ Quiescent' /\ QuarantineEmpties'
<1> USE DEF gateVars, ordersVars
<1>0. exch \in [Markets -> SUBSET Orders]
  BY DEF GInv, TInv, OrdersTyped
<1>1. quoter' = quoter /\ recon' = recon /\ quarantined' = quarantined
  BY DEF Beat, BeatDown, BeatRecovers, BeatRead, BeatReadFails, BeatApply, Environment,
     BeatWipe, GlobalHalt, MetaHalt, MetaResume, Age, Gone, OrderLive, OrderGone, vars
<1>2. unknown => unknown'
  BY DEF Beat, BeatDown, BeatRecovers, BeatRead, BeatReadFails, BeatApply, Environment,
     BeatWipe, GlobalHalt, MetaHalt, MetaResume, Age, Gone, OrderLive, OrderGone, vars
<1>3. \/ exch' = exch
      \/ exch' = NoOrders
      \/ \E m \in Markets, o \in Orders : exch' = [exch EXCEPT ![m] = @ \ {o}]
  BY DEF Beat, BeatDown, BeatRecovers, BeatRead, BeatReadFails, BeatApply, Environment, BeatWipe,
         GlobalHalt, MetaHalt, MetaResume, Age, Gone, OrderLive, OrderGone, vars
<1>4. \A m \in Markets : exch'[m] \subseteq exch[m]
  BY <1>0, <1>3 DEF NoOrders
<1>5. Calm
  BY <1>1, <1>2, <1>4 DEF Calm, GInv, QuarantineEmpties
<1> QED  BY <1>1, <1>2, <1>5, CalmKeeps

\* The invariant holds at first and is kept by every step.
THEOREM GateInductive ==
  /\ Init => GInv
  /\ GInv /\ [Next]_vars => GInv'
<1>1. Init => GInv
  BY TypesInductive DEF Init, Idle, ReconIdle, GInv, Emptied, Quiescent, QuarantineEmpties
<1>2. ASSUME GInv, [Next]_vars PROVE GInv'
  <2>1. TInv'
    BY <1>2, TypesInductive DEF GInv
  <2>2. Emptied' /\ Quiescent' /\ QuarantineEmpties'
    BY <1>2, TaskKeepsQuarantine, ReconKeepsQuarantine, CancellationKeepsQuarantine,
       WorldKeepsQuarantine DEF Next, Recon
  <2> QED  BY <2>1, <2>2 DEF GInv
<1> QED  BY <1>1, <1>2

\* Once the quarantine of an unknown-state episode is declared, nothing of ours is at
\* the exchange and nothing gets there until a snapshot is published: for any number of
\* markets and orders, with answers that lag, any failure and a dead heartbeat.
THEOREM QuarantineIsEmpty == Spec => []QuarantineEmpties
<1>1. GInv => QuarantineEmpties
  BY DEF GInv
<1> QED  BY <1>1, GateInductive, PTL DEF Spec

-------------------------------------------------------------------------------
(* The local view *)

\* The order whose answer is awaited.
Awaited(m) == IF quoter[m].pc = "response" THEN quoter[m].answer ELSE {}

\* UntrackedMeansUnknown for one market, and what is owed to the answer.
Tracked(m) == unknown \/ exch[m] \subseteq local[m] \union Awaited(m)

\* An answer about to be applied names every live order: the task that reads it holds
\* the market lock, so nothing is placed in between.
Answered(m) == quoter[m].pc \in {"resyncApply", "refreshApply"} => exch[m] \subseteq quoter[m].answer

\* A task that is to place has first taken every live order off.
Clearing(m) ==
  /\ quoter[m].pc = "cancel" /\ quoter[m].place => unknown \/ exch[m] \subseteq quoter[m].cancel
  /\ quoter[m].pc \in {"gate", "submit", "posting"} => exch[m] = {}

\* What a snapshot that may still be published lacks is young and in the local view, or
\* is about to be: it survives the publication.
Covered(m) ==
  recon.pc = "locks" /\ "recon" \in current =>
    exch[m] \subseteq recon.snap[m] \union (young \intersect (local[m] \union Awaited(m)))

AtMostOne(m) == \A o, p \in exch[m] : o = p

Track(m) == Tracked(m) /\ Answered(m) /\ Clearing(m) /\ Covered(m) /\ AtMostOne(m)

PInv == TInv /\ beat.pc = "ok" /\ \A m \in Markets : Track(m)

\* No in-flight fill keeps a stale view, snapshots are prompt, the heartbeat stays up.
Prompt == Busy = {} /\ SnapshotLags = FALSE /\ MaxBeats = 0

\* Orders that leave, or enter the local view, disturb none of it.
LEMMA SteadyKeeps ==
  ASSUME NEW m \in Markets, Track(m), Steady(m), Onward, young \intersect exch'[m] \subseteq young'
  PROVE  Track(m)'
<1>1. Awaited(m)' = Awaited(m)
  BY DEF Awaited, Steady
<1>2. Tracked(m)'
  BY <1>1 DEF Track, Tracked, Steady, Onward
<1>3. Answered(m)'
  BY DEF Track, Answered, Steady
<1>4. Clearing(m)'
  BY DEF Track, Clearing, Steady, Onward
<1>5. Covered(m)'
  BY <1>1 DEF Track, Covered, Steady, Onward
<1>6. AtMostOne(m)'
  BY DEF Track, AtMostOne, Steady
<1> QED  BY <1>2, <1>3, <1>4, <1>5, <1>6 DEF Track

\* A prompt answer is what lives.
LEMMA AnswersNow ==
  ASSUME Prompt, NEW m \in Markets
  PROVE  Answers(m) = {exch[m]}
  BY DEF Prompt, Answers

\* A step of the task that ends where nothing is promised of its market's orders.
LEMMA QuietStep ==
  ASSUME NEW m \in Markets, Track(m), Onward, young \subseteq young',
         quoter[m].pc # "response",
         quoter'[m].pc \notin {"resyncApply", "refreshApply", "cancel", "gate", "submit", "posting",
                               "response"},
         exch'[m] \subseteq exch[m], local[m] \intersect exch'[m] \subseteq local'[m]
  PROVE  Track(m)'
<1>1. Awaited(m) = {} /\ Awaited(m)' = {}
  BY DEF Awaited
<1>2. Tracked(m)'
  BY <1>1 DEF Track, Tracked, Onward
<1>3. Covered(m)'
  BY <1>1 DEF Track, Covered, Onward
<1> QED  BY <1>2, <1>3 DEF Track, Answered, Clearing, AtMostOne

\* Towards the placement lock: by then nothing of the market is at the exchange.
LEMMA GateStep ==
  ASSUME NEW m \in Markets, Track(m), Onward, young \subseteq young',
         quoter[m].pc # "response", quoter'[m].pc \in {"gate", "submit", "posting"},
         exch'[m] = {}
  PROVE  Track(m)'
<1>1. Awaited(m) = {} /\ Awaited(m)' = {}
  BY DEF Awaited
<1> QED  BY <1>1 DEF Track, Tracked, Answered, Clearing, Covered, AtMostOne

\* A task that may place has cleared its market, or knows its view is not to be trusted.
LEMMA TowardsStep ==
  ASSUME TInv, NEW m \in Markets, Track(m), Onward, young \subseteq young',
         NEW place, TowardsPlacement(m, place), recon' = recon, placementLock' = placementLock,
         \/ quoter[m].pc = "reserve" /\ reservationLock = Free
         \/ quoter[m].pc = "cancel",
         exch'[m] \subseteq exch[m], local[m] \intersect exch'[m] \subseteq local'[m],
         place /\ ~unknown => exch'[m] = {}
  PROVE  Track(m)'
<1>1. quoter'[m].pc \in {"idle", "gate"}
  BY TowardsTurns
<1>2. CASE place /\ PlacementAllowed(m)
  BY <1>1, <1>2, QuietStep, GateStep DEF PlacementAllowed
<1>3. CASE Leave(m)
  <2>1. quoter'[m] = Idle
    BY <1>3 DEF Leave, TInv, TasksTyped
  <2> QED  BY <2>1, IdleTask, QuietStep
<1> QED  BY <1>2, <1>3 DEF TowardsPlacement

\* Up to the placement lock.
LEMMA BeforeTheGateTracks ==
  ASSUME Prompt, PInv, NEW m \in Markets, Quoter(m),
         \/ Recompute(m) \/ Plan(m) \/ CancelOk(m) \/ CancelFails(m)
         \/ ReadOrders(m) \/ ReadOrdersFails(m) \/ ApplyOrders(m)
  PROVE  Track(m)'
<1> USE DEF ordersVars
<1>0. TInv /\ Track(m) /\ Onward /\ young \subseteq young' /\ recon' = recon
      /\ quoter \in [Markets -> Task]
      /\ exch \in [Markets -> SUBSET Orders] /\ local \in [Markets -> SUBSET Orders]
  BY TaskFrame, QuoterTurns DEF PInv, Turn, TInv, TasksTyped, OrdersTyped
<1>1. CASE Recompute(m)
  <2>1. PICK want \in BOOLEAN :
          quoter' = [quoter EXCEPT ![m] = [Idle EXCEPT !.pc = "reserve", !.place = want]]
    BY <1>1 DEF Recompute
  <2>2. [Idle EXCEPT !.pc = "reserve", !.place = want].pc = "reserve"
    BY DEF Idle
  <2>3. quoter'[m].pc = "reserve" /\ quoter[m].pc = "idle" /\ exch' = exch /\ local' = local
    BY <1>0, <1>1, <2>1, <2>2 DEF Recompute
  <2> QED  BY <1>0, <2>3, QuietStep
<1>2. CASE Plan(m)
  <2>1. PICK keep \in SUBSET local[m], place \in BOOLEAN :
          /\ place => keep = {}
          /\ \/ keep = local[m] /\ TowardsPlacement(m, place)
             \/ quoter' = [quoter EXCEPT ![m] = [Idle EXCEPT
                   !.pc = "cancel", !.cancel = local[m] \ keep, !.place = place]]
    <3>1. PICK keep \in SUBSET local[m] :
            LET place == quoter[m].place /\ keep = {}
            IN  IF keep = local[m]
                THEN TowardsPlacement(m, place)
                ELSE quoter' = [quoter EXCEPT ![m] = [Idle EXCEPT
                       !.pc = "cancel", !.cancel = local[m] \ keep, !.place = place]]
      BY <1>2, Zenon DEF Plan
    <3> DEFINE place == quoter[m].place /\ keep = {}
    <3>2. place \in BOOLEAN /\ (place => keep = {})
      OBVIOUS
    <3> QED  BY <3>1, <3>2, Zenon
  <2>2. /\ exch' = exch /\ local' = local /\ quoter[m].pc = "reserve" /\ reservationLock = Free
        /\ placementLock' = placementLock
    BY <1>2 DEF Plan
  <2>3. ~unknown => exch[m] \subseteq local[m]
    BY <1>0, <2>2 DEF Track, Tracked, Awaited
  <2>4. CASE keep = local[m] /\ TowardsPlacement(m, place)
    BY <1>0, <2>1, <2>2, <2>3, <2>4, TowardsStep
  <2>5. CASE quoter' = [quoter EXCEPT ![m] = [Idle EXCEPT
                   !.pc = "cancel", !.cancel = local[m] \ keep, !.place = place]]
    <3> DEFINE next == [Idle EXCEPT !.pc = "cancel", !.cancel = local[m] \ keep, !.place = place]
    <3>1. next.pc = "cancel" /\ next.cancel = local[m] \ keep /\ next.place = place
      BY DEF Idle
    <3> HIDE DEF next
    <3>2. quoter'[m] = next
      BY <1>0, <2>5 DEF next
    <3>3. Awaited(m) = {} /\ Awaited(m)' = {}
      BY <2>2, <3>1, <3>2 DEF Awaited
    <3> QED  BY <1>0, <2>1, <2>2, <2>3, <3>1, <3>2, <3>3
             DEF Track, Tracked, Answered, Clearing, Covered, AtMostOne, Onward
  <2> QED  BY <2>1, <2>4, <2>5
<1>3. CASE CancelOk(m)
  <2>1. /\ exch'[m] = exch[m] \ quoter[m].cancel /\ local'[m] = local[m] \ quoter[m].cancel
        /\ quoter[m].pc = "cancel" /\ placementLock' = placementLock
        /\ TowardsPlacement(m, quoter[m].place)
    BY <1>0, <1>3 DEF CancelOk
  <2>2. quoter[m].place /\ ~unknown => exch'[m] = {}
    BY <1>0, <2>1 DEF Track, Clearing
  <2> QED  BY <1>0, <2>1, <2>2, TowardsStep
<1>4. CASE CancelFails(m)
  <2>1. [Idle EXCEPT !.pc = "resync"].pc = "resync"
    BY DEF Idle
  <2>2. /\ quoter'[m].pc = "resync" /\ quoter[m].pc = "cancel" /\ exch'[m] \subseteq exch[m]
        /\ local' = local
    BY <1>0, <1>4, <2>1 DEF CancelFails
  <2> QED  BY <1>0, <2>2, QuietStep
<1>5. CASE ReadOrders(m)
  <2>1. PICK seen \in Answers(m) :
          quoter' = [quoter EXCEPT ![m].answer = seen, ![m].pc =
                       IF @ = "resync" THEN "resyncApply" ELSE "refreshApply"]
    BY <1>5 DEF ReadOrders
  <2>5. seen = exch[m]
    BY AnswersNow
  <2>2. quoter[m].pc \in {"resync", "refresh"} /\ exch' = exch /\ local' = local
    BY <1>5 DEF ReadOrders
  <2>3. quoter'[m].pc \in {"resyncApply", "refreshApply"} /\ quoter'[m].answer = exch[m]
    BY <1>0, <2>1, <2>2, <2>5 DEF Task
  <2>4. Awaited(m) = {} /\ Awaited(m)' = {}
    BY <2>2, <2>3 DEF Awaited
  <2> QED  BY <1>0, <2>2, <2>3, <2>4
           DEF Track, Tracked, Answered, Clearing, Covered, AtMostOne, Onward
<1>6. CASE ReadOrdersFails(m)
  <2>1. quoter'[m].pc = "idle" /\ quoter[m].pc # "response" /\ exch' = exch /\ local' = local
    BY <1>0, <1>6, IdleTask DEF ReadOrdersFails, Leave
  <2> QED  BY <1>0, <2>1, QuietStep
<1>7. CASE ApplyOrders(m)
  <2>1. /\ quoter[m].pc \in {"resyncApply", "refreshApply"} /\ exch' = exch
        /\ quoter[m].answer \subseteq local'[m]
        /\ quoter'[m].pc = "idle"
    BY <1>0, <1>7, IdleTask DEF ApplyOrders, Replace, Leave
  <2>2. exch'[m] \subseteq local'[m]
    BY <1>0, <2>1 DEF Track, Answered
  <2> QED  BY <1>0, <2>1, <2>2, QuietStep
<1> QED  BY <1>1, <1>2, <1>3, <1>4, <1>5, <1>6, <1>7

\* Inside the section.
LEMMA InTheSectionTracks ==
  ASSUME PInv, NEW m \in Markets, Quoter(m),
         \/ Gate(m) \/ Submit(m) \/ Post(m) \/ Response(m)
         \/ QuarantineLock(m) \/ QuarantineCancels(m) \/ QuarantineFails(m)
  PROVE  Track(m)'
<1> USE DEF ordersVars
<1>0. TInv /\ Track(m) /\ Onward /\ young \subseteq young' /\ recon' = recon
      /\ quoter \in [Markets -> Task] /\ quoter' \in [Markets -> Task]
      /\ exch \in [Markets -> SUBSET Orders] /\ local \in [Markets -> SUBSET Orders]
  BY TaskFrame, QuoterTurns DEF PInv, Turn, TInv, TasksTyped, OrdersTyped
<1>a. \A step \in Steps : Goto(m, step) => quoter'[m] = [quoter[m] EXCEPT !.pc = step] /\ quoter'[m].pc = step
  BY <1>0 DEF Goto, Task
<1>b. Leave(m) => quoter'[m].pc = "idle"
  BY <1>0, IdleTask DEF Leave
<1>c. EnterQuarantine(m) => quoter'[m].pc = "quarantine" /\ unknown' /\ current' = {}
  BY <1>0 DEF EnterQuarantine, Idle
<1>1. CASE Gate(m)
  <2>1. quoter[m].pc = "gate" /\ exch' = exch /\ local' = local
    BY <1>1 DEF Gate
  <2>2. quoter'[m].pc \in {"submit", "idle"}
    BY <1>1, <1>a, <1>b DEF Gate, Steps
  <2>3. exch[m] = {}
    BY <1>0, <2>1 DEF Track, Clearing
  <2> QED  BY <1>0, <2>1, <2>2, <2>3, QuietStep, GateStep
<1>2. CASE Submit(m)
  <2>1. quoter[m].pc = "submit" /\ exch' = exch /\ local' = local
    BY <1>2 DEF Submit
  <2>2. quoter'[m].pc \in {"posting", "quarantine"}
    BY <1>2, <1>a, <1>c DEF Submit, Steps
  <2>3. exch[m] = {}
    BY <1>0, <2>1 DEF Track, Clearing
  <2> QED  BY <1>0, <2>1, <2>2, <2>3, QuietStep, GateStep
<1>3. CASE Post(m)
  <2>1. quoter[m].pc = "posting" /\ local' = local /\ exch[m] = {}
    BY <1>0, <1>3 DEF Post, Track, Clearing
  <2>2. CASE exch' = exch /\ Goto(m, "response")
    BY <1>0, <1>a, <2>1, <2>2 DEF Steps, Track, Tracked, Answered, Clearing, Covered, AtMostOne
  <2>3. CASE \E o \in Orders : /\ exch' = [exch EXCEPT ![m] = @ \union {o}]
                               /\ young' = young \union {o}
                               /\ quoter' = [quoter EXCEPT ![m].pc = "response", ![m].answer = {o}]
    <3>1. PICK o \in Orders : /\ exch' = [exch EXCEPT ![m] = @ \union {o}]
                              /\ young' = young \union {o}
                              /\ quoter' = [quoter EXCEPT ![m].pc = "response", ![m].answer = {o}]
      BY <2>3
    <3>2. exch'[m] = {o} /\ o \in young' /\ quoter'[m].pc = "response" /\ quoter'[m].answer = {o}
      BY <1>0, <2>1, <3>1 DEF Task
    <3>3. Awaited(m)' = {o}
      BY <3>2 DEF Awaited
    <3> QED  BY <3>2, <3>3 DEF Track, Tracked, Answered, Clearing, Covered, AtMostOne
  <2> QED  BY <1>3, <2>2, <2>3 DEF Post
<1>4. CASE Response(m)
  <2>1. /\ quoter[m].pc = "response" /\ exch' = exch /\ young' = young
    BY <1>4 DEF Response
  <2>2. PICK got \in {quoter[m].answer, {}} :
          /\ local' = [local EXCEPT ![m] = @ \union got]
          /\ IF PlacementAllowed(m) /\ got # {} THEN Leave(m) ELSE EnterQuarantine(m)
    BY <1>4 DEF Response
  <2>3. local'[m] = local[m] \union got
    BY <1>0, <2>2
  <2>4. CASE Leave(m) /\ got = quoter[m].answer
    <3>1. Awaited(m) = got /\ Awaited(m)' = {}
      BY <1>b, <2>1, <2>4 DEF Awaited
    <3> QED  BY <1>0, <1>b, <2>1, <2>3, <2>4, <3>1
             DEF Track, Tracked, Answered, Clearing, Covered, AtMostOne, Onward
  <2>5. CASE EnterQuarantine(m)
    BY <1>0, <1>c, <2>1, <2>5
       DEF Track, Tracked, Answered, Clearing, Covered, AtMostOne
  <2> QED  BY <2>2, <2>4, <2>5
<1>5. CASE QuarantineLock(m)
  <2>1. quoter[m].pc = "quarantine" /\ quoter'[m].pc = "cancelling" /\ exch' = exch /\ local' = local
    BY <1>5, <1>a DEF QuarantineLock, Steps
  <2> QED  BY <1>0, <2>1, QuietStep
<1>6. CASE QuarantineCancels(m)
  <2>1. quoter[m].pc = "cancelling" /\ quoter'[m].pc = "refresh" /\ exch'[m] = {}
    BY <1>0, <1>6, <1>a DEF QuarantineCancels, Steps
  <2> QED  BY <1>0, <2>1, QuietStep
<1>7. CASE QuarantineFails(m)
  <2>1. /\ quoter[m].pc = "cancelling" /\ quoter'[m].pc = "idle" /\ exch'[m] \subseteq exch[m]
        /\ local' = local
    BY <1>0, <1>7, <1>b DEF QuarantineFails
  <2> QED  BY <1>0, <2>1, QuietStep
<1> QED  BY <1>1, <1>2, <1>3, <1>4, <1>5, <1>6, <1>7

\* The reconcile loop.
LEMMA ReconTracks ==
  ASSUME Prompt, PInv, Recon
  PROVE  \A m \in Markets : Track(m)'
<1> USE DEF ordersVars, gateVars
<1>0. TInv /\ (\A m \in Markets : Track(m)) /\ recon \in ReconTask
      /\ exch \in [Markets -> SUBSET Orders] /\ local \in [Markets -> SUBSET Orders]
  BY DEF PInv, TInv, TasksTyped, OrdersTyped
<1>1. quoter' = quoter /\ young' = young
  BY DEF Recon, ReconBegin, ReconRead, ReconRefuses, ReconPublish, ReconChecks,
     ReconDiverges, ReconCancelLock, ReconCancelled, ReconLock, ReconCancels, ReconCancelFails
<1>2. /\ \A pc \in {"check", "cancelLock"} : [ReconIdle EXCEPT !.pc = pc].pc = pc
      /\ ReconIdle.pc = "idle"
  BY DEF ReconIdle
<1>3. CASE ReconBegin \/ ReconChecks \/ ReconDiverges \/ ReconRefuses
  <2>1. exch' = exch /\ local' = local /\ (unknown => unknown')
    BY <1>3 DEF ReconBegin, ReconChecks, ReconDiverges, ReconRefuses, ReconRaise
  <2>2. recon'.pc # "locks"
    BY <1>0, <1>2, <1>3
       DEF ReconBegin, ReconChecks, ReconDiverges, ReconRefuses, ReconRaise, ReconTask
  <2> QED  BY <1>0, <1>1, <2>1, <2>2, SteadyKeeps DEF Steady, Onward
<1>4. CASE ReconCancelLock \/ ReconCancelled
  <2>1. exch' = exch /\ local' = local
    BY <1>4 DEF ReconCancelLock, ReconCancelled
  <2>2. unknown => unknown'
    BY <1>4, Zenon DEF ReconCancelLock, ReconCancelled
  <2>3. recon'.pc # "locks"
    <3>1. CASE ReconCancelLock
      BY <1>0, <3>1 DEF ReconCancelLock, ReconTask
    <3>2. CASE ReconCancelled
      BY <1>2, <3>2 DEF ReconCancelled
    <3> QED  BY <1>4, <3>1, <3>2
  <2> QED  BY <1>0, <1>1, <2>1, <2>2, <2>3, SteadyKeeps DEF Steady, Onward
<1>5. CASE \E n \in Markets : ReconCancels(n) \/ ReconCancelFails(n)
  <2>1. /\ unknown' = unknown /\ recon'.pc # "locks"
    BY <1>0, <1>5 DEF ReconCancels, ReconCancelFails, ReconTask
  <2>2. \A m \in Markets : exch'[m] \subseteq exch[m] /\ local[m] \intersect exch'[m] \subseteq local'[m]
    BY <1>0, <1>5 DEF ReconCancels, ReconCancelFails
  <2> QED  BY <1>0, <1>1, <2>1, <2>2, SteadyKeeps DEF Steady, Onward
<1>6. CASE \E n \in Markets : ReconLock(n)
  BY <1>0, <1>1, <1>6, SteadyKeeps DEF ReconLock, Steady, Onward
<1>7. CASE ReconRead
  <2>1. /\ recon.pc = "read" /\ exch' = exch /\ local' = local /\ unknown' = unknown
        /\ recon'.snap = exch
    <3>1. PICK seen \in [Markets -> SUBSET Orders] :
            /\ \A m \in Markets : seen[m] \in Answers(m)
            /\ recon' = [recon EXCEPT !.pc = "locks", !.snap = seen]
      BY <1>7 DEF ReconRead
    <3>2. seen = exch
      BY <1>0, <3>1, AnswersNow
    <3> QED  BY <1>0, <1>7, <3>1, <3>2 DEF ReconRead, ReconTask
  <2>2. ASSUME NEW m \in Markets PROVE Track(m)'
    <3>1. Awaited(m)' = Awaited(m)
      BY <1>1 DEF Awaited
    <3> QED  BY <1>0, <1>1, <2>1, <3>1
             DEF Track, Tracked, Answered, Clearing, Covered, AtMostOne
  <2> QED  BY <2>2
<1>8. CASE ReconPublish
  <2>1. exch' = exch
    BY <1>8 DEF ReconPublish
  <2>2. CASE "recon" \in current
    <3>1. /\ recon'.pc = "check" /\ recon.pc = "locks"
          /\ local' = [m \in Markets |-> Replace(m, recon.snap[m])]
      BY <1>2, <1>8, <2>2 DEF ReconPublish, Prompt
    <3>2. ASSUME NEW m \in Markets PROVE Track(m)'
      <4>1. quoter[m].pc = "idle"
        BY <1>0, <1>8, Names DEF ReconPublish, TInv, Locked, Holds
      <4>2. Awaited(m) = {}
        BY <4>1 DEF Awaited
      <4>3. exch'[m] \subseteq local'[m]
        BY <1>0, <2>1, <2>2, <3>1, <4>2 DEF Track, Covered, Replace
      <4> QED  BY <1>0, <1>1, <2>1, <3>1, <4>1, <4>3
               DEF Track, Tracked, Answered, Clearing, Covered, AtMostOne
    <3> QED  BY <3>2
  <2>3. CASE "recon" \notin current
    <3>1. local' = local /\ unknown' /\ recon'.pc # "locks"
      BY <1>2, <1>8, <2>3 DEF ReconPublish, ReconRaise
    <3> QED  BY <1>0, <1>1, <2>1, <3>1, SteadyKeeps DEF Steady, Onward
  <2> QED  BY <2>2, <2>3
<1> QED  BY <1>3, <1>4, <1>5, <1>6, <1>7, <1>8 DEF Recon

\* The heartbeat that stays up, order events, halts and time.
LEMMA WorldTracks ==
  ASSUME Prompt, PInv, Beat \/ Environment \/ UNCHANGED vars
  PROVE  beat' = beat /\ \A m \in Markets : Track(m)'
<1> USE DEF ordersVars, gateVars
<1>0. TInv /\ (\A m \in Markets : Track(m)) /\ beat.pc = "ok" /\ recon \in ReconTask
      /\ exch \in [Markets -> SUBSET Orders] /\ local \in [Markets -> SUBSET Orders]
  BY DEF PInv, TInv, TasksTyped, OrdersTyped
<1>1. ~Beat /\ ~BeatWipe
  BY <1>0 DEF Beat, BeatDown, BeatRecovers, BeatRead, BeatReadFails, BeatApply, BeatWipe, Prompt,
     TInv, FlagsTyped
<1>2. CASE GlobalHalt \/ (\E n \in Markets : MetaHalt(n) \/ MetaResume(n)) \/ UNCHANGED vars
  <2>1. UNCHANGED <<exch, local, young, unknown, current, quoter, recon, beat>>
    BY <1>2 DEF GlobalHalt, MetaHalt, MetaResume, vars
  <2> QED  BY <1>0, <2>1, SteadyKeeps DEF Steady, Onward
<1>3. ASSUME NEW n \in Markets, NEW o \in Orders, Gone(n, o) \/ OrderLive(n, o) \/ OrderGone(n, o)
      PROVE  beat' = beat /\ \A m \in Markets : Track(m)'
  <2>1. /\ UNCHANGED <<unknown, current, quoter, recon, beat>> /\ young \subseteq young'
        /\ \A m \in Markets :
             exch'[m] \subseteq exch[m] /\ local[m] \intersect exch'[m] \subseteq local'[m]
    BY <1>0, <1>3 DEF Gone, OrderLive, OrderGone
  <2> QED  BY <1>0, <2>1, SteadyKeeps DEF Steady, Onward
<1>4. ASSUME NEW o \in Orders, Age(o)
      PROVE  beat' = beat /\ \A m \in Markets : Track(m)'
  <2>1. UNCHANGED <<exch, local, unknown, current, quoter, recon, beat>> /\ young' = young \ {o}
    BY <1>4 DEF Age
  <2>2. ASSUME NEW m \in Markets PROVE Track(m)'
    <3>1. o \in exch[m] /\ recon.pc = "locks" => o \in recon.snap[m]
      BY <1>4 DEF Age
    <3>2. Awaited(m)' = Awaited(m)
      BY <2>1 DEF Awaited
    <3>3. Covered(m)'
      BY <1>0, <2>1, <3>1, <3>2 DEF Track, Covered
    <3> QED  BY <1>0, <2>1, <3>2, <3>3 DEF Track, Tracked, Answered, Clearing, AtMostOne
  <2> QED  BY <2>1, <2>2
<1> QED  BY <1>1, <1>2, <1>3, <1>4 DEF Environment

\* The invariant holds at first and is kept by every step.
THEOREM TrackInductive ==
  ASSUME Prompt
  PROVE  /\ Init => PInv
         /\ PInv /\ [Next]_vars => PInv'
<1>1. Init => PInv
  <2> SUFFICES ASSUME Init PROVE PInv
    OBVIOUS
  <2>1. TInv
    BY TypesInductive
  <2>2. \A m \in Markets : exch[m] = {} /\ quoter[m] = Idle
    BY DEF Init, NoOrders
  <2>3. recon.pc = "idle" /\ beat.pc = "ok"
    BY DEF Init, ReconIdle, BeatOk
  <2> QED  BY <2>1, <2>2, <2>3, IdleTask
           DEF PInv, Track, Tracked, Answered, Clearing, Covered, AtMostOne
<1>2. ASSUME PInv, [Next]_vars PROVE PInv'
  <2>1. TInv'
    BY <1>2, TypesInductive DEF PInv
  <2>2. ASSUME NEW m \in Markets, Quoter(m)
        PROVE  beat'.pc = "ok" /\ \A n \in Markets : Track(n)'
    <3>1. Track(m)'
      BY <1>2, <2>2, BeforeTheGateTracks, InTheSectionTracks DEF Quoter
    <3>2. \A n \in Markets \ {m} : Track(n)'
      BY <1>2, <2>2, TaskFrame, SteadyKeeps DEF PInv
    <3>3. beat' = beat
      BY <1>2, <2>2, TaskFrame DEF PInv
    <3> QED  BY <1>2, <3>1, <3>2, <3>3 DEF PInv
  <2>3. CASE Recon
    <3>1. beat' = beat
      BY <2>3 DEF Recon, ReconBegin, ReconRead, ReconRefuses, ReconPublish, ReconChecks,
         ReconDiverges, ReconCancelLock, ReconCancelled, ReconLock, ReconCancels, ReconCancelFails
    <3> QED  BY <1>2, <2>1, <2>3, <3>1, ReconTracks DEF PInv
  <2>4. CASE Beat \/ Environment \/ UNCHANGED vars
    BY <1>2, <2>1, <2>4, WorldTracks DEF PInv
  <2> QED  BY <1>2, <2>1, <2>2, <2>3, <2>4 DEF PInv, Next
<1> QED  BY <1>1, <1>2

\* "Never risk an untracked order": while the state is called known every live order is
\* in the local view or its answer is awaited, whatever placements, cancellations,
\* resyncs and snapshots interleave and whatever answers are lost.
THEOREM NoOrderUntracked ==
  ASSUME Prompt
  PROVE  Spec => []UntrackedMeansUnknown
<1>1. PInv => UntrackedMeansUnknown
  BY DEF PInv, Track, Tracked, Awaited, UntrackedMeansUnknown
<1>2. (Init => PInv) /\ (PInv /\ [Next]_vars => PInv')
  BY TrackInductive
<1> QED  BY <1>1, <1>2, PTL DEF Spec

\* The double-order guard: one target, one live order, in any number of markets.
THEOREM OneOrderPerMarket ==
  ASSUME Prompt
  PROVE  Spec => []NoDoubleOrder
<1>1. PInv => NoDoubleOrder
  <2> SUFFICES ASSUME PInv, NEW m \in Markets PROVE Cardinality(exch[m]) <= 1
    BY DEF NoDoubleOrder
  <2>1. \A o, p \in exch[m] : o = p
    BY DEF PInv, Track, AtMostOne
  <2>2. CASE exch[m] = {}
    BY <2>2, FS_EmptySet
  <2>3. CASE exch[m] # {}
    <3>1. PICK o : o \in exch[m]
      BY <2>3
    <3>2. exch[m] = {o}
      BY <2>1, <3>1
    <3> HIDE <3>1
    <3>3. Cardinality({o}) = 1
      BY FS_Singleton
    <3> QED  BY <3>2, <3>3
  <2> QED  BY <2>2, <2>3
<1>2. (Init => PInv) /\ (PInv /\ [Next]_vars => PInv')
  BY TrackInductive
<1> QED  BY <1>1, <1>2, PTL DEF Spec
===============================================================================
