------------------------------ MODULE Parts_proofs ------------------------------
(***************************************************************************)
(* The theorems of Lifecycle and LiveTest, and the types of all the parts  *)
(* that MCParts puts side by side, for every value of their constants.     *)
(*                                                                         *)
(* Lifecycle.  Once the tasks are cancelled a call that still runs is an   *)
(* orphan, and once the assets are, an order that is live is one it or a   *)
(* failed cancellation explains; the pool is waited for before the end.    *)
(*                                                                         *)
(* LiveTest.  The test ends through "close", and what TestCleans asks of   *)
(* the end is true whenever it gets there (Answered); an order it has seen *)
(* is one it knows the id of (Seen).                                       *)
(***************************************************************************)
EXTENDS MCParts, Market_proofs

-------------------------------------------------------------------------------
(* Lifecycle: what shutdown leaves behind *)

\* No call is queued once the tasks are cancelled, and one that runs is an orphan.
Orphaned ==
  life \in {"cancelling", "closing"} => call # "queued" /\ (call = "running" => left # {})

\* An order that is left when the pool is closed has its reason.
Explained == life = "closing" => (live => left # {})

LInv ==
  /\ call \in {"none", "queued", "running"} /\ live \in BOOLEAN
  /\ Orphaned /\ Explained /\ DownExplained

LEMMA EndKeeps ==
  ASSUME LInv, StopAsked \/ GatherRaises \/ CancelTasks \/ CancelAssets \/ Close
  PROVE  LInv'
<1>1. CASE StopAsked
  BY <1>1 DEF StopAsked, LInv, Orphaned, Explained, DownExplained
<1>2. CASE GatherRaises
  BY <1>2 DEF GatherRaises, LInv, Orphaned, Explained, DownExplained
<1>3. CASE CancelTasks
  BY <1>3 DEF CancelTasks, LInv, Orphaned, Explained, DownExplained
<1>4. CASE CancelAssets
  BY <1>4 DEF CancelAssets, LInv, Orphaned, Explained, DownExplained
<1>5. CASE Close
  BY <1>5 DEF Close, LInv, Orphaned, Explained, DownExplained
<1> QED  BY <1>1, <1>2, <1>3, <1>4, <1>5

LEMMA CallKeeps ==
  ASSUME LInv, PlaceBegins \/ CallRuns \/ CallReturns \/ Dies \/ DeadManFires
  PROVE  LInv'
<1>1. CASE PlaceBegins
  BY <1>1 DEF PlaceBegins, LInv, Orphaned, Explained, DownExplained
<1>2. CASE CallRuns
  BY <1>2 DEF CallRuns, LInv, Orphaned, Explained, DownExplained
<1>3. CASE CallReturns
  BY <1>3 DEF CallReturns, LInv, Orphaned, Explained, DownExplained
<1>4. CASE Dies
  BY <1>4 DEF Dies, LInv, Orphaned, Explained, DownExplained
<1>5. CASE DeadManFires
  BY <1>5 DEF DeadManFires, LInv, Orphaned, Explained, DownExplained
<1> QED  BY <1>1, <1>2, <1>3, <1>4, <1>5

\* What happens while the process starts and runs leaves the end alone.
LEMMA RunKeeps ==
  ASSUME LInv,
         \/ StartBeat \/ Spawn \/ StartFails \/ Beat \/ HeartbeatExits
         \/ \E t \in {"heartbeat", "other"} : TaskRaises(t) \/ Supervise(t)
  PROVE  LInv'
<1>1. life' \in {"spawn", "running", "stopping"} /\ UNCHANGED <<call, live, left>>
  BY DEF StartBeat, Spawn, Spawned, StartFails, Beat, HeartbeatExits, TaskRaises, Supervise,
         Restarted
<1> QED  BY <1>1 DEF LInv, Orphaned, Explained, DownExplained

\* The invariant holds at first and is kept by every step.
THEOREM EndInductive ==
  /\ LifeInit => LInv
  /\ LInv /\ [LifeNext]_lifeVars => LInv'
<1>1. LifeInit => LInv
  BY DEF LifeInit, LifeStart, LInv, Orphaned, Explained, DownExplained
<1>2. LInv /\ [LifeNext]_lifeVars => LInv'
  <2> SUFFICES ASSUME LInv, [LifeNext]_lifeVars PROVE LInv'
    OBVIOUS
  <2>1. CASE UNCHANGED lifeVars
    BY <2>1 DEF lifeVars, LInv, Orphaned, Explained, DownExplained
  <2> QED  BY <2>1, RunKeeps, CallKeeps, EndKeeps DEF LifeNext
<1> QED  BY <1>1, <1>2

\* Whatever shutdown interrupts: once the engine is down no worker of the pool can post
\* any more, and an order outlives it only if its post was in a worker's hands when its
\* task was cancelled, or the cancellation of the assets failed.
THEOREM EndIsExplained == LifeSpec => []DownExplained
<1>1. LifeInit => LInv
  BY EndInductive
<1>2. LInv /\ [LifeNext]_lifeVars => LInv'
  BY EndInductive
<1>3. LInv => DownExplained
  BY DEF LInv
<1> QED  BY <1>1, <1>2, <1>3, PTL DEF LifeSpec

-------------------------------------------------------------------------------
(* LiveTest: what the round trip leaves behind *)

\* An order that rests has been reported or could not be seen, and a posted one led to
\* a verdict.
Answered ==
  test \in {"close", "done"} =>
    /\ Resting => outcome = "critical" \/ excuses # {}
    /\ trial = "none" \/ outcome # "none"

Seen ==
  /\ seen => known /\ trial \in {"live", "over"}
  /\ test = "observe" => known

TInv ==
  /\ test = "start" => trial = "none"
  /\ Answered /\ Seen

\* The exchange: an order that is taken after the last look has the excuse "late".
LEMMA ExchangeKeeps ==
  ASSUME TInv, Arrives \/ TrialEnds
  PROVE  TInv'
  BY DEF TInv, Answered, Seen, Arrives, TrialEnds, Resting

LEMMA TrialKeeps ==
  ASSUME TInv, PlaceTrial \/ RefuseTrial \/ Placed \/ ObserveResting
  PROVE  TInv'
<1>1. CASE PlaceTrial
  BY <1>1 DEF PlaceTrial, TInv, Answered, Seen, Resting
<1>2. CASE RefuseTrial
  BY <1>2 DEF RefuseTrial, TInv, Answered, Seen, Resting
<1>3. CASE Placed
  BY <1>3 DEF Placed, TInv, Answered, Seen, Resting, MayShow
<1>4. CASE ObserveResting
  BY <1>4 DEF ObserveResting, TInv, Answered, Seen, Resting, MayShow
<1> QED  BY <1>1, <1>2, <1>3, <1>4

\* A cleanup ends with the answer that nothing is left, or with a report.
LEMMA CleanupKeeps ==
  ASSUME TInv, CancelById \/ NoId \/ CancelAsset \/ Clear \/ NotClear
  PROVE  TInv'
<1>1. CASE CancelById
  BY <1>1 DEF CancelById, Removed, TInv, Answered, Seen, Resting
<1>2. CASE NoId
  BY <1>2 DEF NoId, TInv, Answered, Seen, Resting
<1>3. CASE CancelAsset
  BY <1>3 DEF CancelAsset, NextRound, Removed, TInv, Answered, Seen, Resting
<1>4. CASE Clear
  BY <1>4 DEF Clear, TInv, Answered, Seen, Resting
<1>5. CASE NotClear
  BY <1>5 DEF NotClear, NextRound, TInv, Answered, Seen, Resting
<1> QED  BY <1>1, <1>2, <1>3, <1>4, <1>5

LEMMA TestEndKeeps ==
  ASSUME TInv, CloseTest \/ CtrlC \/ CtrlCAgain
  PROVE  TInv'
<1>1. CASE CloseTest
  BY <1>1 DEF CloseTest, TInv, Answered, Seen, Resting
<1>2. CASE CtrlC
  BY <1>2 DEF CtrlC, Shielded, TInv, Answered, Seen, Resting
<1>3. CASE CtrlCAgain
  BY <1>3 DEF CtrlCAgain, Shielded, TInv, Answered, Seen, Resting
<1> QED  BY <1>1, <1>2, <1>3

\* The invariant holds at first and is kept by every step.
THEOREM TestInductive ==
  /\ TestInit => TInv
  /\ TInv /\ [TestNext]_testVars => TInv'
<1>1. TestInit => TInv
  BY DEF TestInit, TInv, Answered, Seen, Resting
<1>2. TInv /\ [TestNext]_testVars => TInv'
  <2> SUFFICES ASSUME TInv, [TestNext]_testVars PROVE TInv'
    OBVIOUS
  <2>1. CASE UNCHANGED testVars
    BY <2>1 DEF testVars, TInv, Answered, Seen, Resting
  <2> QED  BY <2>1, ExchangeKeeps, TrialKeeps, CleanupKeeps, TestEndKeeps DEF TestNext
<1> QED  BY <1>1, <1>2

\* Whichever call fails or lags and whenever Ctrl-C comes, for any number of attempts: a
\* test that ended left nothing at the exchange, reported it, or could not have seen it.
THEOREM TestIsClean == TestSpec => []TestCleans
<1>1. TestInit => TInv
  BY TestInductive
<1>2. TInv /\ [TestNext]_testVars => TInv'
  BY TestInductive
<1>3. TInv => TestCleans
  BY DEF TInv, Answered, Seen, TestCleans
<1> QED  BY <1>1, <1>2, <1>3, PTL DEF TestSpec

-------------------------------------------------------------------------------
(* Lifecycle and LiveTest: types *)

LifeState ==
  /\ life \in {"start", "spawn", "running", "stopping", "cancelling", "closing", "down", "crashed"}
  /\ task \in [Tasks -> {"none", "run"} \union Dead]
  /\ watched \subseteq Tasks /\ deaths \in 0 .. MaxDeaths
  /\ left \subseteq {"orphan", "failed"}

LifeBits ==
  /\ beating \in BOOLEAN /\ doomed \in BOOLEAN /\ placing \in BOOLEAN
  /\ live \in BOOLEAN /\ armed \in BOOLEAN /\ missed \in BOOLEAN

\* The placement lock is held exactly while its call is waited for, and by nobody once
\* the tasks are cancelled.
LifeLock ==
  /\ call \in {"none", "queued", "running"}
  /\ placing => call # "none"
  /\ call # "none" => placing \/ left # {}
  /\ life \in {"cancelling", "closing"} => ~placing

LifeTyped == LifeState /\ LifeBits /\ LifeLock

LEMMA LifeStateKept ==
  ASSUME LifeState, [LifeNext]_lifeVars
  PROVE  LifeState'
<1> USE DEF LifeState, Dead
<1>1. CASE StartBeat \/ StartFails \/ StopAsked \/ GatherRaises \/ Dies
  BY <1>1 DEF StartBeat, StartFails, StopAsked, GatherRaises, Dies
<1>2. CASE Spawn
  BY <1>2 DEF Spawn, Spawned
<1>3. CASE Beat \/ PlaceBegins \/ CallRuns \/ CallReturns \/ DeadManFires \/ UNCHANGED lifeVars
  BY <1>3 DEF Beat, PlaceBegins, CallRuns, CallReturns, DeadManFires, lifeVars
<1>4. CASE HeartbeatExits
  BY <1>4 DEF HeartbeatExits
<1>5. ASSUME NEW t \in {"heartbeat", "other"}, TaskRaises(t) PROVE LifeState'
  <2>1. deaths' \in 0 .. MaxDeaths
    BY <1>5, LifeAssumption DEF TaskRaises
  <2>2. task' = [task EXCEPT ![t] = "raised"]
    BY <1>5 DEF TaskRaises
  <2>3. task' \in [Tasks -> {"none", "run"} \union Dead]
    BY <2>2
  <2> QED  BY <1>5, <2>1, <2>3 DEF TaskRaises
<1>6. ASSUME NEW t \in {"heartbeat", "other"}, Supervise(t) PROVE LifeState'
  BY <1>6 DEF Supervise, Restarted
<1>7. CASE CancelTasks
  <2>1. task' = [t \in Tasks |-> IF task[t] = "run" THEN "ended" ELSE task[t]]
    BY <1>7 DEF CancelTasks
  <2>2. task' \in [Tasks -> {"none", "run"} \union Dead]
    BY <2>1
  <2> QED  BY <1>7, <2>2 DEF CancelTasks
<1>8. CASE CancelAssets
  BY <1>8 DEF CancelAssets
<1>9. CASE Close
  BY <1>9 DEF Close
<1> QED
  BY <1>1, <1>2, <1>3, <1>4, <1>5, <1>6, <1>7, <1>8, <1>9 DEF LifeNext

LEMMA LifeBitsKept ==
  ASSUME LifeBits, [LifeNext]_lifeVars
  PROVE  LifeBits'
<1> USE DEF LifeBits
<1>1. CASE UNCHANGED <<beating, doomed, placing, live, armed, missed>>
  BY <1>1
<1>2. CASE StartBeat
  BY <1>2 DEF StartBeat
<1>3. CASE Beat
  BY <1>3 DEF Beat
<1>4. ASSUME NEW t \in {"heartbeat", "other"}, TaskRaises(t) PROVE LifeBits'
  <2>1. (doomed \/ t \in watched) \in BOOLEAN
    OBVIOUS
  <2>2. doomed' \in BOOLEAN
    BY <1>4, <2>1, Zenon DEF TaskRaises
  <2> QED  BY <1>4, <2>2 DEF TaskRaises
<1>5. CASE PlaceBegins
  BY <1>5 DEF PlaceBegins
<1>6. CASE CallReturns
  BY <1>6 DEF CallReturns
<1>7. CASE CancelTasks
  BY <1>7 DEF CancelTasks
<1>8. CASE CancelAssets
  BY <1>8 DEF CancelAssets
<1>9. CASE Dies
  BY <1>9 DEF Dies
<1>10. CASE DeadManFires
  BY <1>10 DEF DeadManFires
<1> QED
  BY <1>1, <1>2, <1>3, <1>4, <1>5, <1>6, <1>7, <1>8, <1>9, <1>10
     DEF LifeNext, Spawn, Spawned, StartFails, HeartbeatExits, Supervise, Restarted, CallRuns,
         StopAsked, GatherRaises, Close, lifeVars

LEMMA LifeLockKept ==
  ASSUME LifeLock, [LifeNext]_lifeVars
  PROVE  LifeLock'
<1> USE DEF LifeLock
<1>1. CASE UNCHANGED <<call, placing, left>> /\ (life' = life \/ life' \notin {"cancelling", "closing"})
  BY <1>1
<1>2. CASE PlaceBegins
  BY <1>2 DEF PlaceBegins
<1>3. CASE CallRuns
  BY <1>3 DEF CallRuns
<1>4. CASE CallReturns
  BY <1>4 DEF CallReturns
<1>5. CASE CancelTasks
  BY <1>5 DEF CancelTasks
<1>6. CASE CancelAssets
  BY <1>6 DEF CancelAssets
<1>7. CASE Close
  BY <1>7 DEF Close
<1>8. CASE Dies
  BY <1>8 DEF Dies
<1>9. ASSUME \/ StartBeat \/ Spawn \/ StartFails \/ Beat \/ HeartbeatExits \/ StopAsked
             \/ GatherRaises \/ DeadManFires \/ UNCHANGED lifeVars
             \/ \E t \in {"heartbeat", "other"} : TaskRaises(t) \/ Supervise(t)
      PROVE  LifeLock'
  <2>1. UNCHANGED <<call, placing, left>> /\ (life' = life \/ life' \notin {"cancelling", "closing"})
    BY <1>9 DEF StartBeat, Spawn, Spawned, StartFails, Beat, HeartbeatExits, StopAsked,
                GatherRaises, DeadManFires, lifeVars, TaskRaises, Supervise, Restarted
  <2> QED  BY <1>1, <2>1
<1> QED  BY <1>2, <1>3, <1>4, <1>5, <1>6, <1>7, <1>8, <1>9 DEF LifeNext

LEMMA LifeAllTyped ==
  /\ LifeInit => LifeTyped
  /\ LifeTyped /\ [LifeNext]_lifeVars => LifeTyped'
<1>1. LifeInit => LifeTyped
  <2> SUFFICES ASSUME LifeInit PROVE LifeTyped
    OBVIOUS
  <2>1. LifeState
    BY LifeAssumption DEF LifeInit, LifeStart, LifeState, Dead
  <2>2. LifeBits
    BY DEF LifeInit, LifeStart, LifeBits
  <2>3. LifeLock
    BY DEF LifeInit, LifeStart, LifeLock
  <2> QED  BY <2>1, <2>2, <2>3 DEF LifeTyped
<1>2. LifeTyped /\ [LifeNext]_lifeVars => LifeTyped'
  BY LifeStateKept, LifeBitsKept, LifeLockKept DEF LifeTyped
<1> QED  BY <1>1, <1>2

LEMMA LifeTypesImply == LifeTyped => LifeTypeOK
  BY DEF LifeTyped, LifeState, LifeBits, LifeLock, LifeTypeOK

\* A loop that is under way has an attempt left.
Counted ==
  /\ rounds \in 0 .. AssetRounds /\ tries \in 0 .. Readbacks + IdConfirms + AssetConfirms
  /\ test \in {"observe", "confirm", "confirmAsset"} => tries > 0
  /\ test \in Shielded \union {"start", "observe"} => rounds > 0

TestFlags ==
  /\ test \in Shielded \union {"off", "start", "observe", "close", "done", "spin"}
  /\ trial \in {"none", "flying", "refused", "live", "over"}
  /\ known \in BOOLEAN /\ seen \in BOOLEAN
  /\ outcome \in {"none", "clean", "critical"} /\ ctrlC \in 0 .. 2
  /\ excuses \subseteq {"late", "lag"}

TestTyped == Counted /\ TestFlags

LEMMA TestConstants ==
  /\ Readbacks \in Nat \ {0} /\ IdConfirms \in Nat \ {0}
  /\ AssetConfirms \in Nat \ {0} /\ AssetRounds \in Nat \ {0}
  BY TestAssumption

LEMMA FlagsKept ==
  ASSUME TestFlags, [TestNext]_testVars
  PROVE  TestFlags'
<1> USE DEF TestFlags, Shielded
<1>1. CASE Arrives
  BY <1>1 DEF Arrives
<1>2. CASE TrialEnds
  BY <1>2 DEF TrialEnds, Resting
<1>3. CASE PlaceTrial \/ RefuseTrial
  BY <1>3 DEF PlaceTrial, RefuseTrial
<1>4. CASE Placed
  BY <1>4 DEF Placed, MayShow
<1>5. CASE ObserveResting
  BY <1>5 DEF ObserveResting, MayShow
<1>6. CASE CancelById \/ NoId
  BY <1>6 DEF CancelById, NoId, Removed, Resting
<1>7. CASE CancelAsset
  BY <1>7 DEF CancelAsset, NextRound, Removed, Resting
<1>8. CASE Clear
  BY <1>8 DEF Clear, Resting
<1>9. CASE NotClear
  BY <1>9 DEF NotClear, NextRound
<1>10. CASE CloseTest
  BY <1>10 DEF CloseTest
<1>11. CASE CtrlC
  BY <1>11 DEF CtrlC
<1>12. CASE CtrlCAgain
  BY <1>12 DEF CtrlCAgain
<1>13. CASE UNCHANGED testVars
  BY <1>13 DEF testVars
<1> QED
  BY <1>1, <1>2, <1>3, <1>4, <1>5, <1>6, <1>7, <1>8, <1>9, <1>10, <1>11, <1>12, <1>13
     DEF TestNext

LEMMA CountsKept ==
  ASSUME Counted, [TestNext]_testVars
  PROVE  Counted'
<1> USE TestConstants DEF Counted, Shielded
<1>1. CASE UNCHANGED <<test, tries, rounds>>
  BY <1>1
<1>2. CASE PlaceTrial \/ RefuseTrial
  BY <1>2 DEF PlaceTrial, RefuseTrial
<1>3. CASE Placed
  BY <1>3 DEF Placed
<1>4. CASE ObserveResting
  BY <1>4 DEF ObserveResting
<1>5. CASE CancelById \/ NoId
  BY <1>5 DEF CancelById, NoId
<1>6. CASE CancelAsset
  BY <1>6 DEF CancelAsset, NextRound
<1>7. CASE Clear
  BY <1>7 DEF Clear
<1>8. CASE NotClear
  BY <1>8 DEF NotClear, NextRound
<1>9. CASE CloseTest
  BY <1>9 DEF CloseTest
<1>10. CASE CtrlC
  BY <1>10 DEF CtrlC
<1>11. CASE CtrlCAgain
  BY <1>11 DEF CtrlCAgain
<1> QED
  BY <1>1, <1>2, <1>3, <1>4, <1>5, <1>6, <1>7, <1>8, <1>9, <1>10, <1>11
     DEF TestNext, Arrives, TrialEnds, testVars

LEMMA TestAllTyped ==
  /\ TestInit => TestTyped
  /\ TestTyped /\ [TestNext]_testVars => TestTyped'
<1>1. TestInit => TestTyped
  <2> SUFFICES ASSUME TestInit PROVE TestTyped
    OBVIOUS
  <2>1. Counted
    BY TestConstants DEF TestInit, Counted
  <2>2. TestFlags
    <3>1. ctrlC \in 0 .. 2 /\ excuses \subseteq {"late", "lag"}
      BY DEF TestInit
    <3>2. /\ test \in Shielded \union {"off", "start", "observe", "close", "done", "spin"}
          /\ trial \in {"none", "flying", "refused", "live", "over"}
          /\ outcome \in {"none", "clean", "critical"}
          /\ known \in BOOLEAN /\ seen \in BOOLEAN
      BY DEF TestInit
    <3> QED  BY <3>1, <3>2 DEF TestFlags
  <2> QED  BY <2>1, <2>2 DEF TestTyped
<1>2. TestTyped /\ [TestNext]_testVars => TestTyped'
  BY FlagsKept, CountsKept DEF TestTyped
<1> QED  BY <1>1, <1>2

LEMMA TestTypesImply == TestTyped => TestTypeOK
  BY DEF TestTyped, Counted, TestFlags, TestTypeOK

-------------------------------------------------------------------------------
(* The parts side by side *)

PartsInv ==
  /\ part = "feed" => FInv
  /\ part = "regime" => RegimeTypeOK
  /\ part = "reward" => RewardInv
  /\ part = "life" => LifeTyped
  /\ part = "test" => TestTyped

\* The part that moves keeps its own types, and the others are not asked.
LEMMA PartsStep ==
  ASSUME PartsInv, [PartsNext]_partsVars
  PROVE  PartsInv'
<1>1. part' = part
  BY DEF PartsNext, partsVars
<1>2. ASSUME part = "feed" PROVE FInv'
  <2>1. [FeedNext]_feedVars
    BY <1>2 DEF PartsNext, partsVars
  <2> QED  BY <1>2, <2>1, FeedStep DEF PartsInv
<1>3. ASSUME part = "regime" PROVE RegimeTypeOK'
  <2>1. [RegimeNext]_regimeVars
    BY <1>3 DEF PartsNext, partsVars
  <2> QED  BY <1>3, <2>1, RegimeTypesInductive DEF PartsInv
<1>4. ASSUME part = "reward" PROVE RewardInv'
  <2>1. [RewardNext]_rewardVars
    BY <1>4 DEF PartsNext, partsVars
  <2> QED  BY <1>4, <2>1, RewardInductive DEF PartsInv
<1>5. ASSUME part = "life" PROVE LifeTyped'
  <2>1. [LifeNext]_lifeVars
    BY <1>5 DEF PartsNext, partsVars
  <2> QED  BY <1>5, <2>1, LifeAllTyped DEF PartsInv
<1>6. ASSUME part = "test" PROVE TestTyped'
  <2>1. [TestNext]_testVars
    BY <1>6 DEF PartsNext, partsVars
  <2> QED  BY <1>6, <2>1, TestAllTyped DEF PartsInv
<1> QED  BY <1>1, <1>2, <1>3, <1>4, <1>5, <1>6 DEF PartsInv

\* The types of every part, whichever moves: the process and its lock, the test and its
\* attempts, the feed, the regime machine and the reward refresh.
THEOREM PartsTypesCorrect == PartsSpec => []PartsTypeOK
<1>1. PartsInit => PartsInv
  BY FeedStart, RegimeTypesInductive, RewardInductive, LifeAllTyped, TestAllTyped
     DEF PartsInit, PartsInv
<1>2. PartsInv /\ [PartsNext]_partsVars => PartsInv'
  BY PartsStep
<1>3. PartsInv => PartsTypeOK
  BY FeedTypesImply, TypedImplies, TestTypesImply, LifeTypesImply
     DEF PartsInv, PartsTypeOK, RewardInv
<1> QED  BY <1>1, <1>2, <1>3, PTL DEF PartsSpec
===============================================================================
