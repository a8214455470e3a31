------------------------ MODULE AuthoritativeSync_proofs ------------------------
(***************************************************************************)
(* Proofs about AuthoritativeSync.  The types come first: positions are    *)
(* never negative, and of a token no more fills wait to confirm than the   *)
(* ledger counts, so the guards stay bounded whatever the stream repeats   *)
(* or a crash forgets.  Then the retained proof: PrInv says at which       *)
(* places of the cycle the snapshot has been compared with the proof or    *)
(* with the chain's answer, the one fact Publish relies on when it drops   *)
(* the proof.  Last, what makes the engine resume.                         *)
(*                                                                         *)
(* The one assumption is that there are finitely many legs, which bounds   *)
(* the guards; Tokens may be any set.                                      *)
(***************************************************************************)
EXTENDS AuthoritativeSync, FiniteSetTheorems, TLAPS

-------------------------------------------------------------------------------
(* Types *)

Steps == {"idle", "history", "legs", "replayed", "positions", "judge", "balances", "verify",
          "orders", "check", "chain", "diverge"}
Cycles == [pc : Steps, todo : SUBSET Legs, replay : BOOLEAN, moved : BOOLEAN,
           settled : SUBSET Legs, answer : [Tokens -> Nat], snap : [Tokens -> Nat],
           asked : SUBSET Tokens]

ExchangeTyped ==
  /\ status \in [Legs -> {"none", "matched", "mined", "confirmed", "failed"}]
  /\ chain \in [Tokens -> Nat] /\ rest \in [Tokens -> Nat] /\ forgotten \subseteq Legs

\* Every guard was set by a leg that was counted then.
LedgerTyped ==
  /\ counted \subseteq Legs /\ reversed \subseteq counted /\ ledger \in [Tokens -> Int]
  /\ applied \subseteq counted \ reversed
  /\ inflight \in [Tokens -> Nat] /\ \A t \in Tokens : inflight[t] <= Cardinality(counted)

PosTyped == pos \in [Tokens -> Nat]

RecordsTyped ==
  /\ baseline \in [Tokens -> Int] /\ initialized \in BOOLEAN
  /\ proof \in [Tokens -> Nat \union {NoProof}] /\ pending \subseteq Legs

CycleTyped ==
  /\ online \in BOOLEAN /\ unknown \in BOOLEAN
  /\ cycle \in Cycles /\ cycle.todo \subseteq pending

Typed == ExchangeTyped /\ LedgerTyped /\ PosTyped /\ RecordsTyped /\ CycleTyped

\* What the assumption on the constants says of the sizes.
LEMMA Sizes ==
  /\ LegSize \in Nat \ {0} /\ Grain \in Nat \ {0} /\ Dust \in Nat \ {0} /\ Drift \in Nat
  /\ TokenOf \in [Legs -> Tokens] /\ Start \in [Tokens -> Nat] /\ Transfers \subseteq Nat
  BY SyncAssumption

\* What the exchange serves of a size is a size.
LEMMA Truncated ==
  ASSUME NEW n \in Nat
  PROVE  n - (n % Grain) \in Nat /\ n - (n % Grain) <= n
<1>1. n % Grain \in 0 .. Grain - 1 /\ n = Grain * (n \div Grain) + (n % Grain) /\ n \div Grain \in Int
  BY Sizes
<1>2. n \div Grain >= 0
  BY Sizes
<1>3. Grain * (n \div Grain) >= 0
  BY Sizes, <1>1, <1>2
<1> QED  BY <1>1, <1>3, Sizes

\* The size of a number of legs is a size.
LEMMA Product ==
  ASSUME IsFiniteSet(Legs), NEW S \in SUBSET Legs
  PROVE  LegSize * Cardinality(S) \in Nat
<1>1. Cardinality(S) \in Nat
  BY FS_Subset, FS_CardinalityType
<1> QED  BY <1>1, Sizes

\* One more fill raises what may be guarded.
LEMMA OneMore ==
  ASSUME IsFiniteSet(Legs), LedgerTyped, NEW l \in Legs
  PROVE  /\ Cardinality(counted) \in Nat
         /\ Cardinality(counted \union {l}) \in Nat
         /\ Cardinality(counted \union {l}) >= Cardinality(counted)
         /\ l \notin counted => Cardinality(counted \union {l}) = Cardinality(counted) + 1
<1>1. IsFiniteSet(counted) /\ IsFiniteSet(counted \union {l})
  BY FS_Subset, FS_AddElement DEF LedgerTyped
<1>2. Cardinality(counted) \in Nat /\ Cardinality(counted \union {l}) \in Nat
  BY <1>1, FS_CardinalityType
<1>3. CASE l \in counted
  BY <1>2, <1>3, counted \union {l} = counted
<1>4. CASE l \notin counted
  BY <1>1, <1>2, <1>4, FS_AddElement
<1> QED  BY <1>3, <1>4

\* A fill, a confirmation or a reversal keeps the ledger and the positions typed: the
\* position is clamped at zero, and a guard is only set together with a new fill.
LEMMA FillTyped ==
  ASSUME IsFiniteSet(Legs), LedgerTyped, PosTyped, NEW l \in Legs,
         OnMatched(l) \/ OnConfirmed(l) \/ OnFailed(l)
  PROVE  LedgerTyped' /\ PosTyped'
<1> USE DEF LedgerTyped, PosTyped, CountFill, ReverseFill
<1>1. TokenOf[l] \in Tokens /\ Signed(l) \in Int
  BY Sizes DEF Signed
<1>2. ASSUME NEW t \in Tokens, NEW n \in Int, AddToPosition(t, n) PROVE PosTyped'
  BY <1>2 DEF AddToPosition, Clamp
<1>3. /\ Cardinality(counted) \in Nat /\ Cardinality(counted \union {l}) \in Nat
      /\ Cardinality(counted \union {l}) >= Cardinality(counted)
      /\ l \notin counted => Cardinality(counted \union {l}) = Cardinality(counted) + 1
  BY OneMore
<1>4. ASSUME inflight' = Released(TokenOf[l])
      PROVE  inflight' \in [Tokens -> Nat] /\ \A t \in Tokens : inflight'[t] <= inflight[t]
  BY <1>1, <1>4 DEF Released
<1>5. CASE OnMatched(l)
  <2>1. PosTyped'
    BY <1>1, <1>2, <1>5 DEF OnMatched
  <2>2. ledger' \in [Tokens -> Int] /\ counted' = counted \union {l} /\ reversed' = reversed
        /\ applied' = applied \union {l} /\ l \notin counted
    BY <1>1, <1>5 DEF OnMatched
  <2>3. inflight' \in [Tokens -> Nat] /\ \A t \in Tokens : inflight'[t] <= inflight[t] + 1
    BY <1>1, <1>5 DEF OnMatched
  <2> QED  BY <1>3, <2>1, <2>2, <2>3
<1>6. CASE OnConfirmed(l)
  <2>1. CASE l \in applied /\ applied' = applied \ {l} /\ inflight' = Released(TokenOf[l])
             /\ UNCHANGED <<ledgerVars, pos>>
    BY <1>3, <1>4, <2>1 DEF ledgerVars
  <2>2. CASE l \notin counted /\ CountFill(l) /\ AddToPosition(TokenOf[l], Signed(l))
             /\ UNCHANGED guardVars
    <3>1. PosTyped'
      BY <1>1, <1>2, <2>2
    <3>2. ledger' \in [Tokens -> Int] /\ counted' = counted \union {l} /\ reversed' = reversed
          /\ applied' = applied /\ inflight' = inflight
      BY <1>1, <2>2 DEF guardVars
    <3> QED  BY <1>3, <3>1, <3>2
  <2> QED  BY <1>6, <2>1, <2>2 DEF OnConfirmed
<1>7. CASE OnFailed(l)
  <2>1. PosTyped'
    BY <1>1, <1>2, <1>7 DEF OnFailed
  <2>2. ledger' \in [Tokens -> Int] /\ counted' = counted /\ reversed' = reversed \union {l}
        /\ applied' = applied \ {l} /\ l \in applied /\ inflight' = Released(TokenOf[l])
    BY <1>1, <1>7 DEF OnFailed
  <2> QED  BY <1>3, <1>4, <2>1, <2>2
<1> QED  BY <1>5, <1>6, <1>7

\* What a crash leaves in memory.
LEMMA LostTyped ==
  ASSUME MemoryLost
  PROVE  /\ applied' = {} /\ inflight' \in [Tokens -> Nat] /\ \A t \in Tokens : inflight'[t] = 0
         /\ online' = FALSE /\ unknown' = FALSE /\ cycle' = Idle /\ UNCHANGED exchangeVars
  BY DEF MemoryLost

\* The cycle that waits, and the one whose check is due.
LEMMA IdleTyped ==
  /\ Idle \in Cycles /\ Idle.pc = "idle" /\ Idle.todo = {} /\ Idle.replay = FALSE
  /\ [Idle EXCEPT !.pc = "check"] \in Cycles /\ [Idle EXCEPT !.pc = "check"].todo = {}
  /\ [Idle EXCEPT !.pc = "check"].pc = "check"
  BY DEF Idle, Cycles, Steps, NoAnswer

\* The exchange and the chain keep their types; nobody else writes them.
LEMMA ExchangeStays ==
  ASSUME IsFiniteSet(Legs), Typed, [Next]_vars
  PROVE  ExchangeTyped'
<1> USE DEF ExchangeTyped
<1>0. ExchangeTyped
  BY DEF Typed
<1>1. CASE UNCHANGED exchangeVars
  BY <1>0, <1>1 DEF exchangeVars
<1>2. ASSUME NEW l \in Legs, Match(l) \/ Mine(l) \/ Settle(l) \/ Forget(l) PROVE ExchangeTyped'
  <2>1. TokenOf[l] \in Tokens /\ Signed(l) \in Int
    BY Sizes DEF Signed
  <2>2. CASE Mine(l)
    BY <1>0, <2>1, <2>2 DEF Mine
  <2> QED  BY <1>0, <1>2, <2>2 DEF Match, Settle, Forget
<1>3. ASSUME NEW t \in Tokens, RestCatchUp(t) PROVE ExchangeTyped'
  <2>1. PICK unseen \in SUBSET {l \in Legs : TokenOf[l] = t /\ status[l] = "mined"} :
          rest' = [rest EXCEPT ![t] = chain[t]
                     - LegSize * Cardinality(unseen \intersect Buys)
                     + LegSize * Cardinality(unseen \ Buys)]
    BY <1>3 DEF RestCatchUp
  <2> DEFINE a == LegSize * Cardinality(unseen \intersect Buys)
             b == LegSize * Cardinality(unseen \ Buys)
  <2>2. a \in Nat /\ b \in Nat
    BY Product
  <2> HIDE DEF a, b
  <2>3. rest' = [rest EXCEPT ![t] = chain[t] - a + b] /\ rest'[t] >= 0
    BY <1>3, <2>1 DEF a, b, RestCatchUp
  <2> QED  BY <1>0, <1>3, <2>2, <2>3 DEF RestCatchUp
<1>4. ASSUME NEW t \in Tokens, Transfer(t) PROVE ExchangeTyped'
  BY <1>0, <1>4, Sizes DEF Transfer
<1>5. Exchange \/ UNCHANGED exchangeVars
  BY DEF Next, vars, Cycle, Sync, Check, Begin, SyncPins, SyncLeg, SyncDone, ReadPositions, Judge,
     ReadBalances, VerifyNewer, Replayed, Publish, PublishRefused, ReadFails, CheckSkipped,
     CheckBegins, CheckEnds, Deliver, CrashInFill, ExpireInflight, Crash, CrashInCheck,
     CrashInPublish, MemoryLost
<1> QED  BY <1>1, <1>2, <1>3, <1>4, <1>5 DEF Exchange

\* Another place of the cycle, with the rest of it kept.
LEMMA GotoTyped ==
  ASSUME CycleTyped, NEW pc \in Steps, NEW new, new = [cycle EXCEPT !.pc = pc]
  PROVE  /\ new \in Cycles /\ new.todo = cycle.todo /\ new.pc = pc /\ new.snap = cycle.snap
         /\ new.answer = cycle.answer /\ new.replay = cycle.replay /\ new.moved = cycle.moved
  BY DEF CycleTyped, Cycles

\* A cycle that raises is over and leaves the state unknown.
LEMMA RaiseTyped ==
  ASSUME Raise
  PROVE  cycle' \in Cycles /\ cycle'.todo = {} /\ unknown' = TRUE
  BY IdleTyped DEF Raise

\* A proof or a replay.
LEMMA ProveTyped ==
  ASSUME CycleTyped, ProveOrReplay
  PROVE  cycle' \in Cycles /\ cycle'.todo = cycle.todo
<1>1. CASE cycle' = [cycle EXCEPT !.pc = "history", !.replay = TRUE]
  BY <1>1 DEF CycleTyped, Cycles, Steps
<1>2. CASE Goto("orders")
  BY <1>2, GotoTyped DEF Goto, Steps
<1> QED  BY <1>1, <1>2 DEF ProveOrReplay

\* The proof brings the positions back.
LEMMA RestoredTyped ==
  ASSUME PosTyped, RecordsTyped, RestoreExposure
  PROVE  PosTyped'
  BY DEF PosTyped, RecordsTyped, RestoreExposure, Proved

\* The records and the ledger while neither is written.
LEMMA KeptTyped ==
  /\ LedgerTyped /\ UNCHANGED <<ledgerVars, guardVars>> => LedgerTyped'
  /\ RecordsTyped /\ UNCHANGED recordVars => RecordsTyped'
  /\ PosTyped /\ UNCHANGED pos => PosTyped'
  BY DEF LedgerTyped, RecordsTyped, PosTyped, ledgerVars, guardVars, recordVars

\* The fills of the cycle and of the stream.
LEMMA SyncLegTyped ==
  ASSUME IsFiniteSet(Legs), Typed, NEW l \in Legs, SyncLeg(l)
  PROVE  LedgerTyped' /\ PosTyped' /\ RecordsTyped' /\ CycleTyped'
<1> USE DEF Typed
<1>1. RecordsTyped' /\ online' = online /\ pending' = pending
  BY KeptTyped DEF SyncLeg, recordVars
<1>2. CASE Raise /\ UNCHANGED <<ledgerVars, pos, guardVars>>
  BY <1>1, <1>2, RaiseTyped, KeptTyped DEF CycleTyped
<1>3. CASE /\ cycle' = [cycle EXCEPT !.todo = @ \ {l}, !.settled = @ \union {l}]
           /\ UNCHANGED unknown
           /\ OnConfirmed(l) \/ OnFailed(l) \/ UNCHANGED <<ledgerVars, pos, guardVars>>
  <2>1. LedgerTyped' /\ PosTyped'
    BY <1>3, FillTyped, KeptTyped
  <2>2. cycle' \in Cycles /\ cycle'.todo \subseteq cycle.todo
    BY <1>3 DEF CycleTyped, Cycles
  <2> QED  BY <1>1, <1>3, <2>1, <2>2 DEF CycleTyped
<1>4. \/ Raise /\ UNCHANGED <<ledgerVars, pos, guardVars>>
      \/ /\ cycle' = [cycle EXCEPT !.todo = @ \ {l}, !.settled = @ \union {l}]
         /\ UNCHANGED unknown
         /\ OnConfirmed(l) \/ OnFailed(l) \/ UNCHANGED <<ledgerVars, pos, guardVars>>
  BY DEF SyncLeg
<1> QED  BY <1>2, <1>3, <1>4

\* A message of the stream, which may arrive at any await of the cycle.
LEMMA DeliverTyped ==
  ASSUME IsFiniteSet(Legs), Typed, NEW l \in Legs, Deliver(l)
  PROVE  LedgerTyped' /\ PosTyped' /\ RecordsTyped' /\ CycleTyped'
<1> USE DEF Typed
<1>1. LedgerTyped' /\ PosTyped'
  BY FillTyped DEF Deliver
<1>2. RecordsTyped' /\ online' = online /\ unknown' = unknown /\ pending' = pending
  BY KeptTyped DEF Deliver, recordVars
<1>3. PICK b \in BOOLEAN : cycle' = [cycle EXCEPT !.moved = b]
  <2> DEFINE c == cycle.moved \/ (cycle.pc # "idle" /\ <<counted, reversed>>' # <<counted, reversed>>)
  <2>1. cycle' = [cycle EXCEPT !.moved = c]
    BY DEF Deliver
  <2>2. c \in BOOLEAN
    OBVIOUS
  <2> QED  BY <2>1, <2>2
<1>4. cycle' \in Cycles /\ cycle'.todo = cycle.todo
  BY <1>3 DEF CycleTyped, Cycles
<1> QED  BY <1>1, <1>2, <1>4 DEF CycleTyped

\* The reads of the cycle and its verdicts.
LEMMA CycleStays ==
  ASSUME IsFiniteSet(Legs), Typed, Cycle
  PROVE  LedgerTyped' /\ PosTyped' /\ RecordsTyped' /\ CycleTyped'
<1> USE DEF Typed
<1>0. cycle \in Cycles /\ cycle.snap \in [Tokens -> Nat] /\ cycle.pc \in Steps
  BY DEF CycleTyped, Cycles
<1>1. CASE Begin
  <2>1. LedgerTyped' /\ RecordsTyped' /\ PosTyped'
    BY <1>1, KeptTyped, RestoredTyped DEF Begin
  <2>2. cycle' \in Cycles /\ cycle'.todo = cycle.todo
    BY <1>1, GotoTyped DEF Begin, Goto, Steps
  <2>3. unknown' \in BOOLEAN /\ online' = online /\ pending' = pending
    BY <1>1 DEF Begin, CycleTyped, recordVars
  <2> QED  BY <2>1, <2>2, <2>3 DEF CycleTyped
<1>2. CASE SyncPins
  <2>1. LedgerTyped' /\ PosTyped'
    BY <1>2, KeptTyped DEF SyncPins
  <2>2. PICK seen \in Windows :
          /\ pending' = pending \union seen
          /\ cycle' = [cycle EXCEPT !.pc = "legs", !.settled = {},
                          !.todo = {l \in seen : status[l] \in {"confirmed", "failed"}}]
    BY <1>2 DEF SyncPins
  <2>3. seen \subseteq Legs
    BY DEF Windows, Happened
  <2>4. cycle' \in Cycles /\ cycle'.todo \subseteq pending'
    BY <1>0, <2>2, <2>3 DEF Cycles, Steps
  <2>5. RecordsTyped'
    BY <1>2, <2>2, <2>3 DEF SyncPins, RecordsTyped
  <2> QED  BY <1>2, <2>1, <2>4, <2>5 DEF SyncPins, CycleTyped
<1>3. CASE \E l \in Legs : SyncLeg(l)
  BY <1>3, SyncLegTyped
<1>4. CASE SyncDone
  <2>1. LedgerTyped' /\ PosTyped'
    BY <1>4, KeptTyped DEF SyncDone
  <2>2. cycle' \in Cycles /\ cycle'.todo = {}
    BY <1>0, <1>4 DEF SyncDone, Cycles, Steps
  <2>3. RecordsTyped'
    BY <1>4 DEF SyncDone, RecordsTyped
  <2> QED  BY <1>4, <2>1, <2>2, <2>3 DEF SyncDone, CycleTyped
<1>5. CASE ReadPositions
  <2>1. PICK omitted \in SUBSET Tokens : cycle' = [cycle EXCEPT !.pc = "judge", !.snap =
                   [t \in Tokens |-> IF t \in omitted THEN 0 ELSE rest[t] - (rest[t] % Grain)]]
    BY <1>5 DEF ReadPositions
  <2> DEFINE served == [t \in Tokens |-> IF t \in omitted THEN 0 ELSE rest[t] - (rest[t] % Grain)]
  <2>2. served \in [Tokens -> Nat]
    BY Truncated DEF ExchangeTyped
  <2>3. cycle' = [cycle EXCEPT !.pc = "judge", !.snap = served]
    BY <2>1
  <2> HIDE DEF served
  <2>4. cycle' \in Cycles /\ cycle'.todo = cycle.todo
    BY <1>0, <2>2, <2>3 DEF Cycles, Steps
  <2> QED  BY <1>5, <2>4, KeptTyped DEF ReadPositions, CycleTyped, recordVars
<1>6. CASE Judge
  <2>1. LedgerTyped' /\ RecordsTyped' /\ PosTyped' /\ pending' = pending /\ online' = online
    BY <1>6, KeptTyped, RestoredTyped DEF Judge, recordVars
  <2>2. CASE Raise
    BY <2>1, <2>2, RaiseTyped DEF CycleTyped
  <2>3. CASE ProveOrReplay /\ UNCHANGED unknown
    BY <2>1, <2>3, ProveTyped DEF CycleTyped
  <2>4. CASE Goto("balances") /\ UNCHANGED unknown
    BY <2>1, <2>4, GotoTyped DEF CycleTyped, Goto, Steps
  <2> QED  BY <1>6, <2>2, <2>3, <2>4, <2>1 DEF Judge
<1>7. CASE ReadBalances
  <2>1. PICK pc \in Steps : cycle' = [cycle EXCEPT !.answer = chain, !.pc = pc]
    BY <1>7 DEF ReadBalances, Steps
  <2>2. cycle' \in Cycles /\ cycle'.todo = cycle.todo
    BY <1>0, <2>1 DEF Cycles, ExchangeTyped
  <2> QED  BY <1>7, <2>2, KeptTyped DEF ReadBalances, CycleTyped, recordVars
<1>8. CASE VerifyNewer
  <2>1. LedgerTyped' /\ RecordsTyped' /\ PosTyped' /\ pending' = pending /\ online' = online
    BY <1>8, KeptTyped DEF VerifyNewer, recordVars
  <2>2. CASE Raise
    BY <2>1, <2>2, RaiseTyped DEF CycleTyped
  <2>3. CASE ProveOrReplay /\ UNCHANGED unknown
    BY <2>1, <2>3, ProveTyped DEF CycleTyped
  <2> QED  BY <1>8, <2>2, <2>3 DEF VerifyNewer
<1>9. CASE Replayed
  <2>1. LedgerTyped' /\ RecordsTyped' /\ pending' = pending /\ online' = online
    BY <1>9, KeptTyped DEF Replayed, recordVars
  <2>2. CASE Raise /\ pos' = IF cycle.moved THEN pos ELSE cycle.snap
    <3>1. PosTyped'
      BY <1>0, <2>2 DEF PosTyped
    <3> QED  BY <2>1, <2>2, <3>1, RaiseTyped DEF CycleTyped
  <2>3. CASE Goto("orders") /\ UNCHANGED <<unknown, pos>>
    BY <2>1, <2>3, GotoTyped, KeptTyped DEF CycleTyped, Goto, Steps
  <2> QED  BY <1>9, <2>2, <2>3 DEF Replayed
<1>10. CASE Publish
  <2>1. LedgerTyped'
    BY <1>10, KeptTyped DEF Publish
  <2>2. PublishedPositions \in [Tokens -> Nat]
    BY <1>0 DEF PublishedPositions, PosTyped
  <2>3. PublishedBaseline \in [Tokens -> Int]
    BY <1>0 DEF PublishedBaseline, RecordsTyped, LedgerTyped
  <2>4. PosTyped' /\ RecordsTyped'
    BY <1>10, <2>2, <2>3 DEF Publish, PosTyped, RecordsTyped
  <2>5. cycle' \in Cycles /\ cycle'.todo = {} /\ unknown' = FALSE /\ online' = TRUE
    BY <1>10, IdleTyped DEF Publish
  <2> QED  BY <2>1, <2>4, <2>5 DEF CycleTyped
<1>11. CASE PublishRefused \/ ReadFails
  <2>1. LedgerTyped' /\ RecordsTyped' /\ PosTyped' /\ online' = online /\ Raise
    BY <1>11, KeptTyped DEF PublishRefused, ReadFails
  <2> QED  BY <2>1, RaiseTyped DEF CycleTyped
<1> QED  BY <1>1, <1>2, <1>3, <1>4, <1>5, <1>6, <1>7, <1>8, <1>9, <1>10, <1>11 DEF Cycle, Sync

\* What the check writes is a balance or what was there.
LEMMA CorrectedTyped ==
  ASSUME CycleTyped, PosTyped, RecordsTyped
  PROVE  /\ Corrected(pos) \in [Tokens -> Nat]
         /\ Corrected(proof) \in [Tokens -> Nat \union {NoProof}]
  BY DEF CycleTyped, PosTyped, RecordsTyped, Corrected, Cycles

\* The check of the positions against the chain.
LEMMA CheckStays ==
  ASSUME Typed, Check
  PROVE  LedgerTyped' /\ PosTyped' /\ RecordsTyped' /\ CycleTyped'
<1> USE DEF Typed
<1>0. cycle \in Cycles
  BY DEF CycleTyped
<1>1. CASE CheckSkipped
  BY <1>1, KeptTyped, IdleTyped DEF CheckSkipped, CycleTyped, recordVars
<1>2. CASE CheckBegins
  <2>1. cycle' \in Cycles /\ cycle'.todo = cycle.todo
    BY <1>0, <1>2 DEF CheckBegins, Cycles, Steps
  <2> QED  BY <1>2, <2>1, KeptTyped DEF CheckBegins, CycleTyped, recordVars
<1>3. CASE CheckEnds
  <2>1. LedgerTyped' /\ PosTyped' /\ RecordsTyped'
    BY <1>3, CorrectedTyped, KeptTyped DEF CheckEnds, PosTyped, RecordsTyped
  <2>2. cycle' \in Cycles /\ cycle'.todo = {} /\ online' = online
    BY <1>3, IdleTyped DEF CheckEnds
  <2>3. unknown' = (unknown \/ HasProof \/ Diverged # {})
    BY <1>3 DEF CheckEnds
  <2>4. (unknown \/ HasProof \/ Diverged # {}) \in BOOLEAN
    OBVIOUS
  <2>5. unknown' \in BOOLEAN
    BY <2>3, <2>4, Zenon
  <2> QED  BY <2>1, <2>2, <2>5 DEF CycleTyped
<1> QED  BY <1>1, <1>2, <1>3 DEF Check

\* A crash leaves no guard, and the disk as the action says.
LEMMA CrashTyped ==
  ASSUME IsFiniteSet(Legs), Typed, MemoryLost, counted' \in SUBSET Legs, counted \subseteq counted',
         reversed' \subseteq counted', ledger' \in [Tokens -> Int]
  PROVE  LedgerTyped' /\ CycleTyped'
<1>1. Cardinality(counted') \in Nat
  BY FS_Subset, FS_CardinalityType
<1>2. LedgerTyped'
  BY <1>1, LostTyped DEF LedgerTyped
<1>3. CycleTyped'
  BY LostTyped, IdleTyped DEF CycleTyped
<1> QED  BY <1>2, <1>3

\* What each of the crashes leaves on disk.
LEMMA CrashesStay ==
  ASSUME IsFiniteSet(Legs), Typed,
         Crash \/ CrashInCheck \/ CrashInPublish \/ \E l \in Legs : CrashInFill(l)
  PROVE  LedgerTyped' /\ PosTyped' /\ RecordsTyped' /\ CycleTyped'
<1> USE DEF Typed
<1>0. counted \in SUBSET Legs /\ reversed \subseteq counted /\ ledger \in [Tokens -> Int]
  BY DEF LedgerTyped
<1>1. CASE Crash
  <2>1. MemoryLost /\ UNCHANGED <<ledgerVars, pos, recordVars>>
    BY <1>1 DEF Crash
  <2>2. LedgerTyped' /\ CycleTyped'
    BY <1>0, <2>1, CrashTyped DEF ledgerVars
  <2> QED  BY <2>1, <2>2, KeptTyped
<1>2. CASE CrashInCheck
  <2>1. LedgerTyped' /\ CycleTyped'
    BY <1>0, <1>2, CrashTyped DEF CrashInCheck, ledgerVars
  <2>2. PosTyped' /\ RecordsTyped'
    BY <1>2, CorrectedTyped DEF CrashInCheck, PosTyped, RecordsTyped
  <2> QED  BY <2>1, <2>2
<1>3. CASE CrashInPublish
  <2>1. LedgerTyped' /\ CycleTyped'
    BY <1>0, <1>3, CrashTyped DEF CrashInPublish, ledgerVars
  <2>2. PublishedPositions \in [Tokens -> Nat]
    BY DEF PublishedPositions, PosTyped, CycleTyped, Cycles
  <2>3. PublishedBaseline \in [Tokens -> Int]
    BY DEF PublishedBaseline, RecordsTyped, LedgerTyped, CycleTyped, Cycles
  <2>4. PICK written \in SUBSET Tokens :
       /\ pos' = [t \in Tokens |-> IF t \in written THEN PublishedPositions[t] ELSE pos[t]]
       /\ baseline' = [t \in Tokens |-> IF t \in written THEN PublishedBaseline[t] ELSE baseline[t]]
       /\ initialized' \in {initialized, initialized \/ written = Tokens}
    BY <1>3 DEF CrashInPublish
  <2>5. pos' \in [Tokens -> Nat] /\ baseline' \in [Tokens -> Int]
    BY <2>2, <2>3, <2>4 DEF PosTyped, RecordsTyped
  <2>6. initialized' \in BOOLEAN
    <3>1. (initialized \/ written = Tokens) \in BOOLEAN /\ initialized \in BOOLEAN
      BY DEF RecordsTyped
    <3> QED  BY <2>4, <3>1, Zenon
  <2>7. UNCHANGED <<proof, pending>>
    BY <1>3 DEF CrashInPublish
  <2> QED  BY <2>1, <2>5, <2>6, <2>7 DEF PosTyped, RecordsTyped
<1>4. ASSUME NEW l \in Legs, CrashInFill(l)
      PROVE  LedgerTyped' /\ PosTyped' /\ RecordsTyped' /\ CycleTyped'
  <2>1. TokenOf[l] \in Tokens /\ Signed(l) \in Int
    BY Sizes DEF Signed
  <2>2. MemoryLost /\ UNCHANGED <<pos, recordVars>>
    BY <1>4 DEF CrashInFill
  <2>3. /\ counted' \in SUBSET Legs /\ counted \subseteq counted' /\ reversed' \subseteq counted'
        /\ ledger' \in [Tokens -> Int]
    BY <1>0, <1>4, <2>1 DEF CrashInFill, CountFill, ReverseFill, LedgerTyped
  <2>4. LedgerTyped' /\ CycleTyped'
    BY <2>2, <2>3, CrashTyped
  <2> QED  BY <2>2, <2>4, KeptTyped
<1> QED  BY <1>1, <1>2, <1>3, <1>4

\* The types are inductive: one step for each group of actions.
LEMMA TypesInductive ==
  ASSUME IsFiniteSet(Legs), Typed, [Next]_vars
  PROVE  Typed'
<1>1. ExchangeTyped'
  BY ExchangeStays
<1> SUFFICES LedgerTyped' /\ PosTyped' /\ RecordsTyped' /\ CycleTyped'
  BY <1>1 DEF Typed
<1>2. CASE Exchange \/ UNCHANGED vars
  <2>1. UNCHANGED <<ledgerVars, pos, recordVars, guardVars, online, unknown, cycle>>
    BY <1>2 DEF Exchange, vars
  <2> QED  BY <2>1, KeptTyped DEF Typed, CycleTyped, recordVars
<1>3. CASE Cycle
  BY <1>3, CycleStays
<1>4. CASE Check
  BY <1>4, CheckStays
<1>5. CASE \E l \in Legs : Deliver(l)
  BY <1>5, DeliverTyped
<1>6. CASE \E t \in Tokens : ExpireInflight(t)
  <2>1. PICK t \in Tokens : ExpireInflight(t)
    BY <1>6
  <2>2. inflight' = [inflight EXCEPT ![t] = 0]
        /\ UNCHANGED <<ledgerVars, applied, pos, recordVars, online, unknown, cycle>>
    BY <2>1 DEF ExpireInflight
  <2>3. inflight' \in [Tokens -> Nat] /\ \A u \in Tokens : inflight'[u] <= inflight[u]
    BY <2>2 DEF Typed, LedgerTyped
  <2>4. Cardinality(counted) \in Nat
    BY FS_Subset, FS_CardinalityType DEF Typed, LedgerTyped
  <2>5. LedgerTyped'
    BY <2>2, <2>3, <2>4 DEF Typed, LedgerTyped, ledgerVars
  <2> QED  BY <2>2, <2>5, KeptTyped DEF Typed, CycleTyped, recordVars
<1>7. CASE Crash \/ CrashInCheck \/ CrashInPublish \/ \E l \in Legs : CrashInFill(l)
  BY <1>7, CrashesStay
<1> QED  BY <1>2, <1>3, <1>4, <1>5, <1>6, <1>7 DEF Next

\* They hold of the empty database.
LEMMA TypesHoldInitially ==
  ASSUME IsFiniteSet(Legs), Init
  PROVE  Typed
<1> USE DEF Init
<1>1. ExchangeTyped
  BY Sizes DEF ExchangeTyped
<1>2. LedgerTyped
  BY FS_EmptySet DEF LedgerTyped
<1>3. PosTyped /\ RecordsTyped
  <2>1. proof = [t \in Tokens |-> NoProof] /\ initialized = FALSE
    OBVIOUS
  <2>2. proof \in [Tokens -> Nat \union {NoProof}] /\ initialized \in BOOLEAN
    BY <2>1, Zenon
  <2> QED  BY <2>2 DEF PosTyped, RecordsTyped
<1>4. CycleTyped
  BY IdleTyped DEF CycleTyped
<1> QED  BY <1>1, <1>2, <1>3, <1>4 DEF Typed

\* They imply the type invariant the run checks.
LEMMA TypesImply ==
  ASSUME IsFiniteSet(Legs), Typed
  PROVE  TypeOK
<1>1. Cardinality(counted) \in Nat /\ Cardinality(Legs) \in Nat
      /\ Cardinality(counted) <= Cardinality(Legs)
  BY FS_Subset, FS_CardinalityType DEF Typed, LedgerTyped
<1>2. inflight \in [Tokens -> 0 .. Cardinality(Legs)]
  BY <1>1 DEF Typed, LedgerTyped
<1>3. cycle.snap \in [Tokens -> Nat]
  BY DEF Typed, CycleTyped, Cycles
<1> QED
  BY <1>2, <1>3 DEF TypeOK, Typed, ExchangeTyped, LedgerTyped, PosTyped, RecordsTyped, CycleTyped

\* Positions, proofs, ledger and guards keep their types in every run of the engine, the
\* stream, the exchange and the crashes (TypeOK of the run AuthoritativeSync).
THEOREM TypeCorrect ==
  ASSUME IsFiniteSet(Legs)
  PROVE  Spec => []TypeOK
<1>1. Init => Typed
  BY TypesHoldInitially
<1>2. Typed /\ [Next]_vars => Typed'
  BY TypesInductive
<1>3. Typed => TypeOK
  BY TypesImply
<1> QED  BY <1>1, <1>2, <1>3, PTL DEF Spec

-------------------------------------------------------------------------------
(* The retained proof *)

\* A proof is retained by the check, and the first publication comes before
\* every check; a running check finds none.
Settled == cycle.pc \in {"check", "chain", "diverge"} => initialized /\ ~HasProof
ProvedOnce == HasProof => initialized

\* Past the verdict, and all through the replay, the snapshot says of every
\* proved token what the proof says or what the chain answered.
Past == cycle.pc \in {"orders", "replayed"} \/ (cycle.replay /\ cycle.pc \in {"history", "legs"})
Judged == Past => \A t \in Proved : cycle.snap[t] \in {proof[t], cycle.answer[t]}

\* No cycle begins as a replay.
Fresh == cycle.pc = "idle" => ~cycle.replay

PrInv == Typed /\ Settled /\ ProvedOnce /\ Judged /\ Fresh

\* While the records stay, only the cycle can disturb the three.
LEMMA ProofFrame ==
  ASSUME PrInv, UNCHANGED <<initialized, proof>>
  PROVE  /\ HasProof' = HasProof /\ Proved' = Proved /\ ProvedOnce'
         /\ cycle'.pc \notin {"check", "chain", "diverge"} => Settled'
         /\ cycle.pc \in {"check", "chain", "diverge"} => Settled'
  BY DEF PrInv, HasProof, Proved, ProvedOnce, Settled

\* A cycle that is over or in its reads has judged nothing yet.
LEMMA Unjudged ==
  ASSUME PrInv, UNCHANGED <<initialized, proof>>,
         \/ cycle' = Idle
         \/ ~Past' /\ cycle'.pc \notin {"idle", "check", "chain", "diverge"}
  PROVE  Settled' /\ ProvedOnce' /\ Judged' /\ Fresh'
<1>1. CASE cycle' = Idle
  BY <1>1, ProofFrame, IdleTyped DEF Judged, Fresh, Past
<1>2. CASE ~Past' /\ cycle'.pc \notin {"idle", "check", "chain", "diverge"}
  BY <1>2, ProofFrame DEF Judged, Fresh
<1> QED  BY <1>1, <1>2

\* A verdict.
LEMMA Verdict ==
  ASSUME PrInv, UNCHANGED <<initialized, proof>>, ProveOrReplay,
         \A t \in Proved : cycle.snap[t] \in {proof[t], cycle.answer[t]}
  PROVE  Settled' /\ ProvedOnce' /\ Judged' /\ Fresh'
<1>1. cycle'.snap = cycle.snap /\ cycle'.answer = cycle.answer
      /\ cycle'.pc \in {"history", "orders"}
  BY DEF ProveOrReplay, Goto, PrInv, Typed, CycleTyped, Cycles
<1> QED  BY <1>1, ProofFrame DEF Judged, Fresh

\* A step that keeps the snapshot, the answer and the kind of cycle stays past the
\* verdict.
LEMMA StaysJudged ==
  ASSUME PrInv, UNCHANGED <<initialized, proof>>, Past' => Past,
         cycle'.snap = cycle.snap, cycle'.answer = cycle.answer,
         cycle'.pc \notin {"idle", "check", "chain", "diverge"}
  PROVE  Settled' /\ ProvedOnce' /\ Judged' /\ Fresh'
  BY ProofFrame DEF PrInv, Judged, Fresh

\* The cycle keeps the four facts of the proof: one step per action.
LEMMA ProofStepsCycle ==
  ASSUME PrInv, Cycle
  PROVE  Settled' /\ ProvedOnce' /\ Judged' /\ Fresh'
<1>0. cycle \in Cycles /\ Typed
  BY DEF PrInv, Typed, CycleTyped
<1> USE DEF Past
<1>1. CASE Begin
  <2>1. cycle'.pc = "history" /\ ~cycle'.replay /\ UNCHANGED <<initialized, proof>>
    BY <1>0, <1>1 DEF Begin, Goto, PrInv, Fresh, recordVars, Cycles
  <2> QED  BY <2>1, Unjudged
<1>2. CASE SyncPins
  <2>1. /\ cycle.pc = "history" /\ cycle'.pc = "legs" /\ cycle'.replay = cycle.replay
        /\ cycle'.snap = cycle.snap /\ cycle'.answer = cycle.answer
        /\ UNCHANGED <<initialized, proof>>
    BY <1>0, <1>2 DEF SyncPins, Cycles
  <2> QED  BY <2>1, StaysJudged
<1>3. ASSUME NEW l \in Legs, SyncLeg(l) PROVE Settled' /\ ProvedOnce' /\ Judged' /\ Fresh'
  <2>1. UNCHANGED <<initialized, proof>>
    BY <1>3 DEF SyncLeg, recordVars
  <2>2. CASE cycle' = Idle
    BY <2>1, <2>2, Unjudged
  <2>3. CASE cycle' = [cycle EXCEPT !.todo = @ \ {l}, !.settled = @ \union {l}]
    <3>1. /\ cycle'.pc = cycle.pc /\ cycle'.replay = cycle.replay
          /\ cycle'.snap = cycle.snap /\ cycle'.answer = cycle.answer
      BY <1>0, <2>3 DEF Cycles
    <3> QED  BY <1>3, <2>1, <3>1, StaysJudged DEF SyncLeg
  <2> QED  BY <1>3, <2>2, <2>3 DEF SyncLeg, Raise
<1>4. CASE SyncDone
  <2>1. UNCHANGED <<initialized, proof>> /\ cycle.pc = "legs"
    BY <1>4 DEF SyncDone
  <2>2. CASE cycle.replay
    <3>1. cycle'.pc = "replayed" /\ cycle'.snap = cycle.snap /\ cycle'.answer = cycle.answer
      BY <1>0, <1>4, <2>2 DEF SyncDone, Cycles
    <3> QED  BY <2>1, <2>2, <3>1, StaysJudged
  <2>3. CASE ~cycle.replay
    <3>1. cycle'.pc = "positions"
      BY <1>0, <1>4, <2>3 DEF SyncDone, Cycles
    <3> QED  BY <2>1, <3>1, Unjudged
  <2> QED  BY <2>2, <2>3
<1>5. CASE ReadPositions
  <2>1. cycle'.pc = "judge" /\ UNCHANGED <<initialized, proof>>
    BY <1>0, <1>5 DEF ReadPositions, recordVars, Cycles
  <2> QED  BY <2>1, Unjudged
<1>6. CASE Judge
  <2>1. UNCHANGED <<initialized, proof>>
    BY <1>6 DEF Judge, recordVars
  <2>2. CASE Raise
    BY <2>1, <2>2, Unjudged DEF Raise
  <2>3. CASE ProofMatches(proof, cycle.snap) /\ ProveOrReplay
    BY <2>1, <2>3, Verdict DEF ProofMatches
  <2>4. CASE Goto("balances")
    <3>1. cycle'.pc = "balances"
      BY <1>0, <2>4 DEF Goto, Cycles
    <3> QED  BY <2>1, <3>1, Unjudged
  <2> QED  BY <1>6, <2>2, <2>3, <2>4 DEF Judge
<1>7. CASE ReadBalances
  <2>1. UNCHANGED <<initialized, proof>> /\ cycle.pc \in {"balances", "chain"}
    BY <1>7 DEF ReadBalances, recordVars
  <2>2. cycle'.pc \in {"verify", "diverge"} /\ (cycle.pc = "balances" => cycle'.pc = "verify")
    BY <1>0, <1>7 DEF ReadBalances, Cycles
  <2> QED  BY <2>1, <2>2, ProofFrame DEF Judged, Fresh
<1>8. CASE VerifyNewer
  <2>1. UNCHANGED <<initialized, proof>>
    BY <1>8 DEF VerifyNewer, recordVars
  <2>2. CASE Raise
    BY <2>1, <2>2, Unjudged DEF Raise
  <2>3. CASE ProofMatches(cycle.answer, cycle.snap) /\ ProveOrReplay
    BY <2>1, <2>3, Verdict DEF ProofMatches
  <2> QED  BY <1>8, <2>2, <2>3 DEF VerifyNewer
<1>9. CASE Replayed
  <2>1. UNCHANGED <<initialized, proof>> /\ cycle.pc = "replayed"
    BY <1>9 DEF Replayed, recordVars
  <2>2. CASE Raise
    BY <2>1, <2>2, Unjudged DEF Raise
  <2>3. CASE Goto("orders")
    <3>1. cycle'.pc = "orders" /\ cycle'.snap = cycle.snap /\ cycle'.answer = cycle.answer
      BY <1>0, <2>3 DEF Goto, Cycles
    <3> QED  BY <2>1, <3>1, StaysJudged
  <2> QED  BY <1>9, <2>2, <2>3 DEF Replayed
<1>10. CASE Publish
  <2>1. initialized' = TRUE /\ proof' = [t \in Tokens |-> NoProof]
    BY <1>10 DEF Publish
  <2>2. ~HasProof'
    BY <2>1 DEF HasProof
  <2>3. cycle'.pc = "check"
    BY <1>10, IdleTyped DEF Publish
  <2> QED  BY <2>1, <2>2, <2>3, IdleTyped DEF Settled, ProvedOnce, Judged, Fresh, Proved, HasProof
<1>11. CASE PublishRefused \/ ReadFails
  <2>1. UNCHANGED <<initialized, proof>> /\ cycle' = Idle
    BY <1>11 DEF PublishRefused, ReadFails, Raise, recordVars
  <2> QED  BY <2>1, Unjudged
<1> QED  BY <1>1, <1>2, <1>3, <1>4, <1>5, <1>6, <1>7, <1>8, <1>9, <1>10, <1>11 DEF Cycle, Sync

\* So does everything else.
LEMMA ProofSteps ==
  ASSUME IsFiniteSet(Legs), PrInv, [Next]_vars
  PROVE  PrInv'
<1>0. cycle \in Cycles /\ Typed
  BY DEF PrInv, Typed, CycleTyped
<1> SUFFICES Settled' /\ ProvedOnce' /\ Judged' /\ Fresh'
  BY <1>0, TypesInductive DEF PrInv
<1> USE DEF Past
<1>1. ASSUME UNCHANGED <<initialized, proof>>, cycle'.pc = cycle.pc, cycle'.replay = cycle.replay,
             cycle'.snap = cycle.snap, cycle'.answer = cycle.answer
      PROVE  Settled' /\ ProvedOnce' /\ Judged' /\ Fresh'
  BY <1>1, ProofFrame DEF PrInv, Judged, Fresh
<1>2. CASE Exchange \/ UNCHANGED vars \/ \E t \in Tokens : ExpireInflight(t)
  <2>1. UNCHANGED <<initialized, proof, cycle>>
    BY <1>2 DEF Exchange, vars, ExpireInflight, recordVars
  <2> QED  BY <1>1, <2>1
<1>3. CASE \E l \in Legs : Deliver(l)
  <2>1. UNCHANGED <<initialized, proof>> /\ \E b : cycle' = [cycle EXCEPT !.moved = b]
    BY <1>3 DEF Deliver, recordVars
  <2>2. /\ cycle'.pc = cycle.pc /\ cycle'.replay = cycle.replay
        /\ cycle'.snap = cycle.snap /\ cycle'.answer = cycle.answer
    BY <1>0, <2>1 DEF Cycles
  <2> QED  BY <1>1, <2>1, <2>2
<1>4. CASE Cycle
  BY <1>4, ProofStepsCycle
<1>5. CASE CheckSkipped
  <2>1. UNCHANGED <<initialized, proof>> /\ cycle' = Idle
    BY <1>5 DEF CheckSkipped, recordVars
  <2> QED  BY <2>1, Unjudged
<1>6. CASE CheckBegins
  <2>1. UNCHANGED <<initialized, proof>> /\ cycle.pc = "check" /\ cycle'.pc = "chain"
    BY <1>0, <1>6 DEF CheckBegins, recordVars, Cycles
  <2> QED  BY <2>1, ProofFrame DEF Judged, Fresh
<1>7. CASE CheckEnds \/ CrashInCheck
  <2>1. cycle' = Idle /\ UNCHANGED initialized /\ initialized
    BY <1>7 DEF CheckEnds, CrashInCheck, MemoryLost, PrInv, Settled
  <2> QED  BY <2>1, IdleTyped DEF Settled, ProvedOnce, Judged, Fresh
<1>8. CASE Crash \/ \E l \in Legs : CrashInFill(l)
  <2>1. UNCHANGED <<initialized, proof>> /\ cycle' = Idle
    BY <1>8 DEF Crash, CrashInFill, MemoryLost, recordVars
  <2> QED  BY <2>1, Unjudged
<1>9. CASE CrashInPublish
  <2>1. UNCHANGED proof /\ cycle' = Idle /\ (initialized => initialized')
    BY <1>9 DEF CrashInPublish, MemoryLost
  <2>2. HasProof' = HasProof
    BY <2>1 DEF HasProof
  <2> QED  BY <2>1, <2>2, IdleTyped DEF PrInv, Settled, ProvedOnce, Judged, Fresh
<1> QED
  BY <1>2, <1>3, <1>4, <1>5, <1>6, <1>7, <1>8, <1>9 DEF Next, Check

\* Only a publication drops a proof.
LEMMA ProofDropped ==
  ASSUME PrInv, [Next]_vars, NEW t \in Tokens, proof[t] # NoProof, proof'[t] # proof[t]
  PROVE  Known' /\ initialized /\ pos'[t] \in {proof[t], cycle.answer[t]}
<1>1. HasProof /\ t \in Proved /\ initialized
  BY DEF HasProof, Proved, PrInv, ProvedOnce
<1>2. CASE Publish
  <2>1. cycle.pc = "orders" /\ MayPublish /\ pos' = PublishedPositions
        /\ online' = TRUE /\ unknown' = FALSE
    BY <1>2 DEF Publish
  <2>2. ~Unsettled
    BY <1>1, <2>1 DEF MayPublish
  <2>3. inflight[t] = 0
    BY <2>2 DEF Unsettled, PrInv, Typed, LedgerTyped
  <2>4. pos'[t] = cycle.snap[t]
    BY <2>1, <2>3 DEF PublishedPositions
  <2>5. cycle.snap[t] \in {proof[t], cycle.answer[t]}
    BY <1>1, <2>1 DEF PrInv, Judged, Past
  <2> QED  BY <1>1, <2>1, <2>4, <2>5 DEF Known
<1>3. CASE CheckEnds \/ CrashInCheck
  BY <1>1, <1>3 DEF CheckEnds, CrashInCheck, PrInv, Settled
<1>4. CASE ~(Publish \/ CheckEnds \/ CrashInCheck)
  <2>1. UNCHANGED proof
    BY <1>4 DEF Next, vars, Exchange, Cycle, Sync, Check, Begin, SyncPins, SyncLeg, SyncDone,
       ReadPositions, Judge, ReadBalances, VerifyNewer, Replayed, PublishRefused, ReadFails,
       CheckSkipped, CheckBegins, Deliver, ExpireInflight, Crash, CrashInFill, CrashInPublish,
       recordVars
  <2> QED  BY <2>1
<1> QED  BY <1>2, <1>3, <1>4

\* There is no proof at first.
LEMMA ProofHoldsInitially ==
  ASSUME IsFiniteSet(Legs), Init
  PROVE  PrInv
<1>1. Typed
  BY TypesHoldInitially
<1>2. ~HasProof /\ cycle = Idle
  BY DEF Init, HasProof
<1> QED  BY <1>1, <1>2, IdleTyped DEF PrInv, Settled, ProvedOnce, Judged, Fresh, Past

\* A retained on-chain proof survives failed reads, replays, crashes and restarts: only a
\* publication drops it, when the positions it writes are what the proof says or what the
\* chain answered in that very cycle (_reconcile_authoritative_state).
THEOREM ProofSurvives ==
  ASSUME IsFiniteSet(Legs)
  PROVE  Spec => ProofHolds
<1>1. Init => PrInv
  BY ProofHoldsInitially
<1>2. PrInv /\ [Next]_vars => PrInv'
  BY ProofSteps
<1>3. PrInv /\ [Next]_vars =>
        [\A t \in Tokens : proof[t] # NoProof /\ proof'[t] # proof[t] =>
           /\ Known' /\ initialized
           /\ pos'[t] \in {proof[t], cycle.answer[t]}]_vars
  BY ProofDropped
<1> QED  BY <1>1, <1>2, <1>3, PTL DEF Spec, ProofHolds

-------------------------------------------------------------------------------
(* Resumption *)

\* Only a publication makes the state known.
LEMMA Resumption ==
  ASSUME [Next]_vars, ~Known, Known'
  PROVE  Publish
<1>1. ASSUME MemoryLost PROVE FALSE
  BY <1>1, LostTyped DEF Known
<1>2. ASSUME UNCHANGED <<online, unknown>> PROVE FALSE
  BY <1>2 DEF Known
<1>3. ASSUME online' = online, unknown' = TRUE PROVE FALSE
  BY <1>3 DEF Known
<1>4. CASE Cycle
  <2>1. CASE Begin \/ \E l \in Legs : SyncLeg(l)
    BY <1>2, <1>3, <2>1 DEF Begin, SyncLeg, Raise
  <2>2. CASE SyncPins \/ SyncDone \/ ReadPositions \/ ReadBalances
    BY <1>2, <2>2 DEF SyncPins, SyncDone, ReadPositions, ReadBalances
  <2>3. CASE Judge \/ VerifyNewer \/ Replayed
    BY <1>2, <1>3, <2>3 DEF Judge, VerifyNewer, Replayed, Raise
  <2>4. CASE PublishRefused \/ ReadFails
    BY <1>3, <2>4 DEF PublishRefused, ReadFails, Raise
  <2> QED  BY <1>4, <2>1, <2>2, <2>3, <2>4 DEF Cycle, Sync
<1>5. CASE Check
  <2>1. CASE CheckEnds
    <3>1. online' = online /\ unknown' = (unknown \/ HasProof \/ Diverged # {})
      BY <2>1 DEF CheckEnds
    <3> QED  BY <3>1, Zenon DEF Known
  <2> QED  BY <1>2, <1>5, <2>1 DEF Check, CheckSkipped, CheckBegins
<1>6. CASE \E l \in Legs : Deliver(l) \/ CrashInFill(l)
  BY <1>1, <1>2, <1>6 DEF Deliver, CrashInFill
<1>7. CASE Exchange \/ UNCHANGED vars \/ \E t \in Tokens : ExpireInflight(t)
  BY <1>2, <1>7 DEF Exchange, vars, ExpireInflight
<1>8. CASE Crash \/ CrashInCheck \/ CrashInPublish
  BY <1>1, <1>8 DEF Crash, CrashInCheck, CrashInPublish
<1> QED  BY <1>4, <1>5, <1>6, <1>7, <1>8 DEF Next

\* A size is explained by itself.
LEMMA SameMatches ==
  ASSUME NEW n \in Nat
  PROVE  Matches(n, n)
<1>1. Distance(n, n) = 0
  BY DEF Distance
<1> QED  BY <1>1, Sizes DEF Matches

\* What a publication writes for a token without a guard is explained by the ledger and
\* the baseline it leaves.
LEMMA PublishExplains ==
  ASSUME Typed, Publish, NEW t \in Tokens, inflight[t] = 0
  PROVE  Matches(Expected(t)', pos'[t])
<1>1. /\ cycle.snap[t] \in Nat /\ ledger[t] \in Int /\ baseline[t] \in Int
  BY DEF Typed, CycleTyped, Cycles, LedgerTyped, RecordsTyped
<1>2. MayPublish /\ pos'[t] = cycle.snap[t] /\ ledger' = ledger
      /\ baseline'[t] = (IF initialized THEN baseline[t] ELSE cycle.snap[t] - ledger[t])
  BY DEF Publish, PublishedPositions, PublishedBaseline, ledgerVars
<1>3. CASE initialized
  <2>1. PositionsExplained(cycle.snap)
    BY <1>2, <1>3 DEF MayPublish
  <2> QED  BY <1>2, <1>3, <2>1 DEF PositionsExplained, Expected
<1>4. CASE ~initialized
  <2>1. Expected(t)' = cycle.snap[t]
    BY <1>1, <1>2, <1>4 DEF Expected
  <2> QED  BY <1>1, <1>2, <2>1, SameMatches
<1> QED  BY <1>3, <1>4

\* When the engine resumes, every token without a guard holds what the ledger and the
\* baseline explain, whatever the stream delivered since the snapshot was read.
THEOREM ResumptionIsExplained ==
  ASSUME IsFiniteSet(Legs)
  PROVE  Spec => ResumesExplained
<1>1. Init => Typed
  BY TypesHoldInitially
<1>2. Typed /\ [Next]_vars => Typed'
  BY TypesInductive
<1>3. Typed /\ [Next]_vars =>
        [~Known /\ Known' =>
           \A t \in Tokens : inflight[t] = 0 => Matches(Expected(t)', pos'[t])]_vars
  BY Resumption, PublishExplains
<1> QED  BY <1>1, <1>2, <1>3, PTL DEF Spec, ResumesExplained

===============================================================================
