--------------------------- MODULE AuthoritativeSync ---------------------------
(***************************************************************************)
(* How the engine proves its inventory: the positions table, the trade     *)
(* baseline, the retained on-chain proof, and the cycle that compares them *)
(* with what the exchange says.                                            *)
(*                                                                         *)
(*   engine.py         _reconcile_authoritative_state, _positions_         *)
(*                     explained, the on-chain proof,                      *)
(*                     _check_position_divergence, _startup_reconcile      *)
(*   state/store.py    apply_fill's second commit, set_position, expiry    *)
(*   state/tracker.py  on_trade's effect on positions and guards           *)
(*   position_tolerance.py                                                 *)
(*                                                                         *)
(* FillLedger shows that a leg is counted once; here a leg is in "counted" *)
(* or not, and ledger is the sum the database computes from the rows.      *)
(* Sizes are multiples of one unit, larger than the engine's 1e-6 and      *)
(* smaller than the four decimals the exchange serves (Grain units).       *)
(*                                                                         *)
(* The chain is the truth.  The positions the exchange serves follow it    *)
(* with a delay; the trade history and the user stream tell of legs.  A    *)
(* leg matched just before midnight that nobody reported may leave every   *)
(* query window (Forget); tokens may be moved by hand or merged on chain,  *)
(* which no trade explains (Transfer).                                     *)
(***************************************************************************)
EXTENDS Integers, FiniteSets

CONSTANTS
  Tokens,
  Legs,
  TokenOf,       \* leg -> its token
  Buys,          \* the legs that are BUYs; the others are SELLs
  LegSize,       \* size of a leg
  Start,         \* token -> what the wallet holds at first
  Grain,         \* REST_POSITION_ABS_TOL; served positions are truncated to it
  Dust,          \* MAX_OMITTED_DUST_SHARES
  Drift,         \* the difference from the chain that is still tolerated
  Transfers,     \* the amounts that may leave the wallet without a trade
  MaxTransfers,  \* bound: how often they do
  MaxForgets,    \* bound: legs that leave every query window
  MaxCrashes     \* bound: the process is killed at most so often

ASSUME SyncAssumption ==
  /\ TokenOf \in [Legs -> Tokens] /\ Buys \subseteq Legs
  /\ LegSize \in Nat \ {0} /\ Start \in [Tokens -> Nat]
  /\ Grain \in Nat \ {0} /\ Dust \in Nat \ {0} /\ Drift \in Nat
  /\ Transfers \subseteq Nat \ {0}
  /\ MaxTransfers \in Nat /\ MaxForgets \in Nat /\ MaxCrashes \in Nat

VARIABLES
  status,      \* exchange: leg -> "none", "matched", "mined", "confirmed", "failed"
  chain,       \* exchange: token -> balance
  rest,        \* exchange: token -> the balance its positions are served from
  forgotten,   \* exchange: legs outside every query window
  counted,     \* disk: legs with a fill in the ledger
  reversed,    \* disk: legs with a reversal in the ledger
  ledger,      \* disk: fill_position_sizes()
  pos,         \* disk and memory: positions
  baseline,    \* disk: confirmed_trade_baseline
  initialized, \* disk: confirmed_trade_sync_initialized
  proof,       \* disk: confirmed_trade_requires_proof, token -> size or NoProof
  pending,     \* disk: legs pinned by confirmed_trade_pending
  applied,     \* memory: _applied
  inflight,    \* memory: token -> guards
  online,      \* memory: the startup reconciliation is done
  unknown,     \* memory: _state_unknown
  cycle,       \* memory: the reconcile task
  bounds       \* transfers, forgets and crashes so far

exchangeVars == <<status, chain, rest, forgotten>>
ledgerVars == <<counted, reversed, ledger>>
recordVars == <<baseline, initialized, proof, pending>>
guardVars == <<applied, inflight>>
vars == <<exchangeVars, ledgerVars, pos, recordVars, guardVars, online, unknown, cycle, bounds>>

NoProof == -1
NoAnswer == [t \in Tokens |-> 0]
Idle == [pc |-> "idle", todo |-> {}, replay |-> FALSE, moved |-> FALSE,
         settled |-> {}, answer |-> NoAnswer, snap |-> NoAnswer, asked |-> {}]

HasProof == \E t \in Tokens : proof[t] # NoProof
Proved == {t \in Tokens : proof[t] # NoProof}
Signed(l) == IF l \in Buys THEN LegSize ELSE -LegSize
\* Mutant: the position follows every fill below zero.
Unclamped(n) == n

Clamp(n) == IF n > 0 THEN n ELSE 0
Distance(a, b) == IF a > b THEN a - b ELSE b - a

-------------------------------------------------------------------------------
(* Fills: on_trade and apply_fill *)

AddToPosition(t, n) == pos' = [pos EXCEPT ![t] = Clamp(@ + n)]

CountFill(l) ==
  /\ counted' = counted \union {l}
  /\ ledger' = [ledger EXCEPT ![TokenOf[l]] = @ + Signed(l)]
  /\ UNCHANGED reversed

ReverseFill(l) ==
  /\ reversed' = reversed \union {l}
  /\ ledger' = [ledger EXCEPT ![TokenOf[l]] = @ - Signed(l)]
  /\ UNCHANGED counted

Released(t) == [inflight EXCEPT ![t] = IF @ > 0 THEN @ - 1 ELSE @]

OnMatched(l) ==
  /\ l \notin counted
  /\ CountFill(l)
  /\ AddToPosition(TokenOf[l], Signed(l))
  /\ applied' = applied \union {l}
  /\ inflight' = [inflight EXCEPT ![TokenOf[l]] = @ + 1]

OnConfirmed(l) ==
  \/ /\ l \in applied
     /\ applied' = applied \ {l}
     /\ inflight' = Released(TokenOf[l])
     /\ UNCHANGED <<ledgerVars, pos>>
  \/ /\ l \notin counted
     /\ CountFill(l)
     /\ AddToPosition(TokenOf[l], Signed(l))
     /\ UNCHANGED guardVars

OnFailed(l) ==
  /\ l \in applied
  /\ ReverseFill(l)
  /\ AddToPosition(TokenOf[l], -Signed(l))
  /\ applied' = applied \ {l}
  /\ inflight' = Released(TokenOf[l])

\* One user-stream message that has an effect, at any await of the cycle.
\* "moved" stands for the ledger revision a running cycle compares.
Deliver(l) ==
  /\ online
  /\ cycle.pc \notin {"legs", "replayed"}
  /\ \/ status[l] # "none" /\ OnMatched(l)
     \/ status[l] = "confirmed" /\ OnConfirmed(l)
     \/ status[l] = "failed" /\ OnFailed(l)
  /\ cycle' = [cycle EXCEPT !.moved =
                  @ \/ (cycle.pc # "idle" /\ <<counted, reversed>>' # <<counted, reversed>>)]
  /\ UNCHANGED <<exchangeVars, recordVars, online, unknown, bounds>>

ExpireInflight(t) ==
  /\ online
  /\ cycle.pc = "idle"
  /\ inflight[t] > 0
  /\ inflight' = [inflight EXCEPT ![t] = 0]
  /\ UNCHANGED <<exchangeVars, ledgerVars, pos, recordVars, applied, online, unknown, cycle,
                 bounds>>

-------------------------------------------------------------------------------
(* Proofs of inventory *)

\* authoritative_position_matches: truncated sizes, and none for mere dust.
Matches(size, served) ==
  size >= 0 /\ IF served = 0 THEN size < Dust ELSE Distance(size, served) < Grain

PositionsExplained(served) ==
  \A t \in Tokens : Matches(ledger[t] + baseline[t], served[t])

\* _proof_matches_positions knows neither.
ProofMatches(known, served) == \A t \in Proved : known[t] = served[t]

RestoreExposure == pos' = [t \in Tokens |-> IF t \in Proved THEN proof[t] ELSE pos[t]]

Unsettled == pending # {} \/ \E t \in Tokens : inflight[t] > 0

-------------------------------------------------------------------------------
(* _reconcile_authoritative_state *)

Goto(pc) == cycle' = [cycle EXCEPT !.pc = pc]

\* Everything ends here that raises: the state is unknown, the orders are
\* cancelled (PlacementGate), and the loop tries again.
Raise == cycle' = Idle /\ unknown' = TRUE

Begin ==
  /\ cycle.pc = "idle"
  /\ Goto("history")
  /\ IF HasProof THEN unknown' = TRUE /\ RestoreExposure ELSE UNCHANGED <<unknown, pos>>
  /\ UNCHANGED <<exchangeVars, ledgerVars, recordVars, guardVars, online, bounds>>

Happened == {l \in Legs : status[l] # "none"}
FullDay == cycle.replay \/ ~online \/ unknown \/ ~initialized

\* What a query may answer: always the pinned legs, and the whole day when the
\* whole day is asked for.
Windows ==
  {seen \in SUBSET Happened :
     /\ pending \subseteq seen
     /\ seen \intersect forgotten \subseteq pending
     /\ FullDay => Happened \ forgotten \subseteq seen}

\* _sync_confirmed_trades up to its pins; first, and as a replay of the day.
SyncPins ==
  /\ cycle.pc = "history"
  /\ \E seen \in Windows :
       /\ pending' = pending \union seen
       /\ cycle' = [cycle EXCEPT !.pc = "legs", !.settled = {},
                       !.todo = {l \in seen : status[l] \in {"confirmed", "failed"}}]
  /\ UNCHANGED <<exchangeVars, ledgerVars, pos, baseline, initialized, proof, guardVars, online,
                 unknown, bounds>>

\* A failed leg that is counted but no longer in memory cannot be reversed.
Wedged(l) == status[l] = "failed" /\ l \in counted \ (reversed \union applied)

SyncLeg(l) ==
  /\ cycle.pc = "legs"
  /\ l \in cycle.todo
  /\ \/ /\ Wedged(l)
        /\ Raise
        /\ UNCHANGED <<ledgerVars, pos, guardVars>>
     \/ /\ ~Wedged(l)
        /\ cycle' = [cycle EXCEPT !.todo = @ \ {l}, !.settled = @ \union {l}]
        /\ UNCHANGED unknown
        /\ CASE status[l] = "confirmed" /\ (l \in applied \/ l \notin counted) -> OnConfirmed(l)
             [] status[l] = "failed" /\ l \in applied -> OnFailed(l)
             [] OTHER -> UNCHANGED <<ledgerVars, pos, guardVars>>
  /\ UNCHANGED <<exchangeVars, recordVars, online, bounds>>

\* Replayed fills are added to the revision, the stream's are not: after the
\* first sync the revision is taken anew, after the replay it is compared.
SyncDone ==
  /\ cycle.pc = "legs"
  /\ cycle.todo = {}
  /\ pending' = pending \ cycle.settled
  /\ cycle' = IF cycle.replay
              THEN [cycle EXCEPT !.pc = "replayed"]
              ELSE [cycle EXCEPT !.pc = "positions", !.moved = FALSE]
  /\ UNCHANGED <<exchangeVars, ledgerVars, pos, baseline, initialized, proof, guardVars, online,
                 unknown, bounds>>

\* The exchange answers, truncated; dust may be left out.
ReadPositions ==
  /\ cycle.pc = "positions"
  /\ \E omitted \in SUBSET {t \in Tokens : rest[t] < Dust} :
       cycle' = [cycle EXCEPT !.pc = "judge", !.snap =
                   [t \in Tokens |-> IF t \in omitted THEN 0 ELSE rest[t] - (rest[t] % Grain)]]
  /\ UNCHANGED <<exchangeVars, ledgerVars, pos, recordVars, guardVars, online, unknown, bounds>>

\* A replay is asked for when a proof of the positions is required and fails.
ProveOrReplay ==
  IF (initialized \/ HasProof) /\ ~PositionsExplained(cycle.snap)
  THEN cycle' = [cycle EXCEPT !.pc = "history", !.replay = TRUE]
  ELSE Goto("orders")

Judge ==
  /\ cycle.pc = "judge"
  /\ \/ /\ cycle.moved
        /\ Raise /\ UNCHANGED pos
     \/ /\ ~cycle.moved
        /\ ProofMatches(proof, cycle.snap)
        /\ ProveOrReplay /\ UNCHANGED <<unknown, pos>>
     \/ /\ ~cycle.moved
        /\ ~ProofMatches(proof, cycle.snap)
        /\ IF ~initialized \/ Unsettled \/ ~PositionsExplained(cycle.snap)
           THEN Raise /\ RestoreExposure
           ELSE Goto("balances") /\ UNCHANGED <<unknown, pos>>
  /\ UNCHANGED <<exchangeVars, ledgerVars, recordVars, guardVars, online, bounds>>

\* _verify_newer_onchain_snapshot: balances of the tokens in the proof.
ReadBalances ==
  /\ cycle.pc \in {"balances", "chain"}
  /\ cycle' = [cycle EXCEPT !.answer = chain, !.pc =
                  IF @ = "balances" THEN "verify" ELSE "diverge"]
  /\ UNCHANGED <<exchangeVars, ledgerVars, pos, recordVars, guardVars, online, unknown, bounds>>

\* Mutant: the fresh balances are read and not compared.
VerifyNothing ==
  /\ cycle.pc = "verify"
  /\ IF cycle.moved THEN Raise ELSE ProveOrReplay /\ UNCHANGED unknown
  /\ UNCHANGED <<exchangeVars, ledgerVars, pos, recordVars, guardVars, online, bounds>>

\* Mutant: the positions are compared with the retained proof again.
VerifyRetained ==
  /\ cycle.pc = "verify"
  /\ IF cycle.moved \/ ~ProofMatches(proof, cycle.snap)
     THEN Raise
     ELSE ProveOrReplay /\ UNCHANGED unknown
  /\ UNCHANGED <<exchangeVars, ledgerVars, pos, recordVars, guardVars, online, bounds>>

VerifyNewer ==
  /\ cycle.pc = "verify"
  /\ IF cycle.moved \/ ~ProofMatches(cycle.answer, cycle.snap)
     THEN Raise
     ELSE ProveOrReplay /\ UNCHANGED unknown
  /\ UNCHANGED <<exchangeVars, ledgerVars, pos, recordVars, guardVars, online, bounds>>

\* After the replay: what is still unexplained is taken as the exposure, but
\* not as known.
Replayed ==
  /\ cycle.pc = "replayed"
  /\ IF ~cycle.moved /\ PositionsExplained(cycle.snap)
     THEN Goto("orders") /\ UNCHANGED <<unknown, pos>>
     ELSE /\ Raise
          /\ pos' = IF cycle.moved THEN pos ELSE cycle.snap
  /\ UNCHANGED <<exchangeVars, ledgerVars, recordVars, guardVars, online, bounds>>

MayPublish ==
  /\ ~cycle.moved
  /\ HasProof \/ ~initialized => ~Unsettled
  /\ HasProof \/ initialized => PositionsExplained(cycle.snap)

PublishedBaseline ==
  [t \in Tokens |-> IF initialized THEN baseline[t] ELSE cycle.snap[t] - ledger[t]]

\* Mutant: tokens that the snapshot leaves out keep their position.
PublishedIfServed ==
  [t \in Tokens |-> IF inflight[t] = 0 /\ cycle.snap[t] # 0 THEN cycle.snap[t] ELSE pos[t]]

PublishedPositions ==
  [t \in Tokens |-> IF ~initialized \/ inflight[t] = 0 THEN cycle.snap[t] ELSE pos[t]]

Publish ==
  /\ cycle.pc = "orders"
  /\ MayPublish
  /\ pos' = PublishedPositions
  /\ baseline' = PublishedBaseline
  /\ initialized' = TRUE
  /\ proof' = [t \in Tokens |-> NoProof]
  /\ unknown' = FALSE
  /\ online' = TRUE
  /\ cycle' = [Idle EXCEPT !.pc = "check"]
  /\ UNCHANGED <<exchangeVars, ledgerVars, pending, guardVars, bounds>>

PublishRefused ==
  /\ cycle.pc = "orders"
  /\ ~MayPublish
  /\ Raise
  /\ UNCHANGED <<exchangeVars, ledgerVars, pos, recordVars, guardVars, online, bounds>>

\* Any read raises, or a placement moved the epoch.
ReadFails ==
  /\ cycle.pc \in {"history", "positions", "judge", "balances", "replayed", "orders"}
  /\ Raise
  /\ UNCHANGED <<exchangeVars, ledgerVars, pos, recordVars, guardVars, online, bounds>>

-------------------------------------------------------------------------------
(* _check_position_divergence, in every fourth round *)

\* The check is not due, or the chain does not answer it.
CheckSkipped ==
  /\ cycle.pc \in {"check", "chain"}
  /\ cycle' = Idle
  /\ UNCHANGED <<exchangeVars, ledgerVars, pos, recordVars, guardVars, online, unknown, bounds>>

CheckBegins ==
  /\ cycle.pc = "check"
  /\ cycle' = [cycle EXCEPT !.pc = "chain", !.asked = {t \in Tokens : inflight[t] = 0}]
  /\ UNCHANGED <<exchangeVars, ledgerVars, pos, recordVars, guardVars, online, unknown, bounds>>

\* Mutant: only a position below the chain counts.
DivergedBelow ==
  {t \in cycle.asked : inflight[t] = 0 /\ cycle.answer[t] - pos[t] > Drift}

Diverged ==
  {t \in cycle.asked :
     /\ inflight[t] = 0
     /\ \/ proof[t] \notin {NoProof, cycle.answer[t]}
        \/ Distance(pos[t], cycle.answer[t]) > Drift}

Corrected(p) == [t \in Tokens |-> IF t \in Diverged THEN cycle.answer[t] ELSE p[t]]

\* The proof is committed before the positions are corrected.
CheckEnds ==
  /\ cycle.pc = "diverge"
  /\ proof' = Corrected(proof)
  /\ pos' = Corrected(pos)
  /\ cycle' = Idle
  /\ unknown' = (unknown \/ HasProof \/ Diverged # {})
  /\ UNCHANGED <<exchangeVars, ledgerVars, baseline, initialized, pending, guardVars, online,
                 bounds>>
-------------------------------------------------------------------------------
(* The exchange and the chain *)

Bound(what, limit) ==
  bounds[what] < limit /\ bounds' = [bounds EXCEPT ![what] = @ + 1]

Onchain(l) == status[l] \in {"mined", "confirmed"}

\* Sells that are matched and not yet on chain: the wallet must still cover them.
Promised(t) ==
  LegSize * Cardinality({l \in Legs \ Buys : TokenOf[l] = t /\ status[l] = "matched"})

\* Orders rest until a restarted engine has cancelled them.
Match(l) ==
  /\ initialized
  /\ status[l] = "none"
  /\ l \notin Buys => chain[TokenOf[l]] >= Promised(TokenOf[l]) + LegSize
  /\ status' = [status EXCEPT ![l] = "matched"]
  /\ UNCHANGED <<chain, rest, forgotten, bounds>>

Mine(l) ==
  /\ status[l] = "matched"
  /\ chain[TokenOf[l]] + Signed(l) >= 0
  /\ status' = [status EXCEPT ![l] = "mined"]
  /\ chain' = [chain EXCEPT ![TokenOf[l]] = @ + Signed(l)]
  /\ UNCHANGED <<rest, forgotten, bounds>>

Settle(l) ==
  /\ \/ status[l] = "mined" /\ status' = [status EXCEPT ![l] = "confirmed"]
     \/ status[l] = "matched" /\ status' = [status EXCEPT ![l] = "failed"]
  /\ UNCHANGED <<chain, rest, forgotten, bounds>>

\* The served positions follow the chain, with or without what is only mined.
RestCatchUp(t) ==
  /\ \E unseen \in SUBSET {l \in Legs : TokenOf[l] = t /\ status[l] = "mined"} :
       rest' = [rest EXCEPT ![t] = chain[t]
                  - LegSize * Cardinality(unseen \intersect Buys)
                  + LegSize * Cardinality(unseen \ Buys)]
  /\ rest'[t] >= 0 /\ rest'[t] # rest[t]
  /\ UNCHANGED <<status, chain, forgotten, bounds>>

Forget(l) ==
  /\ status[l] # "none" /\ l \notin forgotten \union counted \union pending
  /\ Bound("forgets", MaxForgets)
  /\ forgotten' = forgotten \union {l}
  /\ UNCHANGED <<status, chain, rest>>

Transfer(t) ==
  /\ Bound("transfers", MaxTransfers)
  /\ \E n \in Transfers : n <= chain[t] /\ chain' = [chain EXCEPT ![t] = @ - n]
  /\ UNCHANGED <<status, rest, forgotten>>

Exchange ==
  /\ \/ \E l \in Legs : Match(l) \/ Mine(l) \/ Settle(l) \/ Forget(l)
     \/ \E t \in Tokens : RestCatchUp(t) \/ Transfer(t)
  /\ UNCHANGED <<ledgerVars, pos, recordVars, guardVars, online, unknown, cycle>>

-------------------------------------------------------------------------------
(* Crashes: the engine is gone, with what was committed on disk *)

MemoryLost ==
  /\ Bound("crashes", MaxCrashes)
  /\ applied' = {}
  /\ inflight' = [t \in Tokens |-> 0]
  /\ online' = FALSE
  /\ unknown' = FALSE
  /\ cycle' = Idle
  /\ UNCHANGED exchangeVars

Crash ==
  /\ MemoryLost
  /\ UNCHANGED <<ledgerVars, pos, recordVars>>

\* Between apply_fill's commit of the fill and that of the position.
CrashInFill(l) ==
  /\ \/ /\ status[l] # "none" /\ l \notin counted
        /\ online \/ (l \in cycle.todo /\ status[l] = "confirmed")
        /\ CountFill(l)
     \/ status[l] = "failed" /\ l \in applied /\ ReverseFill(l)
  /\ MemoryLost
  /\ UNCHANGED <<pos, recordVars>>

\* Between the commit of the proof and the corrected positions.
CrashInCheck ==
  /\ cycle.pc = "diverge" /\ Diverged # {}
  /\ proof' = Corrected(proof)
  /\ MemoryLost
  /\ UNCHANGED <<ledgerVars, pos, baseline, initialized, pending>>

\* While the positions, and the first time the baselines, are written.
CrashInPublish ==
  /\ cycle.pc = "orders" /\ MayPublish
  /\ \E written \in SUBSET Tokens :
       /\ pos' = [t \in Tokens |-> IF t \in written THEN PublishedPositions[t] ELSE pos[t]]
       /\ baseline' = [t \in Tokens |-> IF t \in written THEN PublishedBaseline[t] ELSE baseline[t]]
       /\ initialized' \in {initialized, initialized \/ written = Tokens}
  /\ MemoryLost
  /\ UNCHANGED <<ledgerVars, proof, pending>>

-------------------------------------------------------------------------------
(* Specification *)

Init ==
  /\ status = [l \in Legs |-> "none"]
  /\ chain = Start /\ rest = Start /\ forgotten = {}
  /\ counted = {} /\ reversed = {} /\ ledger = [t \in Tokens |-> 0]
  /\ pos = [t \in Tokens |-> 0]
  /\ baseline = [t \in Tokens |-> 0] /\ initialized = FALSE
  /\ proof = [t \in Tokens |-> NoProof] /\ pending = {}
  /\ applied = {} /\ inflight = [t \in Tokens |-> 0]
  /\ online = FALSE /\ unknown = FALSE /\ cycle = Idle
  /\ bounds = [transfers |-> 0, forgets |-> 0, crashes |-> 0]

Sync == SyncPins \/ (\E l \in Legs : SyncLeg(l)) \/ SyncDone

Cycle ==
  \/ Begin \/ Sync \/ ReadPositions \/ Judge \/ ReadBalances \/ VerifyNewer \/ Replayed
  \/ Publish \/ PublishRefused \/ ReadFails

Check == CheckSkipped \/ CheckBegins \/ CheckEnds

Next ==
  \/ Exchange \/ Cycle \/ Check
  \/ \E l \in Legs : Deliver(l) \/ CrashInFill(l)
  \/ \E t \in Tokens : ExpireInflight(t)
  \/ Crash \/ CrashInCheck \/ CrashInPublish

Spec == Init /\ [][Next]_vars

\* The loop and the service manager start a cycle again and again; of the
\* reads that may fail, none fails for ever, and neither is the check always due
\* in a round that failed.  Guards expire by age before a cycle begins.
FairSpec ==
  /\ Spec
  /\ WF_vars(Begin \/ (\E l \in Legs : SyncLeg(l)) \/ SyncDone \/ VerifyNewer
             \/ PublishRefused \/ CheckSkipped \/ CheckEnds)
  /\ SF_vars(SyncPins) /\ SF_vars(ReadPositions) /\ SF_vars(Judge) /\ SF_vars(ReadBalances)
  /\ SF_vars(Replayed) /\ SF_vars(Publish) /\ SF_vars(CheckBegins)
  /\ \A t \in Tokens : SF_vars(ExpireInflight(t))

-------------------------------------------------------------------------------
(* Properties *)

\* Types, and what a served or proved size may be.
TypeOK ==
  /\ status \in [Legs -> {"none", "matched", "mined", "confirmed", "failed"}]
  /\ chain \in [Tokens -> Nat] /\ rest \in [Tokens -> Nat] /\ forgotten \subseteq Legs
  /\ counted \subseteq Legs /\ reversed \subseteq counted /\ ledger \in [Tokens -> Int]
  /\ pos \in [Tokens -> Nat] /\ baseline \in [Tokens -> Int] /\ initialized \in BOOLEAN
  /\ proof \in [Tokens -> Nat \union {NoProof}] /\ pending \subseteq Legs
  /\ applied \subseteq counted \ reversed /\ inflight \in [Tokens -> 0..Cardinality(Legs)]
  /\ online \in BOOLEAN /\ unknown \in BOOLEAN
  /\ cycle.todo \subseteq pending /\ cycle.snap \in [Tokens -> Nat]

Expected(t) == ledger[t] + baseline[t]
Known == online /\ ~unknown

\* A retained proof survives failed reads, crashes and restarts: only a
\* publication of positions drops it, and those are what the proof says or what
\* the chain answered in that very cycle.
ProofHolds ==
  [][\A t \in Tokens : proof[t] # NoProof /\ proof'[t] # proof[t] =>
       /\ Known' /\ initialized
       /\ pos'[t] \in {proof[t], cycle.answer[t]}]_vars

\* When the engine resumes, every token without a guard holds what the ledger
\* and the baseline explain, whatever the stream delivered since the snapshot.
ResumesExplained ==
  [][~Known /\ Known' =>
       \A t \in Tokens : inflight[t] = 0 => Matches(Expected(t)', pos'[t])]_vars

\* As long as the state is known, the position of a token without a guard is the
\* one its fills and its baseline explain.
KnownIsExplained ==
  Known => \A t \in Tokens :
             inflight[t] = 0 /\ Expected(t) >= 0 => Distance(Expected(t), pos[t]) < Dust

\* A position that is off the chain by more than the tolerated drift does not
\* pass for known for ever, whatever caused it.
DriftNoticed ==
  []<>(unknown \/ \A t \in Tokens : Distance(pos[t], chain[t]) <= Drift)

\* Nothing moves any more, the exchange has caught up, every leg is settled and
\* the ledger accounts for the chain.
Quiet ==
  /\ rest = chain
  /\ \A l \in Legs : status[l] \in {"none", "confirmed", "failed"} /\ ~Wedged(l)
  /\ initialized => \A t \in Tokens : chain[t] = Expected(t)

ProofIsServable ==
  \A t \in Tokens : proof[t] # NoProof =>
    chain[t] = 0 \/ (chain[t] >= Dust /\ chain[t] % Grain = 0)

\* The engine resumes once there is nothing left to object to, where every proved size
\* is one that the exchange can serve exactly: proof and served position are compared
\* without the tolerance that other comparisons have.
RecoversUnlessRounded == <>[](Quiet /\ ProofIsServable) => []<>Known
===============================================================================
