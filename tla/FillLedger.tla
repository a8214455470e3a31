------------------------------ MODULE FillLedger ------------------------------
(***************************************************************************)
(* The durable fill ledger, the two sources that feed it, and the crashes  *)
(* between them.                                                           *)
(*                                                                         *)
(*   state/store.py     apply_fill, the fills and fill_identities tables,  *)
(*                      the in-flight guards                               *)
(*   state/tracker.py   on_trade, for user-stream messages and for the     *)
(*                      legs the trade history replays                     *)
(*   engine.py          _sync_confirmed_trades: the query window, the      *)
(*                      pinned identities, the checkpoint                  *)
(*                                                                         *)
(* The exchange is external.  A leg is matched, then CONFIRMED or FAILED.  *)
(* The user stream may lose, duplicate and reorder its messages: a message *)
(* can be delivered any number of times, or never, once the leg has        *)
(* reached the status it carries.  MINED and RETRYING may be sent while a  *)
(* leg is open.                                                            *)
(*                                                                         *)
(* A crash loses what the process holds in memory (applied, inflight, the  *)
(* running sync) and keeps the SQLite tables.  The handlers have no await  *)
(* after the history has been read, so one runs at a time; a crash can     *)
(* come between any two commits of the sync.                               *)
(*                                                                         *)
(* Inventory (the positions table, written after the ledger commit) is not *)
(* part of this module: the ledger is what cash and the position check are *)
(* computed from.                                                          *)
(***************************************************************************)
EXTENDS Integers, FiniteSets, FiniteSetsExt

CONSTANTS
  Legs,           \* maker legs that may be matched
  Tokens,
  TokenOf,        \* leg -> its token
  Day,            \* clock ticks in one UTC day
  Overlap,        \* _TRADE_SYNC_OVERLAP_S
  PendingMaxAge,  \* _TRADE_SYNC_PENDING_MAX_AGE_S
  StreamSpelling, \* the spellings user-stream payloads use
  MaxTime,        \* bound: the clock stops here
  MaxCrashes      \* bound: the process is killed at most so often

ASSUME TokenAssumption == TokenOf \in [Legs -> Tokens]
ASSUME SpellingAssumption == StreamSpelling \subseteq {"canonical", "legacy"}
ASSUME TimeAssumption ==
  /\ Day \in Nat \ {0} /\ Overlap \in Nat /\ PendingMaxAge \in Nat
  /\ MaxTime \in Nat /\ MaxCrashes \in Nat

Time == 0 .. MaxTime
LegStatus == {"none", "open", "CONFIRMED", "FAILED"}

\* A payload that names our order spells the leg "trade:order" and claims the
\* older "trade:index" spelling too; one without an order id has only the latter.
Spelling == {"canonical", "legacy"}
FillId == [spelling : Spelling, leg : Legs, kind : {"fill", "reverse"}]

Id(l, s) == [spelling |-> s, leg |-> l, kind |-> "fill"]
ReverseOf(f) == [f EXCEPT !.kind = "reverse"]
ClaimsOneSpelling(l, s) == {Id(l, s)}   \* mutant: the alias is forgotten
Claims(l, s) == {Id(l, s), Id(l, "legacy")}

VARIABLES
  now,         \* wall clock
  status,      \* exchange: leg -> LegStatus
  matchedAt,   \* exchange: leg -> match time
  rows,        \* disk: trade_id column of fills
  identities,  \* disk: fill_identities, <<identity, owning fill>>
  pending,     \* disk: confirmed_trade_pending
  checkpoint,  \* disk: confirmed_trade_sync_ts
  applied,     \* memory: keys of UserEventProcessor._applied
  inflight,    \* memory: token -> in-flight guards
  online,      \* memory: startup reconciliation done, the user stream runs
  sync,        \* memory: the running _sync_confirmed_trades
  crashes      \* how often the process was killed (bound)

exchangeVars == <<now, status, matchedAt>>
ledgerVars == <<rows, identities>>
windowVars == <<pending, checkpoint>>
memoryVars == <<applied, inflight>>
vars == <<exchangeVars, ledgerVars, windowVars, memoryVars, online, sync, crashes>>

NoSync == [pc |-> "idle", start |-> 0, snapshot |-> {}, todo |-> {}]

-------------------------------------------------------------------------------
(* The ledger transaction: StateStore.apply_fill *)

Identified(i) == \E b \in identities : b[1] = i

NotBackfilled == identities   \* mutant: the migration of old rows is left out

\* "INSERT OR IGNORE ... SELECT trade_id,trade_id FROM fills": rows written
\* before the identity table existed own their own id.
Backfilled ==
  identities \union {<<r, r>> : r \in {q \in rows : ~Identified(q)}}

Owners(ids) == {b[2] : b \in {c \in Backfilled : c[1] \in ids}}

Bind(f, ids) ==
  Backfilled \union
    {<<i, f>> : i \in {j \in ids : \A b \in Backfilled : b[1] # j}}

Accepts(ids) == Owners(ids) = {}

ApplyFill(f, ids) ==
  IF Accepts(ids)
  THEN /\ rows' = rows \union {f}
       /\ identities' = Bind(f, ids)
  ELSE /\ rows' = rows
       /\ IF \E o \in Owners(ids) : Owners(ids) = {o}
          THEN \E o \in Owners(ids) : identities' = Bind(o, ids)
          ELSE identities' = identities    \* identity conflict: rolled back

IdentityFills(ids) ==
  {r \in rows : r \in ids \/ \E b \in identities : b[1] \in ids /\ b[2] = r}

FillIdentityMatches(l, s) ==
  \E r \in rows : /\ IdentityFills(Claims(l, s)) = {r}
                  /\ r.leg = l /\ r.kind = "fill"

FillFailureSettled(l, s) ==
  LET found == IdentityFills(Claims(l, s))
  IN  \/ found = {}
      \/ \E r \in found :
           /\ found = {r} /\ r.leg = l
           /\ \E q \in rows :
                IdentityFills({ReverseOf(i) : i \in {r} \union Claims(l, s)}) = {q}

-------------------------------------------------------------------------------
(* In-flight guards and UserEventProcessor.on_trade *)

MarkInflight(t) == inflight' = [inflight EXCEPT ![t] = @ + 1]
ClearInflightUnchecked(t) ==   \* mutant: decremented below zero
  inflight' = [inflight EXCEPT ![t] = @ - 1]
ClearInflight(t) == inflight' = [inflight EXCEPT ![t] = IF @ > 0 THEN @ - 1 ELSE @]

OnMatchedMarksEarly(l, s) ==   \* mutant: a duplicate takes a guard too
  /\ MarkInflight(TokenOf[l])
  /\ IF Id(l, s) \in applied
     THEN UNCHANGED <<ledgerVars, applied>>
     ELSE /\ ApplyFill(Id(l, s), Claims(l, s))
          /\ applied' = IF Accepts(Claims(l, s)) THEN applied \union {Id(l, s)} ELSE applied

OnMatched(l, s) ==
  IF Id(l, s) \in applied
  THEN UNCHANGED <<ledgerVars, memoryVars>>
  ELSE /\ ApplyFill(Id(l, s), Claims(l, s))
       /\ IF Accepts(Claims(l, s))
          THEN /\ applied' = applied \union {Id(l, s)}
               /\ MarkInflight(TokenOf[l])
          ELSE UNCHANGED memoryVars

OnConfirmed(l, s) ==
  IF Id(l, s) \in applied
  THEN /\ applied' = applied \ {Id(l, s)}
       /\ ClearInflight(TokenOf[l])
       /\ UNCHANGED ledgerVars
  ELSE /\ ApplyFill(Id(l, s), Claims(l, s))
       /\ UNCHANGED memoryVars

\* The reversal is accepted, or it is already there: both end the life of the
\* optimistic fill.  Without the optimistic fill in memory nothing is reversed.
OnFailed(l, s) ==
  LET back == ReverseOf(Id(l, s))
  IN  IF Id(l, s) \in applied
      THEN /\ ApplyFill(back, {back})
           /\ IF Accepts({back}) \/ back \in rows
              THEN /\ applied' = applied \ {Id(l, s)}
                   /\ ClearInflight(TokenOf[l])
              ELSE UNCHANGED memoryVars
      ELSE UNCHANGED <<ledgerVars, memoryVars>>

OnTradeRetryReverses(l, st, s) ==   \* mutant: RETRYING taken for terminal
  CASE st = "MATCHED" -> OnMatched(l, s)
    [] st = "CONFIRMED" -> OnConfirmed(l, s)
    [] st \in {"FAILED", "RETRYING"} -> OnFailed(l, s)
    [] OTHER -> UNCHANGED <<ledgerVars, memoryVars>>

OnTrade(l, st, s) ==
  CASE st = "MATCHED" -> OnMatched(l, s)
    [] st = "CONFIRMED" -> OnConfirmed(l, s)
    [] st = "FAILED" -> OnFailed(l, s)
    [] OTHER -> UNCHANGED <<ledgerVars, memoryVars>>   \* MINED, RETRYING

-------------------------------------------------------------------------------
(* The exchange and the user stream (external) *)

Tick ==
  /\ now < MaxTime
  /\ now' = now + 1
  /\ UNCHANGED <<status, matchedAt, ledgerVars, windowVars, memoryVars, online, sync, crashes>>

Match(l) ==
  /\ status[l] = "none"
  /\ status' = [status EXCEPT ![l] = "open"]
  /\ matchedAt' = [matchedAt EXCEPT ![l] = now]
  /\ UNCHANGED <<now, ledgerVars, windowVars, memoryVars, online, sync, crashes>>

Settle(l, st) ==
  /\ status[l] = "open"
  /\ status' = [status EXCEPT ![l] = st]
  /\ UNCHANGED <<now, matchedAt, ledgerVars, windowVars, memoryVars, online, sync, crashes>>

Emitted(l) ==
  IF status[l] = "none" THEN {}
  ELSE {"MATCHED", "MINED", "RETRYING"} \union ({status[l]} \ {"open"})

\* One user-stream message reaches the handler.
Deliver(l, st, s) ==
  /\ online
  /\ sync.pc \in {"idle", "read"}
  /\ st \in Emitted(l)
  /\ OnTrade(l, st, s)
  /\ UNCHANGED <<exchangeVars, windowVars, online, sync, crashes>>

\* The reconcile loop clears a guard whose settlement never came.
ExpireInflight(t) ==
  /\ online
  /\ sync.pc = "idle"
  /\ inflight[t] > 0
  /\ inflight' = [inflight EXCEPT ![t] = 0]
  /\ UNCHANGED <<exchangeVars, ledgerVars, windowVars, applied, online, sync, crashes>>

-------------------------------------------------------------------------------
(* Engine._sync_confirmed_trades *)

DayStart == now - (now % Day)
PinnedTimes == {matchedAt[i.leg] : i \in pending}
TooOld(pins) == \E i \in pins : now - matchedAt[i.leg] > PendingMaxAge

AfterCheckpointOnly(full) ==   \* mutant: pinned identities do not extend the window
  IF full THEN DayStart ELSE Max({DayStart, checkpoint - Overlap})

\* The later of the UTC day start and the checkpoint less the overlap, reaching
\* back to the oldest pinned identity whatever the day.
After(full) ==
  LET usual == IF full THEN DayStart ELSE Max({DayStart, checkpoint - Overlap})
  IN  IF pending = {} THEN usual ELSE Min({usual, Min(PinnedTimes) - Overlap})

\* The window is computed and the exchange answers with the legs inside it.
SyncRead(full) ==
  /\ sync.pc = "idle"
  /\ ~TooOld(pending)
  /\ sync' = [pc |-> "read", start |-> now, todo |-> {},
              snapshot |-> {<<l, status[l]>> : l \in
                {k \in Legs : status[k] # "none" /\ matchedAt[k] >= After(full)}}]
  /\ UNCHANGED <<exchangeVars, ledgerVars, windowVars, memoryVars, online, crashes>>

\* The read raises: the caller quarantines and tries again later.
SyncReadFails ==
  /\ sync.pc = "read"
  /\ sync' = NoSync
  /\ UNCHANGED <<exchangeVars, ledgerVars, windowVars, memoryVars, online, crashes>>

\* Every identity of the snapshot is pinned in one committed row.
SyncPin ==
  /\ sync.pc = "read"
  /\ pending' = pending \union {Id(e[1], "canonical") : e \in sync.snapshot}
  /\ sync' = [sync EXCEPT !.pc = "apply",
                !.todo = {e \in sync.snapshot : e[2] \in {"CONFIRMED", "FAILED"}}]
  /\ UNCHANGED <<exchangeVars, ledgerVars, checkpoint, memoryVars, online, crashes>>

LegSettledIfConfirmed(l, st) ==   \* mutant: FAILED needs no durable reversal
  st = "CONFIRMED" => FillIdentityMatches(l, "canonical")

LegSettled(l, st) ==
  IF st = "FAILED" THEN FillFailureSettled(l, "canonical")
                   ELSE FillIdentityMatches(l, "canonical")

\* A terminal leg goes through on_trade and must then be settled on disk; if it
\* is not, the sync raises and keeps every pin and the old checkpoint.
SyncLeg(e) ==
  /\ sync.pc = "apply"
  /\ e \in sync.todo
  /\ OnTrade(e[1], e[2], "canonical")
  /\ sync' = IF LegSettled(e[1], e[2])' THEN [sync EXCEPT !.todo = @ \ {e}] ELSE NoSync
  /\ UNCHANGED <<exchangeVars, windowVars, online, crashes>>

UnsettledForgotten == {}   \* mutant: a finished sync drops every pin

Unsettled ==
  pending \ UNION {Claims(e[1], "canonical") :
                     e \in {f \in sync.snapshot : f[2] \in {"CONFIRMED", "FAILED"}}}

SyncFinish ==
  /\ sync.pc = "apply"
  /\ sync.todo = {}
  /\ pending' = Unsettled
  /\ IF TooOld(Unsettled)
     THEN UNCHANGED <<checkpoint, online>>
     ELSE /\ checkpoint' = sync.start
          /\ online' = TRUE
  /\ sync' = NoSync
  /\ UNCHANGED <<exchangeVars, ledgerVars, memoryVars, crashes>>

\* kill -9 and restart at any point: the tables survive, memory does not.
Crash ==
  /\ crashes < MaxCrashes
  /\ crashes' = crashes + 1
  /\ applied' = {}
  /\ inflight' = [t \in Tokens |-> 0]
  /\ online' = FALSE
  /\ sync' = NoSync
  /\ UNCHANGED <<exchangeVars, ledgerVars, windowVars>>

-------------------------------------------------------------------------------
\* An initialized database.  Some legs may already be in it, in rows that an
\* older version wrote under the "trade:index" spelling, without identities.
Init ==
  /\ now = 0
  /\ \E old \in SUBSET Legs :
       /\ rows = {Id(l, "legacy") : l \in old}
       /\ status \in [Legs -> {"none", "open", "CONFIRMED"}]
       /\ \A l \in Legs : status[l] = "none" <=> l \notin old
  /\ matchedAt = [l \in Legs |-> 0]
  /\ identities = {}
  /\ pending = {}
  /\ checkpoint = 0
  /\ applied = {}
  /\ inflight = [t \in Tokens |-> 0]
  /\ online = FALSE
  /\ sync = NoSync
  /\ crashes = 0

Next ==
  \/ Tick
  \/ \E l \in Legs : Match(l)
  \/ \E l \in Legs, st \in {"CONFIRMED", "FAILED"} : Settle(l, st)
  \/ \E l \in Legs, s \in StreamSpelling,
        st \in {"MATCHED", "MINED", "RETRYING", "CONFIRMED", "FAILED"} : Deliver(l, st, s)
  \/ \E t \in Tokens : ExpireInflight(t)
  \/ \E full \in BOOLEAN : SyncRead(full)
  \/ SyncReadFails
  \/ SyncPin
  \/ \E e \in sync.todo : SyncLeg(e)
  \/ SyncFinish
  \/ Crash

Spec == Init /\ [][Next]_vars

\* The reconcile loop never stops calling the sync, and the history reads it
\* makes are not refused for ever.  Nothing is assumed of the user stream.
FairSpec ==
  /\ Spec
  /\ WF_vars(\E full \in BOOLEAN : SyncRead(full))
  /\ SF_vars(SyncPin)
  /\ WF_vars(\E e \in sync.todo : SyncLeg(e))
  /\ WF_vars(SyncFinish)

\* A position the ledger does not explain makes the next sync a full-day replay
\* (engine.py: full_day=startup or state_unknown), so these never cease either.
WholeDayRead ==
  \A l \in Legs : status[l] # "none" /\ matchedAt[l] >= DayStart =>
    \E e \in sync.snapshot : e[1] = l
ReplaySpec == FairSpec /\ SF_vars(SyncRead(TRUE)) /\ SF_vars(SyncPin /\ WholeDayRead)

-------------------------------------------------------------------------------
(* Properties *)

Counted(l) == \E s \in Spelling : Id(l, s) \in rows
Reversed(l) == \E s \in Spelling : ReverseOf(Id(l, s)) \in rows

\* Every variable has its type; in particular no in-flight guard goes negative
\* when an expired guard is cleared a second time.
TypeOK ==
  /\ now \in Time
  /\ status \in [Legs -> LegStatus]
  /\ matchedAt \in [Legs -> Time]
  /\ rows \subseteq FillId
  /\ identities \subseteq FillId \X FillId
  /\ pending \subseteq FillId
  /\ checkpoint \in Time
  /\ applied \subseteq FillId
  /\ inflight \in [Tokens -> Nat]
  /\ online \in BOOLEAN
  /\ sync \in [pc : {"idle", "read", "apply"}, start : Time,
               snapshot : SUBSET (Legs \X LegStatus), todo : SUBSET (Legs \X LegStatus)]
  /\ crashes \in 0 .. MaxCrashes

\* No leg is in the ledger twice, whatever spellings its messages used, in
\* whatever order and across restarts: cash moves once per leg (apply_fill).
ExactlyOnce ==
  \A r, q \in rows : r.leg = q.leg /\ r.kind = q.kind => r = q

\* A reversal belongs to a leg the exchange failed, and to the very fill the
\* ledger holds for it: a retried or confirmed leg is never taken back.
ReversalJustified ==
  \A r \in rows : r.kind = "reverse" =>
    /\ status[r.leg] = "FAILED"
    /\ [r EXCEPT !.kind = "fill"] \in rows

\* Every in-flight guard is one unsettled leg's, which will release it: replays
\* do not pile up guards that would hide a token from reconciliation.
GuardHasLeg ==
  \A t \in Tokens : inflight[t] <= Cardinality({i \in applied : TokenOf[i.leg] = t})

\* A sync that moves the checkpoint or drops a pin leaves every leg it was shown
\* either settled on disk as the exchange settled it, or pinned.
CheckpointSettles ==
  [][ checkpoint' # checkpoint \/ ~(pending \subseteq pending') =>
        \A e \in sync.snapshot :
          CASE e[2] = "CONFIRMED" -> Counted(e[1])' /\ ~Reversed(e[1])'
            [] e[2] = "FAILED" -> (Counted(e[1]) => Reversed(e[1]))'
            [] OTHER -> Id(e[1], "canonical") \in pending' ]_vars

\* The ledger is the abstract one: a leg enters once and leaves once.
Abstract == INSTANCE AbstractLedger WITH
  entries <- [l \in Legs |-> {s \in Spelling : Id(l, s) \in rows}],
  reversals <- [l \in Legs |-> {s \in Spelling : ReverseOf(Id(l, s)) \in rows}]
ImplementsAbstractLedger == Abstract!Spec

\* A leg whose optimistic fill was lost from memory before FAILED came: the sync
\* raises at it on every attempt.
Wedged(l) == status[l] = "FAILED" /\ Counted(l) /\ ~Reversed(l)

\* A pinned leg the exchange confirms gets into the ledger even if no message
\* ever tells, unless a pin is past its age or a wedged leg stops every sync.
PinnedLegSettles ==
  \A l \in Legs :
    (Id(l, "canonical") \in pending /\ status[l] = "CONFIRMED")
      ~> (Counted(l) \/ TooOld(pending) \/ \E k \in Legs : Wedged(k))

\* "MATCHED -> FAILED (roll back the optimistic fill, reconcile)", and "reverse
\* it on FAILED" (tracker.py): a counted leg that fails is reversed.
FailedLegReversed ==
  \A l \in Legs : (status[l] = "FAILED" /\ Counted(l)) ~> Reversed(l)
===============================================================================
