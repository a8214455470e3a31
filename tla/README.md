# A verification project for polymaker

polymaker is a market maker for prediction markets: one asyncio process quotes
both outcomes of a list of markets with post-only orders, follows its fills on a
user stream, and proves its own state against the exchange every few seconds.
Its dangerous mistakes are mistakes of bookkeeping: a fill counted twice, an order
nobody remembers, a position believed too long, a kill switch that does not hold. This
directory holds TLA+ models of that bookkeeping, of the quotes and the caps, of
the market feed, the regimes, the rewards, the life of the process and the live
test; TLC configurations that check them on small instances; and TLAPS proofs of
the safety properties that matter most, for all instances.

Line numbers below are those of `src/src/polymaker/`. `PROJECT.json` maps every
definition to its lines.

## The system

| Component | State | Operations | Talks to | What makes it correct |
|---|---|---|---|---|
| Fill ledger `state/store.py` | SQLite: `fills`, `fill_identities`, `positions`; memory: in-flight guards per token | `apply_fill`, `mark/clear/expire_inflight`, `fill_failure_settled` | called by the tracker and the sync | every maker leg counted once, reversed only if failed; guards neither leak nor go negative |
| Trade tracker `state/tracker.py` | memory: `_applied` | `on_trade`, `on_order` | user stream -> ledger, risk, quoters | lifecycle MATCHED -> CONFIRMED or FAILED under lost, repeated and reordered messages |
| Confirmed-trade sync `engine.py:297` | SQLite: pinned identities, checkpoint | `_sync_confirmed_trades` | trade history -> tracker | no observed leg is ever forgotten |
| Placement `engine.py:731` | local orders, `_placement_epoch`, three kinds of lock | `_recompute`, `_quarantine`, `_cancel_assets` | gateway, store | at most the intended orders live; never an order nobody tracks |
| Authoritative reconciliation `engine.py:385` | `_state_unknown`, `_state_unknown_quarantined`, baselines, on-chain proof | `_reconcile_authoritative_state`, `_check_position_divergence` | sync, gateway, store, risk | publishes only a snapshot nothing moved under; otherwise fails closed and cancels once |
| Heartbeat `engine.py:1022` | failure count, `_hb_was_down` | `_heartbeat_loop` | gateway, store | local orders follow the exchange's dead-man wipe |
| Risk manager `risk/manager.py` | day, baseline, kill flags, error counters, marks; a `risk_state` row per UTC day | `global_halt`, `note_fill`, `reconcile_cash_ledger`, `evaluate`, `fit_target_reservation` | engine, store | the kill switch and the daily loss survive restarts; what is placed could all fill below the caps |
| Commands `cli.py` | none of their own | `halt`, `resume`, and starters of everything else | a second process on the same database | a halt halts |
| Reconciler `execution/reconciler.py` | none | diff of target and live orders | placement | keeps what is close enough, never both cancels and keeps |
| Gateway `execution/gateway.py`, `ratelimit.py` | token buckets, thread pool, heartbeat chain | place, cancel, reads | exchange | a failed read is an error, never an empty answer |
| User stream `userstream/` | connection | parse, deliver, reconnect | exchange -> tracker | a reconnect forces a reconciliation |
| Market data `marketdata/` | order books, `disconnected_since` | snapshots, deltas, resubscription, REST refresh | exchange -> quoters | the book is the exchange's unless a message was lost, and becomes it again; blind quotes are pulled |
| Strategy `strategy/` | estimators, `_event_until`, `_trending`, the midpoint guard | fair value, regime, quotes | placement | bids keep their edge, a pair costs less than a whole; a cool-off is served and ends |
| Reward entries `strategy/rewards.py`, `catalog/rewards.py` | reward rates, `_reward_entry_cids` | two paged readings, allocation | metadata refresh, placement | entries fit the caps; a half-read listing removes nothing |
| Metadata `engine.py:1163`, `catalog/` | `_halted`, market parameters | refresh | Gamma, placement | a closed market is not quoted |
| Lifecycle `engine.py:139`, `cli.py` | tasks, `_running`, the gateway's thread pool | `start`, `_supervise`, `run_forever`, `shutdown` | everything | a dead task runs again or the process ends; no order outlives either unexplained |
| Live test `livetest.py` | one order | place, observe, cancel, confirm | gateway | the order does not outlive the test silently |
| Merger `merge.py` | `_chain_lock`, `_merging` | merge transactions | chain | one transaction at a time |
| Backtest, doctors, control panel, monitoring, alerts, journal | | offline or read-only | | not part of the trading path |

Everything concurrent is one event loop: a handler runs undisturbed up to its next
await, and all orders of tasks at awaits are possible. The second source of
interleavings is the exchange, which acts between a request and its answer, and
the third is the operator's `halt` and `resume`, a second process. Failures are
lost or late answers, lost, repeated and reordered stream messages, the
exchange's dead-man switch, and a kill of the process between any two commits.
`PROJECT.json` lists the hazards line by line with the properties that cover them.

## Modules

### `FillLedger` (refines `AbstractLedger`)

`AbstractLedger` is the promise: a leg (one of our maker orders inside one
exchange trade) enters the ledger at most once, after it was matched; it leaves by
one reversal, after it failed; it never returns.

`FillLedger` is the code. `rows` and `identities` are the two tables and
`ApplyFill` their transaction, with the backfill of rows older than the identity
table, the identity conflict that rolls back, and the binding of a second spelling
to the first owner. `OnTrade` is `on_trade`, one definition per status. A payload
that names our order spells a leg `trade:order` and claims `trade:index` too; one
that does not spells it `trade:index`. The user stream delivers anything it has
emitted, any number of times, at any moment it is connected.
`SyncRead`, `SyncPin`, `SyncLeg` and `SyncFinish` are `_sync_confirmed_trades`,
cut at its await and at its commits; `Crash` can come between any two.

Abstracted: prices and sizes (a leg has one economics, so two rows of a leg always
match), the payload checks (one refusal, `SyncReadFails`), and positions, which are
in `AuthoritativeSync`. The run lets the stream spell legs the older way while the
history spells them the canonical one; the proofs cover every mixture.

### `PlacementGate`

A market is one token with at most one wanted order. `quoter[m].pc` follows
`_recompute` through the reservation lock, the cancellation, the placement lock,
`can_place`, the post and its answer, and the quarantine. `recon` is the reconcile
loop: epoch, reads, all market locks in any order, the placement lock, publication
or refusal, and the cancellation of an unknown-state episode. `beat` is the
heartbeat loop. The exchange keeps the truth in `exch`; `local` is what the
engine believes.

`_placement_epoch` is only compared for equality with an earlier copy, so the model
keeps the set of tasks whose copy is still equal, and no counter needs a bound.
The grace period of `replace_open_orders` is `young`: an order ages at any time,
but not between the read of a snapshot that lacks it and that snapshot's use,
which is what `grace_s` is for.

Abstracted: why a quoter wants an order (any choice), sizes and prices, what the
reconciliation proves about trades and positions (it may refuse; see
`AuthoritativeSync`).

### `RiskState`

The RiskManager's memory, the table with one row per UTC day, and the two commands
that build a RiskManager of their own on the same table. Equity is a small number
that fills, marks and restarts move at will, because a restart loses marks. Each
handler includes the day rollover and the write it makes. The counters of the
error-rate breaker are left out; what they can do, stop placements, is
`GlobalHalt` of `PlacementGate`.

### `AuthoritativeSync`

How the engine knows what it holds. The chain is the truth (`chain`); the exchange
serves positions from an older balance (`rest`), truncated and without dust; trades
and messages tell of legs; and the database holds four things that are committed one
after the other: the ledger, the positions, the baseline that turns the ledger's sum
into an inventory, and the retained proof, a row of balances read from the chain when
it contradicted the positions.

`cycle.pc` is `_reconcile_authoritative_state` cut at its awaits: `Begin` restores the
exposure of a proof, `SyncPins`/`SyncLeg`/`SyncDone` are the trade sync (twice, when
positions are not explained), `ReadPositions` and `Judge` the snapshot and the proof,
`ReadBalances` and `VerifyNewer` the fresh balances, `Replayed` the judgement after
the replay, `Publish` and `PublishRefused` the last proof under the locks. `CheckBegins`
to `CheckEnds` are `_check_position_divergence`, which the same task calls.
`cycle.moved` stands for the ledger revision: the stream's fills set it, replayed ones
are added to the revision and do not. Each of the four `Crash` actions leaves the disk
between two commits.

Abstracted: `FillLedger`'s rows and spellings (a leg is counted or not), the clock (a
window is a set of legs: all pinned ones, the whole day if the whole day is asked for,
and `Forget` lets a leg leave every window), the relative part of the drift tolerance,
average prices, and what other tasks do to `_state_unknown`. `_apply_authoritative_positions`
and `reconcile_positions` are not modelled: nothing calls them.

### `Quoting` and `QuoteCycle`

`Quoting` holds the pure functions: `ConstructQuotes` (layers, the reward band, the
reduce-only exits), `FitToHeadroom` and `Reconcile`. A price is an integer number of
sub-units, so that fair values lie between ticks and the roundings are exact.

`QuoteCycle` runs them. `Price` is `_recompute_locked` up to the reservation lock,
`Fit` takes it, fits the target and diffs it with the live orders; `Cancelled` and
`Posted` are the two calls. Around them the exchange fills orders (`Fill`), and the two
messages of a fill, the trade and the end of the order, come one by one (`Trade`,
`OrderGone`). What a recompute finds in the market is an input from a small set.

What a reader should know of the properties:

* The caps are exact for what is placed (`Reserved`), against the positions held when
  the target was fitted. A fill between the fit and the post raises the exposure above
  the plan, and the code accepts that until the next recompute.
* The profile of the run has no tolerances. With a reprice or resize tolerance a kept
  order may be larger or dearer than the fitted one, so that caps hold up to the
  tolerance; with a bounded reprice (`max_reprice_ticks`) `EdgeKept` can fail by the design
  of that setting.
* The size of a SELL is read from the position before the reservation lock; a fill
  between them is not seen.
* `min_levels` is at least 2: with one candidate `quoting.py` would index past its list.

Abstracted: floating-point estimates (inputs), a cancellation that worked in part
(all or none of it), the placement gate (one step that may refuse; `PlacementGate`).

### `MarketFeed`

One token's book. `xbook` is the exchange's; `chan` the messages of one connection, in
order; `fetch` the answer a REST refresh waits for, taken when it was asked for. `Receive`
applies snapshots and deltas as `parse.py` and `orderbook.py` do; `Missed` loses or
garbles a message; `Drop`, `ConnectFails` and `Connect` are the reconnect loop with
`disconnected_since`; `RefreshAnswered` is the maintenance loop's drift check.
`FeedRecompute` is the part of `_recompute_locked` that looks at the book: its early
returns, then the kill and the age of the data. Sizes are left out.

### `Regime`

`RegimeMachine.decide`, `MidpointGuard.update`, the sweep flag of a trade print and the
quoter's wait. Deadlines are the time left. The EMA and the median of the guard are left
out: an observation says how far the midpoint moved and how strong the trend signals are.

### `RewardRefresh`

`refresh_market_metadata`: Gamma, the paged listing with its retries, the paged
competition, then the application market by market. `_apply_meta_refresh` and
`_refresh_reward_entry_allocation` follow each other without an await but other tasks
look between the markets, so each market is a step. The sort of the candidates and the
loop over them are one recursion that takes the last candidate off. `unlisted` is a history variable:
the markets that were without rewards at some moment of the refresh.

### `Lifecycle`

`start`, `_spawn`, the supervisor, `run_forever` with the tasks `gather` waits for,
`shutdown`, the pool of the gateway and a kill of the process. A quoter catches its own
exceptions; `"other"` stands for the streams and loops that do not. `left` says why an
order may outlive the engine. The restart of a process is in `FillLedger`, `RiskState`
and `AuthoritativeSync`.

### `LiveTest`

`run_livetest`: post, observe, cancel by id, confirm, cancel the token, confirm, close;
Ctrl-C at any moment, with the shields of the code; answers that are lost or lag.

### `MCParts`

The last five modules share no variable. `MCParts` gives them a sum: `part` is chosen at
first and never changes, its module moves, and the others rest in a state where none of
their fair actions can happen. A behaviour of the sum is one of a part, so each property
means what it means in its module; the temporal ones are restricted to their part.

## Runs

| Run | Instance | Shows |
|---|---|---|
| `FillLedger` | 2 legs of one token, every tick a UTC rollover, 1 crash, both spellings, fairness | the ledger is exact and implements `AbstractLedger`; guards belong to legs; a checkpoint is earned; a pinned leg that confirms is counted without the stream's help |
| `FailedNotReversed` | 1 leg, 1 crash | finding 1 |
| `PlacementGate` | 2 markets, 2 orders, 1 fault, halts | locks return on every way out; no second live order; no untracked order while placing |
| `PlacementGateOpen` | 2 markets, 1 order, lagging snapshots, in-flight fills, 1 heartbeat gap | a quarantined episode leaves nothing at the exchange |
| `PlacementGateLive` | 2 markets, 1 order, 1 fault, fairness | halted markets drain; unknown-state episodes end |
| `HeartbeatDoubleOrder` | 1 market, 2 orders, a heartbeat gap | finding 2 |
| `RiskState` | 3 UTC days, equity 0..2, loss limit 1 | a kill holds; a baseline is not moved |
| `HaltOverwritten` | 1 day, a halt while the engine runs | finding 3 |
| `AuthoritativeSync` | 1 token, 1 SELL of all of it, 1 transfer, 1 leg outside the windows, 1 crash, fairness | proofs hold; the engine resumes on explained positions; drift is noticed; the engine comes back |
| `StaleAfterReplay` | 1 BUY, no crash | finding 4 |
| `QuoteCycle` | 2 markets of one event with two profiles, four states of the first market, 1 fill | caps, fitted orders that stay, pairs below a whole, edges |
| `Parts` | one part at a time: 4 prices, 2 moves, 1 lost message, 1 lost connection; a cool-off of 4; 2 reward markets on 2 pages; 2 tasks that raise; the attempts of `livetest.py`; fairness | the properties of the five modules above |

Bounds. Two legs of one token are the least that share an in-flight guard, one leg
pinned while another settles, and one wedged while another waits; identities never
relate more than two rows. The clock of `FillLedger` crosses UTC days and lets a pin outlive
its age. One crash per behaviour suffices for the safety properties because a
crash leaves nothing behind but the tables, which an earlier part of the behaviour can
bring into any state a second crash could start from. In `AuthoritativeSync` one
token suffices because tokens meet only in conjunctions (all explained, all proved, no
guard), and one leg because it can be counted, served, mined and confirmed in every
order beside the cycle; that no number of trades explains an unexplained one is the
transfer's part. Two markets are the least that contend for the reservation and
placement locks; two orders the least that can double. One fault reaches each failure
path from each state; the violation that needs two has them. Symmetry is used for
safety runs only.

In `QuoteCycle` two markets of one event reach the market's and the event's cap; the
total is the event's formula over all markets and, with a single event, does not bind
before it. The four states of the first market are quiet, trending with a
one-sided book, falling, and a shock, and the second market is entered for rewards only.
One fill reaches each stage of each recompute. In `Parts` one lost message and one lost
connection meet in every order with two moves of the book and a REST answer older than
both; the cool-off is longer than the guard's pauses and shorter than the tick, so that
every deadline can be the last one; two pages are the least a market can move between,
one change the least that makes them disagree; two tasks that raise are a task that is
restarted and fails again.

`NoDoubleOrder` and `UntrackedMeansUnknown` are checked without heartbeat gaps,
in-flight fills at publication and lagging answers. With a heartbeat gap the first is
false (finding 2). Publication skips the orders of a token with an in-flight fill just
as it skips its position (finding 4), so that an order whose answer was lost and whose
cancellation failed stays untracked there: set `Busy` in `PlacementGate.cfg` to see it.
An answer that lags for longer than the grace period defeats any implementation of it.

`FillLedger` and `FailedNotReversed` switch deadlock detection off: when the clock, the
legs and the crash budget are used up and the sync raises at a pin past its age, nothing
is left to happen. That is the fail-closed state the code intends. `Parts` switches it
off because a process and a test really end.

## Fairness

`FillLedger!FairSpec`: the reconcile loop goes on calling the sync (weak), the
history is not refused for ever (strong fairness of the step after the read), and
the sync's steps after the read have no await. Nothing is assumed of the stream.
`ReplaySpec` adds full-day replays, which the loop makes whenever a position is not
explained; finding 1 holds even then.

`PlacementGate!FairSpec`: asyncio locks are handed over in the order of waiting and
each gateway call returns or times out, so each task gets its turns (strong
fairness for quoters and the reconcile loop, weak for the heartbeat). The bound on
faults says that failures stop; without it no recovery could be promised. Kills,
halts and order events are not fair. `HaltDrains` needs the exchange to carry out
cancellations that succeed, which is what success means.

`AuthoritativeSync!FairSpec`: the loop and the service manager begin cycle after cycle
(weak), steps without an await happen, and no read fails for ever (strong); a position
check that is due is not always lost to a failed round, and guards expire by age before
a cycle begins (strong). Nothing is assumed of the stream, the chain or the served
positions: `RecoversUnlessRounded` presumes in its antecedent that the exchange has come
to rest. Beginning again after a failed startup is the operator's part.

`FeedFair`: time passes, messages that have arrived are handled, the maintenance loop and
the quoter run (weak), and not every refresh fails (strong). Nothing is assumed of the
connection: `BookCatchesUp` holds without one, by the REST refresh.
`RegimeFair`: time passes and a wait that has timed out ends.
`RewardFair`: the loop refreshes again and again (weak), and no page fails for ever
(strong, page by page).
`LifeFair`: calls return, the supervisor looks, a registered dead-man switch fires;
nobody has to stop the engine. `LiveTest` and `QuoteCycle` state safety only.

## Proofs

Each module of proofs states an inductive invariant and proves that `Init` implies
it, that every step keeps it, one lemma or step per action, and that it implies the
property. All are for every value of the constants that satisfies the named assumptions
of the module, and the hypotheses the table names.

| Module | Theorem | Inductive invariant |
|---|---|---|
| `FillLedger_proofs` | `TypeCorrect`, `LedgerExactlyOnce`, `ReversalsJustified`, `GuardsHaveLegs` | `IInv`, `GuardInv` |
| | `LedgerRefines`: `Spec => ImplementsAbstractLedger` | `IInv` |
| | `CheckpointIsSafe`: `Spec => CheckpointSettles` | `IInv`, `SyncInv` |
| `PlacementGate_proofs` | `LocksAreReturned`: `[]TypeOK` | `TInv` |
| | `QuarantineIsEmpty`: `[]QuarantineEmpties` | `GInv` |
| | `NoOrderUntracked`, `OneOrderPerMarket` if `Prompt` | `PInv` |
| `RiskState_proofs` | `TypeCorrect`, `HaltIsKept`, `LossKillIsKept`, `BaselineIsKept`, the last three if `HaltLive = FALSE` | `HInv`, `KInv` |
| `AuthoritativeSync_proofs` | `TypeCorrect`, `ProofSurvives`, `ResumptionIsExplained` if there are finitely many legs | `PrInv` |
| `Market_proofs` | `CooloffIsServed`: `[]CooloffServed` of `Regime` | `RInv` |
| | `FeedTypeCorrect`, `FeedStaysInSync`: `[]FeedInSync` | `FInv` |
| `RewardRefresh_proofs` | `RemovalsAreReal`: `NoFalseRemoval`; `RewardTypeCorrect`; `EntriesAlwaysFit`: `[]EntriesFit` | `NInv`, `RewardInv` |
| `QuoteCycle_proofs` | `TypesHold`: `[]TypeOK` | `Typed`, `RawEdged` |
| | `EdgeHolds`: `[]EdgeKept` if `NoBoundedMoves` | `Quoted` |
| | `PairsHold`: `[]PairLocks` if, besides, `TightReprice` | `Quoted`, `Locked` |
| | `ReservationsHold`: `[]Reserved` if `NoTolerances` | `Quoted`, `Booked` |
| | `StableHolds`: `[]Stable` if `NoBoundedMoves` | `RawEdged`, `Owed` |
| | `MovesFollow`: at every `Fit`, `Followed`, for all settings | `RawEdged` |
| `Parts_proofs` | `EndIsExplained`, `TestIsClean`, `PartsTypesCorrect`: `[]PartsTypeOK` | `LInv`, `TInv` |

`FillLedger`. `ExactlyOnce` is not inductive: a new fill is new only if an old one of its
leg could have been found. `IdentityInv` says that it can: each identity belongs to a row
of its leg and kind, and a row under the canonical spelling also owns the older one,
which every message claims (`BackfilledOwners`, `AcceptedFillIsNew`). `MemoryInv` ties
the processor's `_applied` to rows in the ledger and a snapshot's terminal statuses to
the exchange, which is what a reversal is justified by. `TradeKeepsLedger` does this for
`on_trade` whatever its message. `GuardInv` counts: a handler marks a guard exactly when
it remembers a leg and clears one when it forgets it, so that guards never outnumber legs.
`SyncInv` follows a leg from the snapshot to the checkpoint: it is still to be done, done,
or pinned, so that a checkpoint that passes it finds it settled.

The refinement. `TradeAddsOneRow` says what a message may do: nothing, the first fill
of its leg, or the first reversal of a failed leg under the spelling of its fill.
`FillCounts` and `ReversalReverses` map these to `Count` and `Reverse`, `ExchangeSteps`
the exchange's steps; everything else, crashes included, stutters.

`PlacementGate`. Types include who holds which lock (`Locked`), from which it follows that
every way out returns it. No order reaches the exchange in quarantine because no task is
posting and none starts while the state is unknown. When the quarantine is declared that
holds because the cancellation was made under the placement lock, under which the markets
it has left behind are and stay empty (`Emptied`). `PInv` says where an order of the
exchange is known (`Track`): in the local view, in the hands of the task that waits for its
answer, or young while a snapshot without it is on its way. `Prompt` is what that needs and
the code does not enforce: no heartbeat gap (finding 2), no answer older than the grace
period, and no in-flight fill at a publication, which skips the orders of its token. Without
the first `NoDoubleOrder` is false; the others are the bounds explained above.

`RiskState`. The newest row carries the order. While an engine runs, no row is newer than
its own day (`Latest`) and it remembers the order (`Remembered`), so that each of its
writes, a rollover's included, repeats it. `HaltLive = FALSE` is needed: finding 3. For the
loss, `KInv` says that the memory and today's row agree: on the kill always, on the baseline
unless the engine is still starting.

`AuthoritativeSync`. A proof is only dropped by a publication that says what the proof
says or what the chain answered. What has to be carried through the cycle is that a snapshot past its
verdict says of each proved token what the proof or the chain said (`Judged`), also
through the replay, in which the snapshot is judged again; that there is a proof only once
there is a baseline (`ProvedOnce`), that the position check runs with a baseline and without a proof
(`Settled`), and that no cycle begins as a replay (`Fresh`). `IsFiniteSet(Legs)` makes the sums over
the legs numbers.

`Market`. What is owed of a cool-off is inside the event horizon, and the wait plus what
is late already is at most the horizon plus one, because the next wait is capped by it.
The book: a connection begins with a snapshot and goes on with deltas (`SnapshotFirst`);
whoever missed nothing, or has the snapshot still before it, gets to the exchange's book
when the messages under way are applied (`InStep`), and the messages of an idle channel
are none. `FirstBookAssumption` says that the exchange does not start with a crossed book.
`Replay` is a fold; the proof turns it into the sequence of the books it passes through,
which a message more extends at its end and a message received shortens at its front.

`RewardRefresh`. Of the pages read, each market is in what was got or was without rewards
since the refresh began; the last page makes that true of all markets (`NInv`). For
`EntriesFit` the order in which candidates are tried is shown to be a strict total order
(`Before`), so that every nonempty set of candidates has one last (`LastExists`) and
the greedy choice is a recursive function over sets whose value exists (`LoopExists`).
`EnteredFits` is then an induction over the number of candidates: what was entered
without the last one fits each cap, and the last one is let in only if it still does. A
market without an event has none to be capped by (`NoEvent`); the run has no such market
and the proof covers it.

`QuoteCycle`. The first half of the module is about the operators of `Quoting`.
`QuotesConstructed` says that every quote of `ConstructQuotes` is on the grid and of at
least the minimal size, and every BUY has its edge, wherever the reward band, the touch or
the skew drew it; `Fitted` that `FitToHeadroom` keeps that and costs no more than the
headroom (a sum of floors is at most the floor of the sum); `RoomIs` that the room fits
each of the three caps; `Reconciled`, `ReconciledEdged` and `ReconciledExact` what the
reconciler keeps and places. `FreeIds` says that a new order gets an id no other has.

`TypeOK` holds of the orders because it held of the quotes they were, so the invariant
carries `RawEdged`: a mark moves only with the raw quotes of its market. `Quoted` says
that what is planned has its edge at the current mark and that the orders it will rest
beside are, but for the tolerance, no dearer than the target they were kept for. A pair is
formed only by `Posted`, the only step that adds orders (`OnlyPosted`); one of the two is
then new, with its full edge, and the other is within the tolerance of the same fair value
(`PairBelowOne`). For `Reserved`, `Booked` says that the claim of the one market that holds
the reservation lock, its kept and its planned orders beside the BUYs of all others, is
within the caps. Others can only lose orders while it waits (`Shrunk`), because `Fit` and
with it every placement waits for the lock.

`Stable` is about a second run of the reconciler on the result of the first. `Planned` says
what the first run does: each target keeps the first order that serves it and is not kept
yet, or is placed, and the targets placed are what is planned, in their order (`Plans`).
`Owed` carries this from the fit to the post: orders go meanwhile and the others move up
(`Thinned`), but if at the end exactly the kept ones are there, it still holds of them
(`OwedKept`). With the placed quotes beside them (`PlacedServe`) the second run gives each
target what the first gave it: an order before it that would serve it too is kept for an
earlier target (`PassedOver`), also in the second run (`PlansAgain`). The tolerances may
have any value.

The hypotheses are settings. `NoBoundedMoves` is `max_reprice_ticks_per_update = 0`, the
default of `StrategyProfile`; with more, an order follows the fair value in steps and
may rest above the edge meanwhile. `TightReprice` asks for a tolerance below `min_edge_ticks`,
and for a tick small beside a whole; `NoTolerances` for none at all, as a kept order may
otherwise be larger or dearer than the target that was fitted. The profiles in
`strategy.toml` move in bounded steps of 3 or 4 ticks, tolerate 2 or 3 and have an edge of 1:
for them the bounds hold up to these settings and none of these four theorems applies.
The profiles of the run meet all three hypotheses. What holds for the shipped profiles is
`MovesFollow`: a BUY above the edge is planned only where the reconciler leads an order
down, exactly one bounded step below one of its outcome that rests at the fit. `Stable`
presumes no bounded moves because such a step stops short of its target, and the next
recompute is meant to go on.

`Parts`. Calls and orders left behind have their reason recorded at the step that leaves
them, and nothing takes the reason back. The types of the sum are those of the five parts:
the part that moves keeps its own, and the others rest.

Induction over data. The library's induction theorems cannot be instantiated here, but a
set of naturals has a least element by a theorem without operator parameters (`WFMin`).
`Least` and `Induction` of `RewardRefresh_proofs` restate that as an induction over the
members of a set, which is first order, and recursion over finite sets and over messages is
proved about with them. `QuoteCycle_proofs` does the same for its sums, which the community
modules define by folds, for `Pick` and for `Reconcile`. These two are recursive functions in
the model, as the prover knows nothing of `SelectSeq` and `FoldLeft`.

Only model-checked: all liveness, as the prover has neither ENABLED nor fairness. Every
invariant of the passing runs is proved, and their action properties
(`NoFalseRemoval`, `HaltPersists` and the like) are proved from the invariants.

## Findings

1. **A failed leg stays in the ledger after a restart** (`FailedNotReversed`).
   `on_trade` reverses from `_applied`, which lives in memory. A crash between
   MATCHED and FAILED loses it. The sync then raises at the leg for ever: the code
   fails closed but cannot recover by itself.
2. **Two live orders after a heartbeat gap** (`HeartbeatDoubleOrder`). The resync
   takes no lock and uses no grace, so it can forget an order placed meanwhile.
3. **A halt does not reach a running engine and does not stay on disk**
   (`HaltOverwritten`). The engine writes its own row and never reads it again.
4. **A stale position passes for known** (`StaleAfterReplay`). A failed replay
   overwrites the position of a token whose fill is in flight by a lagging snapshot;
   the next cycle skips that token and declares the state known. `ResumesExplained`
   is what remains true: tokens without a guard are right at that moment.

Divergences met while modelling that have no run of their own; where a property had to
presume their absence, its comment says so:

* A book with a side missing, or crossed, ends the recompute before the kill and the age
  of the data are asked for: quotes rest until the book can be read (`BlindPulled`).
* Shutdown can leave an order whose post was in a worker's hands (`DownExplained`).
* A task that raises ends the whole engine through `gather` (`engine.py:196-199`); the
  supervisor only keeps alive tasks that end without an exception and those it has
  restarted before (`NeverHalfDead` allows both).
* A proof is compared to six decimals with positions that are truncated to four and leave
  out dust, so that some proofs can never be met (`RecoversUnlessRounded`).
* The operations guide asks for fresh balances before a retained proof is dropped; the code
  also drops it when the served positions equal it (`ProofHolds` states what the code does).
* A closed market keeps its rate and its place among the reward entries (`EntriesFit`).
* A sweep that is seen while the market is halted starts no cool-off (`CooloffServed`).
* The README (`README.md:158-159`) says that risk reservations run after the bounded move. The
  code fits the target to the caps first (`engine.py:875-891`) and the reconciler moves it
  afterwards (`reconciler.py:51-61`), so that a bid that is led down rests above the price
  that was fitted; `Reserved`, `PairLocks` and `EdgeKept` are proved without such moves and
  what they do is `MovesFollow`. A tolerance lets a kept order exceed its fitted target too.
* A second Ctrl-C during a shielded wait of the live test leaves it in a loop; a read that
  lags is trusted (`TestCleans`).

## Not modelled, and the plan

What a next step would take, in this order:

1. `Merger`: a receipt that times out, the nonce that is used again, `_chain_lock` against
   the position check. It is off by default and its failures are the chain's.
2. Two legs that share one index because two payloads list the orders differently
   (`parse.py:68`): order ids as data in `FillLedger`.
3. The first baseline of a day that already has trades (`engine.py:453`), in
   `AuthoritativeSync`, which starts without any.
4. Bounds for `Reserved` and `PairLocks` that leave room for tolerances and bounded moves, and
   a run with a profile of `strategy.toml`.

Left out for good: signing and HTTP and most checks of response shapes; estimators in
floating point; catalogue scoring; the token bucket of the rate limiter, which only
delays; the backtest, an offline and deterministic replay; control panel, monitoring,
alerts, journal and logs; configuration, whose values are the CONSTANTS here. They are
I/O, or formulas without state that the trading path would have to get right.
