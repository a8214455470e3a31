----------------------------- MODULE RewardRefresh -----------------------------
(***************************************************************************)
(* What the engine knows of its markets' rewards, and which markets it     *)
(* enters for them.                                                        *)
(*                                                                         *)
(*   engine.py            refresh_market_metadata, _apply_meta_refresh,    *)
(*                        _refresh_reward_entry_allocation                 *)
(*   catalog/rewards.py   fetch_reward_markets and the paging below it     *)
(*   strategy/rewards.py  reward_entry_markets                             *)
(*                                                                         *)
(* The official listing is read page by page, twice: first the rewards,    *)
(* then the competition of the markets found.  The exchange changes both   *)
(* while they are read.  A rate of 0 stands for a market without rewards;  *)
(* of the competition only its presence counts.                            *)
(***************************************************************************)
EXTENDS Integers, FiniteSets, Functions

CONSTANTS
  Conditions,   \* our markets, numbered in the order of their ids
  Rates,        \* daily rates
  PageOf,       \* market -> the page that lists it
  Pages,        \* the number of pages
  MaxPages,     \* max_pages
  MaxRetries,   \* max_retries
  Required,     \* market -> rewards_min_size * reward_size_mult
  EventOf,      \* market -> its event, or NoEvent
  MaxTotal, MaxMarket, MaxEvent,  \* the caps
  MaxChanges    \* bound: changes of the listing and of what is closed

ASSUME RewardAssumption ==
  /\ Conditions \subseteq Nat /\ IsFiniteSet(Conditions) /\ 0 \in Rates /\ Rates \subseteq Nat
  /\ Pages \in Nat \ {0} /\ PageOf \in [Conditions -> 1 .. Pages]
  /\ {MaxPages, MaxRetries, MaxTotal, MaxMarket, MaxEvent, MaxChanges} \subseteq Nat
  /\ Required \in [Conditions -> Nat]

VARIABLES
  listed,   \* exchange: market -> its rate
  closed,   \* exchange: markets that accept no orders
  rate,     \* Engine.metas: market -> rewards_daily_rate
  halted,   \* Engine._halted
  entries,  \* Engine._reward_entry_cids
  reader,   \* the refresh under way
  unlisted, \* history: markets that were without rewards since it began
  changes

rewardVars == <<listed, closed, rate, halted, entries, reader, unlisted, changes>>

NoEvent == 0   \* event_id is None

NoMap == [c \in {} |-> 0]
ReaderIdle == [pc |-> "idle", raws |-> NoMap, page |-> 1, tries |-> 0, got |-> NoMap,
               active |-> NoMap, todo |-> {}]

-------------------------------------------------------------------------------
(* strategy/rewards.py *)

\* Candidates: rewarded, and no larger than one market may be.
Candidates(rates) == {c \in Conditions : rates[c] > 0 /\ 0 < Required[c] /\ Required[c] <= MaxMarket}

\* Rewards per reserved dollar, then rewards, then the id.
Before(rates, c, d) ==
  \/ rates[c] * Required[d] > rates[d] * Required[c]
  \/ /\ rates[c] * Required[d] = rates[d] * Required[c]
     /\ rates[c] > rates[d] \/ (rates[c] = rates[d] /\ c < d)

Reserved(chosen) == SumFunctionOnSet(Required, chosen)

OfEvent(chosen, c) == {d \in chosen : EventOf[d] = EventOf[c]}

FitsTotal(chosen, c) ==   \* mutant: the event's cap is not asked
  Reserved(chosen \union {c}) <= MaxTotal

FitsCaps(chosen, c) ==
  /\ Reserved(chosen \union {c}) <= MaxTotal
  /\ EventOf[c] # NoEvent => Reserved(OfEvent(chosen, c) \union {c}) <= MaxEvent

\* The one that the sorted loop comes to after the others.
LastOf(rates, those) == CHOOSE c \in those : \A d \in those \ {c} : Before(rates, d, c)

\* The loop, by the set of candidates it has gone through.
RewardEntryMarkets(rates) ==
  LET entered[those \in SUBSET Candidates(rates)] ==
        IF those = {} THEN {}
        ELSE LET c == LastOf(rates, those)
                 chosen == entered[those \ {c}]
             IN  IF FitsCaps(chosen, c) THEN chosen \union {c} ELSE chosen
  IN  entered[Candidates(rates)]

-------------------------------------------------------------------------------
(* fetch_reward_markets *)

Wanted == IF reader.pc = "active" THEN Conditions ELSE DOMAIN reader.active

RefreshBegins ==
  /\ reader.pc = "idle"
  /\ reader' = [ReaderIdle EXCEPT !.pc = "gamma"]
  /\ unlisted' = {c \in Conditions : listed[c] = 0}
  /\ UNCHANGED <<listed, closed, rate, halted, entries, changes>>

\* What Gamma says is open; it may leave out markets, or fail altogether.
ReadGamma ==
  /\ reader.pc = "gamma"
  /\ \E told \in SUBSET Conditions :
       reader' = [reader EXCEPT !.pc = "active", !.raws = [c \in told |-> c \notin closed]]
  /\ UNCHANGED <<listed, closed, rate, halted, entries, unlisted, changes>>

\* The end of both readings: a complete snapshot, or none.
Complete(snapshot) ==
  [reader EXCEPT !.pc = "apply", !.got = snapshot, !.active = NoMap, !.todo = Conditions]

\* A partial catalogue would make missing markets look like removals.
NoSnapshot ==
  [reader EXCEPT !.pc = "keep", !.got = NoMap, !.active = NoMap, !.todo = Conditions]

\* What follows the last page.
AllRead(got) ==
  IF reader.pc = "active"
  THEN IF got = NoMap THEN Complete(NoMap)
       ELSE [reader EXCEPT !.pc = "competition", !.active = got, !.got = NoMap, !.page = 1,
                           !.tries = 0]
  ELSE IF DOMAIN got = Wanted THEN Complete(reader.active) ELSE NoSnapshot

PageRows == {c \in Wanted : PageOf[c] = reader.page /\ listed[c] > 0}

\* A page; markets of earlier pages may come again, with the rate they have now.
ReadPage ==
  /\ reader.pc \in {"active", "competition"}
  /\ \E again \in SUBSET {c \in DOMAIN reader.got : listed[c] > 0} :
       LET rows == PageRows \union again
           known == DOMAIN reader.got
           got == [c \in known \union rows |-> IF c \in known THEN reader.got[c] ELSE listed[c]]
           conflict == reader.pc = "active" /\ \E c \in known \intersect rows : got[c] # listed[c]
       IN  reader' =
             IF conflict THEN NoSnapshot
             ELSE IF DOMAIN got = Wanted \/ reader.page = Pages THEN AllRead(got)
             ELSE IF reader.page = MaxPages THEN NoSnapshot
             ELSE [reader EXCEPT !.got = got, !.page = @ + 1, !.tries = 0]
  /\ UNCHANGED <<listed, closed, rate, halted, entries, unlisted, changes>>

PageGivenUp ==   \* mutant: what was read until then counts as the catalogue
  /\ reader.pc \in {"active", "competition"}
  /\ reader' = AllRead(reader.got)
  /\ UNCHANGED <<listed, closed, rate, halted, entries, unlisted, changes>>

\* A request that may be tried again; after that, or at once for a row or a cursor
\* that makes no sense, there is no snapshot.
PageFails ==
  /\ reader.pc \in {"active", "competition"}
  /\ \/ reader' = NoSnapshot
     \/ reader.tries < MaxRetries /\ reader' = [reader EXCEPT !.tries = @ + 1]
  /\ UNCHANGED <<listed, closed, rate, halted, entries, unlisted, changes>>

-------------------------------------------------------------------------------
(* The rest of refresh_market_metadata *)

Applying == reader.pc \in {"apply", "keep"}

RateKept(c) ==   \* mutant: absence from a complete snapshot is not acted upon
  IF c \in DOMAIN reader.got THEN reader.got[c] ELSE rate[c]

\* _apply_meta_refresh; a market that Gamma calls closed keeps what it had.
RateAfter(c) ==
  IF reader.pc = "keep" \/ (c \in DOMAIN reader.raws /\ ~reader.raws[c]) THEN rate[c]
  ELSE IF c \in DOMAIN reader.got THEN reader.got[c] ELSE 0

\* One market; a market found closed is cancelled, and the loop waits for that.
ApplyMarket(c) ==
  /\ Applying /\ c \in reader.todo
  /\ halted' = IF c \notin DOMAIN reader.raws THEN halted
               ELSE IF reader.raws[c] THEN halted \ {c} ELSE halted \union {c}
  /\ rate' = [rate EXCEPT ![c] = RateAfter(c)]
  /\ reader' = [reader EXCEPT !.todo = @ \ {c}]
  /\ UNCHANGED <<listed, closed, entries, unlisted, changes>>

\* _refresh_reward_entry_allocation, after the last market.
Allocate ==
  /\ Applying /\ reader.todo = {}
  /\ entries' = RewardEntryMarkets(rate)
  /\ reader' = ReaderIdle
  /\ unlisted' = {}
  /\ UNCHANGED <<listed, closed, rate, halted, changes>>

-------------------------------------------------------------------------------
\* The exchange changes a reward, or closes or opens a market.
RewardChanges ==
  /\ changes < MaxChanges
  /\ changes' = changes + 1
  /\ \/ \E c \in Conditions, r \in Rates :
          /\ listed' = [listed EXCEPT ![c] = r]
          /\ unlisted' = IF r = 0 /\ reader.pc # "idle" THEN unlisted \union {c} ELSE unlisted
          /\ UNCHANGED closed
     \/ \E c \in Conditions :
          /\ closed' = IF c \in closed THEN closed \ {c} ELSE closed \union {c}
          /\ UNCHANGED <<listed, unlisted>>
  /\ UNCHANGED <<rate, halted, entries, reader>>

RewardInit ==
  /\ listed \in [Conditions -> Rates] /\ closed = {}
  /\ rate = [c \in Conditions |-> 0] /\ halted = {} /\ entries = {}
  /\ reader = ReaderIdle /\ unlisted = {} /\ changes = 0

RewardNext ==
  \/ RefreshBegins \/ ReadGamma \/ ReadPage \/ PageFails \/ Allocate \/ RewardChanges
  \/ \E c \in Conditions : ApplyMarket(c)

\* A refresh begins again and again, and no page of it fails for ever.
RewardFair ==
  /\ WF_rewardVars(RefreshBegins) /\ WF_rewardVars(ReadGamma) /\ WF_rewardVars(Allocate)
  /\ WF_rewardVars(\E c \in Conditions : ApplyMarket(c))
  /\ \A pc \in {"active", "competition"}, k \in 1 .. Pages :
       SF_rewardVars(reader.pc = pc /\ reader.page = k /\ ReadPage)

RewardSpec == RewardInit /\ [][RewardNext]_rewardVars /\ RewardFair

-------------------------------------------------------------------------------
(* Properties *)

\* Types; only a reading that is under way holds rows.
RewardTypeOK ==
  /\ listed \in [Conditions -> Rates] /\ rate \in [Conditions -> Rates]
  /\ closed \cup halted \cup entries \cup unlisted \subseteq Conditions
  /\ reader.pc \in {"idle", "gamma", "active", "competition", "apply", "keep"}
  /\ reader.page \in 1 .. Pages /\ reader.tries \in 0 .. MaxRetries
  /\ DOMAIN reader.got \cup DOMAIN reader.active \subseteq Conditions
  /\ reader.todo \subseteq Conditions /\ (reader.todo # {} => Applying)
  /\ reader.pc = "keep" => reader.got = NoMap

\* "a partial catalog would make missing markets look like reward removals": known
\* rewards are taken for removed only if the market was without them at some time of
\* the refresh, whatever failed, came twice or changed between its pages.
NoFalseRemoval ==
  [][\A c \in Conditions : rate[c] > 0 /\ rate'[c] = 0 => c \in unlisted]_rewardVars

\* Whenever no refresh is being applied, the markets entered fit the caps together,
\* and no candidate that is left out would have fitted beside those before it.
\* While one is, the entries are those of the rates before it.
EntriesFit ==
  \/ Applying
  \/ /\ Reserved(entries) <= MaxTotal
     /\ \A c \in entries : EventOf[c] # NoEvent => Reserved(OfEvent(entries, c)) <= MaxEvent
     /\ entries \subseteq Candidates(rate)
     /\ \A c \in Candidates(rate) \ entries :
          ~FitsCaps({d \in entries : Before(rate, d, c)}, c)

\* Once the exchange leaves its listing alone, the rates of the open markets are
\* the official ones, those that have ended included.
RatesCatchUp ==
  <>[](\A c \in Conditions \ closed : rate[c] = listed[c])
===============================================================================
