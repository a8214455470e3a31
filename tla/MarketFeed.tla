------------------------------ MODULE MarketFeed ------------------------------
(***************************************************************************)
(* One token's order book as the engine sees it, and what the quoter makes *)
(* of a book that is late, incomplete or gone.                             *)
(*                                                                         *)
(*   marketdata/service.py    MarketDataService                            *)
(*   marketdata/orderbook.py  apply_snapshot, apply_delta, is_empty        *)
(*   marketdata/parse.py      what a frame must hold to be applied         *)
(*   execution/gateway.py     get_full_book                                *)
(*   engine.py                _refresh_book, the early returns and the     *)
(*                            blind condition of _recompute_locked         *)
(*                                                                         *)
(* A book is the set of its bid and of its ask prices; sizes are left out  *)
(* and one price is one tick.  Names begin with Feed so that the module    *)
(* can stand beside others.                                                *)
(***************************************************************************)
EXTENDS Integers, Sequences, SequencesExt, FiniteSetsExt

CONSTANTS
  Prices,
  FirstBook,      \* the exchange's book at first
  StaleAfter,     \* ws_stale_halt_s
  MaxMoves,       \* bound: changes of the exchange's book
  MaxMissed,      \* bound: messages lost or garbled
  MaxDrops        \* bound: lost connections

Sides == {"bids", "asks"}
Book == [Sides -> SUBSET Prices]
EmptyBook == [s \in Sides |-> {}]

ASSUME FeedAssumption ==
  /\ Prices \subseteq Nat /\ FirstBook \in Book
  /\ {StaleAfter, MaxMoves, MaxMissed, MaxDrops} \subseteq Nat

VARIABLES
  xbook,   \* exchange: its book of the token
  link,    \* "up" (connected and subscribed), "down"; "off": no service
  chan,    \* messages of this connection under way, in order
  gap,     \* time since disconnected_since, as far as it matters
  book,    \* MarketDataService.books of the token
  fetch,   \* the REST answer a refresh waits for, at most one
  behind,  \* history: a message of this connection was missed, or undone
  killed,  \* risk.global_halt(), or the market is halted
  quoted,  \* orders of ours rest in the market
  feedBounds

feedVars == <<xbook, link, chan, gap, book, fetch, behind, killed, quoted, feedBounds>>

FeedBound(what, limit) ==
  feedBounds[what] < limit /\ feedBounds' = [feedBounds EXCEPT ![what] = @ + 1]

-------------------------------------------------------------------------------
(* Books and messages *)

Uncrossed(b) == \A bid \in b["bids"], ask \in b["asks"] : bid < ask

ASSUME FirstBookAssumption == Uncrossed(FirstBook)

\* What the quoter can price: neither empty, nor one-sided, nor crossed.
Readable(b) == (\A s \in Sides : b[s] # {}) /\ Uncrossed(b)

Snapshot(b) == [kind |-> "book", book |-> b]
Delta(s, p, on) == [kind |-> "price_change", side |-> s, price |-> p, on |-> on]

ApplySnapshotMerged(b, new) == [s \in Sides |-> b[s] \union new[s]]   \* mutant: levels pile up

ApplySnapshot(b, new) == new

ApplyDelta(b, m) ==
  [b EXCEPT ![m.side] = IF m.on THEN @ \union {m.price} ELSE @ \ {m.price}]

FeedApply(b, m) ==
  IF m.kind = "book" THEN ApplySnapshot(b, m.book) ELSE ApplyDelta(b, m)

Replay(b, messages) == FoldLeft(FeedApply, b, messages)

Top(b, s) == IF s = "bids" THEN Max(b[s]) ELSE Min(b[s])

DriftBothKnown(b, rest) ==   \* mutant: a side that is missing is no drift
  \E s \in Sides : b[s] # {} /\ rest[s] # {} /\ Top(b, s) - Top(rest, s) \notin -1 .. 1

DriftOf(b, rest) ==
  \E s \in Sides :
    \/ (b[s] = {}) # (rest[s] = {})
    \/ b[s] # {} /\ rest[s] # {} /\ Top(b, s) - Top(rest, s) \notin -1 .. 1

-------------------------------------------------------------------------------
(* The exchange and the connection *)

\* A level appears or disappears; the subscriber is told.
ExchangeMoves ==
  /\ link # "off"
  /\ FeedBound("moves", MaxMoves)
  /\ \E s \in Sides, p \in Prices :
       LET m == Delta(s, p, p \notin xbook[s])
       IN  /\ xbook' = ApplyDelta(xbook, m)
           /\ chan' = IF link = "up" THEN Append(chan, m) ELSE chan
  /\ Uncrossed(xbook')
  /\ UNCHANGED <<link, gap, book, fetch, behind, killed, quoted>>

\* A (re)subscription; the server answers with a fresh book.
Connect ==
  /\ link = "down"
  /\ link' = "up"
  /\ gap' = 0
  /\ chan' = <<Snapshot(xbook)>>
  /\ behind' = FALSE
  /\ UNCHANGED <<xbook, book, fetch, killed, quoted, feedBounds>>

ConnectFailsRestartsClock ==   \* mutant: every attempt sets disconnected_since
  /\ link = "down"
  /\ gap' = 0
  /\ UNCHANGED <<xbook, link, chan, book, fetch, behind, killed, quoted, feedBounds>>

\* connect() raises before there is anything to take down: the clock runs on.
ConnectFails ==
  /\ link = "down"
  /\ UNCHANGED feedVars

DropKeepsFrames ==   \* mutant: frames of the old connection are still handled
  /\ link = "up"
  /\ FeedBound("drops", MaxDrops)
  /\ link' = "down"
  /\ gap' = 0
  /\ UNCHANGED <<xbook, chan, book, fetch, behind, killed, quoted>>

\* Whatever was under way is lost with the connection.
Drop ==
  /\ link = "up"
  /\ FeedBound("drops", MaxDrops)
  /\ link' = "down"
  /\ gap' = 0
  /\ chan' = <<>>
  /\ UNCHANGED <<xbook, book, fetch, behind, killed, quoted>>

FeedTime ==
  /\ link = "down" /\ gap <= StaleAfter
  /\ gap' = gap + 1
  /\ UNCHANGED <<xbook, link, chan, book, fetch, behind, killed, quoted, feedBounds>>

\* MarketDataService._handle
Receive ==
  /\ chan # <<>>
  /\ book' = FeedApply(book, Head(chan))
  /\ chan' = Tail(chan)
  /\ behind' = (behind /\ Head(chan).kind # "book")
  /\ UNCHANGED <<xbook, link, gap, fetch, killed, quoted, feedBounds>>

\* A message the server left out, or a change without a readable price, size or
\* side; of a snapshot only the level that cannot be read is left out.
Missed ==
  /\ chan # <<>>
  /\ FeedBound("missed", MaxMissed)
  /\ \/ UNCHANGED book
     \/ /\ Head(chan).kind = "book"
        /\ \E s \in Sides : \E p \in Head(chan).book[s] :
             book' = [Head(chan).book EXCEPT ![s] = @ \ {p}]
  /\ chan' = Tail(chan)
  /\ behind' = TRUE
  /\ UNCHANGED <<xbook, link, gap, fetch, killed, quoted>>

-------------------------------------------------------------------------------
(* The maintenance loop: _refresh_book, split at its await *)

RefreshAsks ==
  /\ link # "off"
  /\ fetch = {}
  /\ fetch' = {xbook}
  /\ UNCHANGED <<xbook, link, chan, gap, book, behind, killed, quoted, feedBounds>>

RefreshFails ==
  /\ fetch # {}
  /\ fetch' = {}
  /\ UNCHANGED <<xbook, link, chan, gap, book, behind, killed, quoted, feedBounds>>

\* What arrived meanwhile is newer than the answer, and may be undone by it.
RefreshAnswered ==
  \E rest \in fetch :
    /\ book' = IF DriftOf(book, rest) THEN ApplySnapshot(book, rest) ELSE book
    /\ behind' = (behind \/ (DriftOf(book, rest) /\ Replay(rest, chan) # xbook))
    /\ fetch' = {}
    /\ UNCHANGED <<xbook, link, chan, gap, killed, quoted, feedBounds>>

-------------------------------------------------------------------------------
(* Engine._recompute_locked, from the book to the orders *)

Stale == link = "down" /\ gap > StaleAfter

\* A book that cannot be priced ends the tick before anything else is asked.
FeedRecompute ==
  /\ link # "off"
  /\ Readable(book)
  /\ quoted' \in IF Stale \/ killed THEN {FALSE} ELSE BOOLEAN
  /\ UNCHANGED <<xbook, link, chan, gap, book, fetch, behind, killed, feedBounds>>

\* The daily loss, the kill switch or a closed market; and their end.
FeedKill ==
  /\ link # "off"
  /\ killed' = ~killed
  /\ UNCHANGED <<xbook, link, chan, gap, book, fetch, behind, quoted, feedBounds>>

-------------------------------------------------------------------------------
FeedInit ==
  /\ xbook = FirstBook /\ link = "down" /\ chan = <<>> /\ gap = 0
  /\ book = EmptyBook /\ fetch = {} /\ behind = FALSE
  /\ killed = FALSE /\ quoted = FALSE
  /\ feedBounds = [moves |-> 0, missed |-> 0, drops |-> 0]

FeedNext ==
  \/ ExchangeMoves \/ Connect \/ ConnectFails \/ Drop \/ FeedTime \/ Receive \/ Missed
  \/ RefreshAsks \/ RefreshFails \/ RefreshAnswered
  \/ FeedRecompute \/ FeedKill

\* The tasks run and time passes; not every refresh fails.  Nothing is assumed of
\* the connection.
FeedFair ==
  /\ WF_feedVars(FeedTime) /\ WF_feedVars(Receive) /\ WF_feedVars(RefreshAsks)
  /\ SF_feedVars(RefreshAnswered) /\ WF_feedVars(FeedRecompute)

FeedSpec == FeedInit /\ [][FeedNext]_feedVars /\ FeedFair

-------------------------------------------------------------------------------
(* Properties *)

\* Types; nothing of a lost connection is left to be applied.
FeedTypeOK ==
  /\ {xbook, book} \subseteq Book /\ Uncrossed(xbook)
  /\ link \in {"up", "down", "off"} /\ gap \in 0 .. StaleAfter + 1
  /\ link # "up" => chan = <<>>
  /\ Cardinality(fetch) <= 1 /\ fetch \subseteq Book
  /\ {behind, killed, quoted} \subseteq BOOLEAN

\* "Reconnects re-snapshot automatically" (marketdata/service.py): unless a message
\* was missed, or an old REST answer undid one, the book and the messages under way
\* make up the exchange's book, whatever the book was before the gap.
FeedInSync ==
  link = "up" /\ ~behind => Replay(book, chan) = xbook

\* "to catch any silently-missed WS deltas" (_maintenance_loop): when the exchange's
\* book comes to rest, both tops end up within a tick of it, with or without a
\* connection, and although an answer may be older than what it overwrites.
BookCatchesUp == <>[](\A s \in Sides :
  /\ (book[s] = {}) = (xbook[s] = {})
  /\ book[s] # {} => Top(book, s) - Top(xbook, s) \in -1 .. 1)

\* "Stale data / resolved / kill switch -> cancel all" (README): when the connection
\* stays away, however often it is tried, or a kill stays, the quotes are pulled for
\* good.  This needs a book that can be read: with a side missing, or crossed, the
\* recompute returns before it asks for either.
BlindPulled == <>[]((link = "down" \/ killed) /\ Readable(book)) => <>[]~quoted
===============================================================================
