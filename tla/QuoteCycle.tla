------------------------------ MODULE QuoteCycle ------------------------------
(***************************************************************************)
(* One recompute per market from the price to the post, and the fills that *)
(* arrive at its awaits.                                                   *)
(*                                                                         *)
(*   engine.py        _recompute_locked, _event_group_cost                 *)
(*   risk/manager.py  evaluate, fit_target_reservation, update_mark        *)
(*   state/store.py   orders and positions as the two read them            *)
(*                                                                         *)
(* PlacementGate has the locks and the quarantine of the same handler and  *)
(* leaves the quotes open; here the quotes are computed and the gate is    *)
(* one step that may refuse.  An order stays in the local view until its   *)
(* own message says it is filled; the fill itself is told by another one.  *)
(***************************************************************************)
EXTENDS Quoting

CONSTANTS
  Markets,
  Start,      \* market -> the positions it may start with
  P,          \* market -> its settings
  Inputs,     \* market -> the books, estimates and regimes a recompute may find
  EventOf,    \* market -> its event group; NoEvent for none
  NoEvent,
  MaxMarket, MaxEvent, MaxTotal, \* the caps, in sub-units times shares
  MaxFills    \* bound

ASSUME CycleAssumption ==
  /\ MaxMarket \in Nat /\ MaxEvent \in Nat /\ MaxTotal \in Nat /\ MaxFills \in Nat
  /\ IsFiniteSet(Markets)
  /\ \A m \in Markets :
       /\ P[m] \in Profile
       /\ Inputs[m] # {} /\ Inputs[m] \subseteq Findings
       /\ Start[m] \subseteq [Outcomes -> Nat]

VARIABLES
  orders,  \* StateStore.orders: market -> our orders, oldest first
  pos,     \* StateStore.positions: market -> outcome -> shares
  mark,    \* risk._marks of the YES token; NO is its complement
  stage,   \* where the recompute of the market is
  work,    \* its locals
  trades,  \* fills whose trade message is on its way
  fills

vars == <<orders, pos, mark, stage, work, trades, fills>>

Nothing == [m \in Markets |-> 0]
NoWork == [raw |-> <<>>, keep |-> {}, place |-> <<>>, values |-> Nothing, buys |-> Nothing]

Ids(seq) == {seq[i].id : i \in DOMAIN seq}

Without(seq, gone) == Pick(seq, {i \in DOMAIN seq : seq[i].id \notin gone})

-------------------------------------------------------------------------------
(* risk/manager.py: what is deployed *)

Values(marks) ==
  [m \in Markets |-> pos[m]["yes"] * marks[m] + pos[m]["no"] * (One - marks[m])]

Buys == [m \in Markets |-> Notional(orders[m])]

\* A market without an event group costs its group nothing.
EventCost(f, m) ==
  SumFunctionOnSet(f, {n \in Markets : EventOf[n] = EventOf[m] /\ EventOf[m] # NoEvent})

Held(values, m) ==
  [market |-> values[m], event |-> EventCost(values, m), total |-> SumFunction(values)]

AtCap(held) ==
  held.market >= MaxMarket \/ held.event >= MaxEvent \/ held.total >= MaxTotal

\* evaluate's size scale, from the positions alone.
SizeScale(held) ==
  IF AtCap(held) THEN 100
  ELSE Min({Headroom(held.market, MaxMarket), Headroom(held.event, MaxEvent),
            Headroom(held.total, MaxTotal)})

RoomBesideOwn(m) ==   \* mutant: fit_reservation, in which the replaced orders count as well
  LET deployed == [n \in Markets |-> Values(mark)[n] + Buys[n]]
  IN  Max({0, Min({MaxMarket - deployed[m], MaxTotal - SumFunction(deployed),
                   MaxEvent - EventCost(deployed, m)})})

\* fit_target_reservation's headroom: the BUYs of m are what it replaces.
Room(m) ==
  LET deployed == [n \in Markets |-> Values(mark)[n] + IF n = m THEN 0 ELSE Buys[n]]
  IN  Max({0, Min({MaxMarket - deployed[m], MaxTotal - SumFunction(deployed),
                   MaxEvent - EventCost(deployed, m)})})

-------------------------------------------------------------------------------
(* Engine._recompute_locked *)

\* RegimeMachine's priorities between the market's regime and the caps.
Regime(m, in, held) ==
  IF in.regime \in {"EVENT", "HALTED"} THEN in.regime
  ELSE IF AtCap(held) \/ Distance(pos[m]["yes"], pos[m]["no"]) * in.fv >= P[m].q_max
  THEN "REDUCE_ONLY"
  ELSE in.regime

\* Up to the wait for the reservation lock: the mark, the regime, the raw quotes.
Price(m) ==
  /\ stage[m] = "idle"
  /\ \E in \in Inputs[m] :
       /\ mark' = [mark EXCEPT ![m] = in.fv]
       /\ LET held == Held(Values(mark'), m)
          IN  work' = [work EXCEPT ![m] = [NoWork EXCEPT !.raw =
                ConstructQuotes(P[m], in, Regime(m, in, held), pos[m], SizeScale(held))]]
  /\ stage' = [stage EXCEPT ![m] = "fit"]
  /\ UNCHANGED <<orders, pos, trades, fills>>

ReservationIgnored == TRUE   \* mutant: the lock is not waited for

ReservationFree == \A m \in Markets : stage[m] \notin {"cancel", "place"}

\* The lock is taken, the target fitted to the caps and reconciled with the orders.
Fit(m) ==
  /\ stage[m] = "fit"
  /\ ReservationFree
  /\ LET target == FitToHeadroom(work[m].raw, Room(m), P[m])
         plan == Reconcile(target, orders[m], P[m])
         next == IF Ids(orders[m]) # plan.keep THEN "cancel"
                 ELSE IF plan.place # <<>> THEN "place" ELSE "idle"
     IN  /\ stage' = [stage EXCEPT ![m] = next]
         /\ work' = [work EXCEPT ![m] = IF next = "idle" THEN NoWork ELSE
              [@ EXCEPT !.keep = plan.keep, !.place = plan.place, !.values = Values(mark),
                        !.buys = [Buys EXCEPT ![m] = 0]]]
  /\ UNCHANGED <<orders, pos, mark, trades, fills>>

Leave(m) ==
  /\ stage' = [stage EXCEPT ![m] = "idle"]
  /\ work' = [work EXCEPT ![m] = NoWork]
  /\ UNCHANGED <<pos, mark, trades, fills>>

\* The exchange confirms the cancellation; orders filled meanwhile go as well.
Cancelled(m) ==
  /\ stage[m] = "cancel"
  /\ orders' = [orders EXCEPT ![m] = Pick(@, {i \in DOMAIN @ : @[i].id \in work[m].keep})]
  /\ IF work[m].place = <<>> THEN Leave(m)
     ELSE /\ stage' = [stage EXCEPT ![m] = "place"]
          /\ UNCHANGED <<pos, mark, work, trades, fills>>

CancelFailsAnyway(m) ==   \* mutant: places beside what was not cancelled
  /\ stage[m] = "cancel"
  /\ stage' = [stage EXCEPT ![m] = "place"]
  /\ UNCHANGED <<orders, pos, mark, work, trades, fills>>

\* It fails or only its answer is lost: the orders are read again, nothing is placed.
CancelFails(m) ==
  /\ stage[m] = "cancel"
  /\ \E gone \in {{}, Ids(orders[m]) \ work[m].keep} :
       orders' = [orders EXCEPT ![m] =
                    Pick(@, {i \in DOMAIN @ : ~@[i].filled /\ @[i].id \notin gone})]
  /\ Leave(m)

UsedIds == (UNION {Ids(orders[n]) : n \in Markets}) \union {t.id : t \in trades}

\* The k-th smallest id that is free.
FreeId(k) ==
  CHOOSE id \in 1 .. Cardinality(UsedIds) + k :
    id \notin UsedIds /\ Cardinality((1 .. id) \ UsedIds) = k

\* orders[m] once the planned quotes rest beside it, under the smallest free ids.
WithPlaced(m) ==
  orders[m] \o [i \in DOMAIN work[m].place |->
                  LET q == work[m].place[i]
                  IN  [tok |-> q.tok, side |-> q.side, price |-> q.price, size |-> q.size,
                       id |-> FreeId(i), filled |-> FALSE]]

Posted(m) ==
  /\ stage[m] = "place"
  /\ orders' = [orders EXCEPT ![m] = WithPlaced(m)]
  /\ Leave(m)

\* Placing is not allowed any more, or shed under load.
NotPosted(m) ==
  /\ stage[m] = "place"
  /\ Leave(m)
  /\ UNCHANGED orders

\* The batch was not taken in full: everything of the market is cancelled.
Quarantined(m) ==
  /\ stage[m] = "place"
  /\ orders' = [orders EXCEPT ![m] = <<>>]
  /\ Leave(m)

-------------------------------------------------------------------------------
(* The exchange and its messages *)

\* Best price first: a layer is filled after the layers nearer to the touch.
Fill(m, i) ==
  /\ fills < MaxFills
  /\ ~orders[m][i].filled
  /\ \A j \in DOMAIN orders[m] :
       LET a == orders[m][i]
           b == orders[m][j]
       IN  a.tok = b.tok /\ a.side = b.side /\ a.side = "BUY" /\ ~b.filled => b.price <= a.price
  /\ orders' = [orders EXCEPT ![m][i].filled = TRUE]
  /\ trades' = trades \union {[market |-> m, order |-> orders[m][i], id |-> orders[m][i].id]}
  /\ fills' = fills + 1
  /\ UNCHANGED <<pos, mark, stage, work>>

\* on_trade: the position changes; a SELL never leaves less than nothing.
Trade(t) ==
  /\ trades' = trades \ {t}
  /\ pos' = [pos EXCEPT ![t.market][t.order.tok] =
               IF t.order.side = "BUY" THEN @ + t.order.size ELSE Max({0, @ - t.order.size})]
  /\ UNCHANGED <<orders, mark, stage, work, fills>>

\* on_order: the order has nothing left.
OrderGone(m, i) ==
  /\ orders[m][i].filled
  /\ orders' = [orders EXCEPT ![m] = Without(@, {@[i].id})]
  /\ UNCHANGED <<pos, mark, stage, work, trades, fills>>

-------------------------------------------------------------------------------
Init ==
  /\ orders = [m \in Markets |-> <<>>]
  /\ pos \in [Markets -> UNION {Start[m] : m \in Markets}]
  /\ \A m \in Markets : pos[m] \in Start[m]
  /\ mark = [m \in Markets |-> One \div 2]
  /\ stage = [m \in Markets |-> "idle"]
  /\ work = [m \in Markets |-> NoWork]
  /\ trades = {} /\ fills = 0

Next ==
  \/ \E m \in Markets :
       \/ Price(m) \/ Fit(m) \/ Cancelled(m) \/ CancelFails(m)
       \/ Posted(m) \/ NotPosted(m) \/ Quarantined(m)
       \/ \E i \in DOMAIN orders[m] : Fill(m, i) \/ OrderGone(m, i)
  \/ \E t \in trades : Trade(t)

Spec == Init /\ [][Next]_vars

-------------------------------------------------------------------------------
(* Properties *)

Fair(m, tok) == IF tok = "yes" THEN mark[m] ELSE One - mark[m]

\* Every variable has its type; only one market at a time reserves exposure.
TypeOK ==
  /\ \A m \in Markets :
       /\ \A i \in DOMAIN orders[m] :
            LET o == orders[m][i]
            IN  /\ o.tok \in Outcomes /\ o.side \in {"BUY", "SELL"} /\ o.filled \in BOOLEAN
                /\ o.price \in P[m].tick .. One - P[m].tick /\ o.price % P[m].tick = 0
                /\ o.size >= P[m].min_order
       /\ Cardinality(Ids(orders[m])) = Len(orders[m])
       /\ pos[m] \in [Outcomes -> Nat] /\ mark[m] \in 1 .. One - 1
       /\ stage[m] \in {"idle", "fit", "cancel", "place"}
  /\ \A m, n \in Markets :
       stage[m] \in {"cancel", "place"} /\ stage[n] \in {"cancel", "place"} => m = n
  /\ fills \in 0 .. MaxFills

\* Hard caps (manager.py, "can all fill before the next reconcile"): whatever is
\* placed, all resting BUYs could fill beside the positions that were held when the
\* target was fitted without any cap being passed.
Reserved ==
  \A m \in Markets :
    LET planned == [n \in Markets |->
                      Buys[n] + IF n = m THEN Notional(work[m].place) ELSE 0]
        held == Held(work[m].values, m)
    IN  stage[m] = "place" /\ Notional(work[m].place) > 0 =>
          /\ held.market + planned[m] <= MaxMarket
          /\ held.event + EventCost(planned, m) <= MaxEvent
          /\ held.total + SumFunction(planned) <= MaxTotal

\* fit_target_reservation: "makes a headroom-scaled order stable on the next identical
\* recompute".  If nothing moved, the same raw quotes ask for nothing new once posted.
Stable ==
  \A m \in Markets :
    /\ stage[m] = "place" /\ Ids(orders[m]) = work[m].keep
    /\ work[m].values = Values(mark) /\ work[m].buys = [Buys EXCEPT ![m] = 0]
    =>
      LET again == Reconcile(FitToHeadroom(work[m].raw, Room(m), P[m]), WithPlaced(m), P[m])
      IN  again.place = <<>> /\ again.keep = Ids(WithPlaced(m))

\* README, "a filled pair merges back to USDC at locked edge 1 - p - q": two resting
\* BUYs of the two outcomes, of one recompute or of two, cost less than a whole.
PairLocks ==
  \A m \in Markets : \A i, j \in DOMAIN orders[m] :
    LET a == orders[m][i]
        b == orders[m][j]
    IN  a.side = "BUY" /\ b.side = "BUY" /\ a.tok = "yes" /\ b.tok = "no" =>
          a.price + b.price < One

\* strategy.toml, "never bid above FV - 1 tick": a BUY is placed at least min_edge
\* below the fair value of its outcome, but for the lowest price there is.
EdgeKept ==
  \A m \in Markets : \A i \in DOMAIN work[m].place :
    LET q == work[m].place[i]
    IN  q.side = "BUY" =>
          q.price <= Max({Fair(m, q.tok) - P[m].min_edge * P[m].tick, P[m].tick})
===============================================================================
