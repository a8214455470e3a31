-------------------------------- MODULE Quoting --------------------------------
(***************************************************************************)
(* The pure functions between a market's state and its orders.             *)
(*                                                                         *)
(*   strategy/quoting.py      construct_quotes and its helpers             *)
(*   risk/manager.py          _headroom, _fit_to_headroom                  *)
(*   execution/reconciler.py  reconcile                                    *)
(*                                                                         *)
(* A price is a number of sub-units, One of them make 1 USDC, and a tick   *)
(* is p.tick of them, so that fair values lie between the ticks as well.   *)
(* A size is a number of shares.  A side of a book without quotes has its  *)
(* best price at 0 or One, where no comparison can be met.  p holds the    *)
(* settings of the profile and the market, under the source's names.       *)
(***************************************************************************)
EXTENDS Integers, Sequences, FiniteSets, FiniteSetsExt, Functions

CONSTANT One

ASSUME OneAssumption == One \in Nat \ {0}

Outcomes == {"yes", "no"}

\* What the settings and a recompute's findings may be.  No profile has a q_max of 0, with
\* which the code takes any position for none.
Profile ==
  [tick : {t \in 1 .. One : 2 * t <= One /\ One % t = 0},
   delta_min : Nat, band : Nat, min_edge : Nat, q_max : Nat \ {0}, q_soft : Nat,
   base : Nat, layers : Nat, layer_step : Nat, min_order : Nat, reward_floor : Nat,
   reward_only : BOOLEAN, reward_aware : BOOLEAN, coarse : BOOLEAN,
   min_levels : Nat \ {0, 1}, reward_ratio : Nat,
   reprice : Nat, resize : Nat, max_reprice : Nat]

View == [bid : 0 .. One, ask : 0 .. One, levels : SUBSET (0 .. One)]

Findings ==
  [fv : 1 .. One - 1, spread : Nat, lean : Nat, urgency : 0 .. 2, entry : BOOLEAN,
   regime : {"QUIET", "TRENDING", "REDUCE_ONLY", "EVENT", "HALTED"},
   cooldown : SUBSET Outcomes, view : [Outcomes -> View]]

Clamp(x, lo, hi) == Min({Max({x, lo}), hi})

Distance(a, b) == Max({a - b, b - a})

RoundDown(price, tick) == Clamp((price \div tick) * tick, tick, One - tick)

RoundUp(price, tick) == Clamp(-((-price) \div tick) * tick, tick, One - tick)

Cost(q) == IF q.side = "BUY" THEN q.price * q.size ELSE 0

Notional(quotes) == SumFunction([i \in DOMAIN quotes |-> Cost(quotes[i])])

\* The members of seq at the indices, in their order.
Pick(seq, indices) ==
  LET picked[n \in 0 .. Len(seq)] ==
        IF n = 0 THEN <<>>
        ELSE IF n \in indices THEN Append(picked[n - 1], seq[n]) ELSE picked[n - 1]
  IN  picked[Len(seq)]

-------------------------------------------------------------------------------
(* strategy/quoting.py *)

\* The half-spread.  in.spread stands for c_vol * vol + c_tox * toxicity.
Delta(p, in, regime) ==
  LET base == p.delta_min * p.tick
      wide == base + in.spread
      delta == IF regime = "QUIET" /\ p.band > 0
               THEN Clamp(wide, base, Max({base, p.band})) ELSE wide
  IN  Max({delta, p.tick})

\* A level inside the reward band, if there is one to choose: a set of one price or none.
\* min_levels is at least 2: with one candidate the code has no second-farthest.
RewardBandPrice(view, p, delta) ==
  LET band == Max({delta, p.tick})
      used == Max({p.tick, (band \div p.tick) * p.tick})
      mid2 == view.bid + view.ask
      near == {l \in view.levels : mid2 - 2 * used <= 2 * l /\ 2 * l <= mid2}
      n == Cardinality(near)
      farthest == Min(near)
  IN  IF view.levels = {} \/ view.bid = 0 \/ view.ask = One THEN {}
      ELSE IF ~p.coarse
           THEN {RoundDown((50 * mid2 - p.reward_ratio * band) \div 100, p.tick)}
      ELSE IF n < p.min_levels THEN {}
      ELSE IF n = 3 THEN {Min(near \ {farthest, Max(near)})}
      ELSE {Min(near \ {farthest})}

PlaceBidThroughFv(target, view, fv, delta, p) ==   \* mutant: a reward level above fair value
  LET reward == IF p.reward_aware THEN RewardBandPrice(view, p, delta) ELSE {}
      wanted == IF reward = {} THEN target ELSE Max(reward)
      behind == IF wanted >= view.ask THEN view.ask - p.tick ELSE wanted
  IN  RoundDown(behind, p.tick)

PlaceBid(target, view, fv, delta, p) ==
  LET reward == IF p.reward_aware THEN RewardBandPrice(view, p, delta) ELSE {}
      wanted == IF reward = {} THEN target ELSE Max(reward)
      edge == Min({wanted, fv - p.min_edge * p.tick})
      joined == IF reward = {} /\ view.bid > 0 /\ edge >= view.bid THEN view.bid ELSE edge
      behind == IF joined >= view.ask THEN view.ask - p.tick ELSE joined
  IN  RoundDown(behind, p.tick)

\* Fewer layers while a layer is below half the scoring size; then up to that size.
AddLayers(tok, top, total, p) ==
  LET floor == Max({p.reward_floor, p.min_order})
      n == Max({1} \union {l \in 1 .. p.layers : 2 * (total \div l) >= floor})
      split == total \div n
      size == IF split < floor /\ (2 * split >= floor \/ p.reward_only) THEN floor ELSE split
      layers == [i \in 1 .. n |-> [tok |-> tok, side |-> "BUY", size |-> size,
                                  price |-> top - (i - 1) * p.layer_step * p.tick]]
  IN  IF total <= 0 \/ size < p.min_order \/ size <= 0 THEN <<>>
      ELSE Pick(layers, {i \in 1 .. n : 0 < layers[i].price /\ layers[i].price < One})

\* SELL what is held, from the passive price towards the touch; in.urgency is in halves.
MaybeExit(tok, held, fv, delta, view, in, regime, p) ==
  LET touch == view.bid + p.tick
      passive == fv + delta
      urgency == IF regime = "REDUCE_ONLY" THEN Max({in.urgency, 1}) ELSE in.urgency
      walked == IF view.bid = 0 THEN 2 * passive
                ELSE Max({passive * (2 - urgency) + touch * urgency, 2 * touch})
      price == RoundUp(-((-walked) \div 2), p.tick)
  IN  IF held < p.min_order THEN <<>>
      ELSE <<[tok |-> tok, side |-> "SELL", size |-> held, price |-> price]>>

\* held is the pair of positions, scale the risk scale in percent.  in.lean stands
\* for gamma * vol.
ConstructQuotes(p, in, regime, held, scale) ==
  LET fv(tok) == IF tok = "yes" THEN in.fv ELSE One - in.fv
      used == Clamp((held["yes"] - held["no"]) * Max({in.fv, p.tick}), -p.q_max, p.q_max)
      lean(tok) == IF tok = "yes" THEN used ELSE -used
      delta == Delta(p, in, regime)
      adds(tok) == /\ regime # "REDUCE_ONLY"
                   /\ 100 * lean(tok) < p.q_soft * p.q_max
                   /\ tok \notin in.cooldown
                   /\ in.entry \/ ~p.reward_only
      bid(tok) == PlaceBid(fv(tok) - (in.lean * lean(tok)) \div p.q_max - delta, in.view[tok],
                           fv(tok), delta, p)
      total(tok) ==
        (p.base * scale * (p.q_max - Max({lean(tok), 0})))
          \div (Max({bid(tok), p.tick}) * 100 * p.q_max * IF regime = "TRENDING" THEN 2 ELSE 1)
      entry(tok) == IF adds(tok) THEN AddLayers(tok, bid(tok), total(tok), p) ELSE <<>>
      exit(tok) == MaybeExit(tok, held[tok], fv(tok), delta, in.view[tok], in, regime, p)
  IN  IF regime \in {"EVENT", "HALTED"} THEN <<>>
      ELSE entry("yes") \o entry("no") \o exit("yes") \o exit("no")

-------------------------------------------------------------------------------
(* risk/manager.py *)

\* In percent: full below 70% of the cap, then down to nothing at the cap.
Headroom(current, cap) ==
  IF cap <= 0 \/ 10 * current <= 7 * cap THEN 100
  ELSE Max({0, (1000 * (cap - current)) \div (3 * cap)})

FitToDust(quotes, headroom, p) ==   \* mutant: what became too small stays
  LET wanted == Notional(quotes)
  IN  [i \in DOMAIN quotes |->
         IF quotes[i].side = "BUY" /\ headroom < wanted
         THEN [quotes[i] EXCEPT !.size = (@ * headroom) \div wanted] ELSE quotes[i]]

\* BUYs shrink together to the headroom; one below its floor is dropped.  SELLs stay.
FitToHeadroom(quotes, headroom, p) ==
  LET wanted == Notional(quotes)
      floor == IF p.reward_only THEN Max({p.min_order, p.reward_floor}) ELSE p.min_order
      fit == [i \in DOMAIN quotes |->
                IF quotes[i].side = "BUY" /\ headroom < wanted
                THEN [quotes[i] EXCEPT !.size = (@ * headroom) \div wanted] ELSE quotes[i]]
  IN  IF wanted <= 0 THEN quotes
      ELSE Pick(fit, {i \in DOMAIN quotes : fit[i].side = "SELL" \/ fit[i].size >= floor})

-------------------------------------------------------------------------------
(* execution/reconciler.py *)

\* The bounded move towards q of the resting order nearest to it, if one is free.
Bounded(q, live, free, p) ==
  LET gap(i) == Distance(live[i].price, q.price)
      anchor == live[Min({i \in free : \A j \in free : gap(i) <= gap(j)})]
      move == Max({1, p.max_reprice}) * p.tick
      bounded == Clamp(anchor.price + (IF q.price > anchor.price THEN move ELSE -move),
                       p.tick, One - p.tick)
  IN  IF p.max_reprice = 0 \/ free = {} THEN [quote |-> q, anchor |-> {}]
      ELSE [quote |-> IF Distance(q.price, anchor.price) > move THEN [q EXCEPT !.price = bounded] ELSE q,
            anchor |-> {anchor.id}]

Close(o, q, p) ==
  /\ Distance(o.price, q.price) <= p.reprice * p.tick
  /\ q.size <= 0 \/ 100 * Distance(o.size, q.size) <= p.resize * q.size

\* One target: the first live order close to it is kept, or it is placed.
MatchTarget(done, q0, live, p) ==
  LET same == {i \in DOMAIN live : live[i].tok = q0.tok /\ live[i].side = q0.side}
      b == Bounded(q0, live, {i \in same : live[i].id \notin done.anchors}, p)
      near == {i \in same : live[i].id \notin done.keep /\ Close(live[i], b.quote, p)}
  IN  [anchors |-> done.anchors \union b.anchor,
       keep |-> done.keep \union (IF near = {} THEN {} ELSE {live[Min(near)].id}),
       place |-> IF near = {} THEN Append(done.place, b.quote) ELSE done.place]

\* What to keep (ids) and what to place, target by target in their order.
Reconcile(target, live, p) ==
  LET done[n \in 0 .. Len(target)] ==
        IF n = 0 THEN [anchors |-> {}, keep |-> {}, place |-> <<>>]
        ELSE MatchTarget(done[n - 1], target[n], live, p)
  IN  done[Len(target)]
===============================================================================
