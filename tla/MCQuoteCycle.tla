------------------------------ MODULE MCQuoteCycle ------------------------------
(* Instances of QuoteCycle small enough for TLC. *)
EXTENDS QuoteCycle, TLC

CONSTANTS m1, m2, e1

OneMarket == {m1}
TwoMarkets == {m1, m2}
OneEvent == [m \in Markets |-> e1]

\* A reward market with coarse ticks and two layers.
Rewarded ==
  [tick |-> 2, delta_min |-> 1, band |-> 6, min_edge |-> 1, q_max |-> 120, q_soft |-> 60,
   base |-> 80, layers |-> 2, layer_step |-> 2, min_order |-> 1, reward_floor |-> 4,
   reward_only |-> FALSE, reward_aware |-> TRUE, coarse |-> TRUE, min_levels |-> 2,
   reward_ratio |-> 50, reprice |-> 0, resize |-> 0, max_reprice |-> 0]

\* A market that is entered for its rewards only, with a half-spread of its own.
RewardOnly ==
  [Rewarded EXCEPT !.reward_only = TRUE, !.reward_aware = FALSE, !.layers = 1, !.base = 20,
                   !.reward_floor = 3]

Book(bid, ask, levels) == [bid |-> bid, ask |-> ask, levels |-> levels]

In(fv, regime, yes, no) ==
  [fv |-> fv, spread |-> 3, lean |-> 2, regime |-> regime, cooldown |-> {}, entry |-> TRUE,
   urgency |-> 0, view |-> [tok \in Outcomes |-> IF tok = "yes" THEN yes ELSE no]]

Mid == In(10, "QUIET", Book(8, 12, {4, 6, 8}), Book(8, 12, {4, 6, 8}))
Up == [In(12, "TRENDING", Book(12, 16, {6, 8, 10, 12}), Book(0, 20, {})) EXCEPT !.urgency = 1]
Down == [In(7, "QUIET", Book(6, 8, {4, 6}), Book(10, 14, {8, 10})) EXCEPT !.urgency = 2]
Shock == In(7, "EVENT", Book(6, 8, {6}), Book(10, 14, {10}))
Cooling == [Mid EXCEPT !.cooldown = {"yes"}]

RichInputs == {Mid, Up, Down, Shock}
PlainInputs == {Cooling}

Flat == [tok \in Outcomes |-> 0]
Long == [tok \in Outcomes |-> IF tok = "yes" THEN 4 ELSE 0]

TwoProfiles == [m \in Markets |-> IF m = m1 THEN Rewarded ELSE RewardOnly]
TwoInputs == [m \in Markets |-> IF m = m1 THEN RichInputs ELSE PlainInputs]

TwoStarts == [m \in Markets |-> IF m = m1 THEN {Long} ELSE {Flat}]
===============================================================================
