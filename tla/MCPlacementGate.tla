---------------------------- MODULE MCPlacementGate ----------------------------
(* Instances of PlacementGate small enough for TLC. *)
EXTENDS PlacementGate, TLC

CONSTANTS m1, m2, o1, o2

OneMarket == {m1}
TwoMarkets == {m1, m2}
None == {}
OneOrder == {o1}
TwoOrders == {o1, o2}
GateSymmetry == Permutations(Markets) \union Permutations(Orders)
===============================================================================
