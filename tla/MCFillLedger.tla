----------------------------- MODULE MCFillLedger -----------------------------
(* Instances of FillLedger small enough for TLC. *)
EXTENDS FillLedger, TLC

CONSTANTS l1, l2, t1

TwoLegs == {l1, l2}
OneLeg == {l1}
OneToken == {t1}
SameToken == [l \in Legs |-> t1]
LegSymmetry == Permutations(TwoLegs)
===============================================================================
