----------------------------- MODULE MCFlowRing -----------------------------
(* FlowRing with two rings and thresholds that a few packets reach.          *)
EXTENDS FlowRing, TLC

Symmetry == Permutations(Da)
=============================================================================
