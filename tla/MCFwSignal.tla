----------------------------- MODULE MCFwSignal -----------------------------
(* Two destinations, two fifos, a credit each.                               *)
EXTENDS FwSignal, TLC

Credits == [f \in Fifo |-> 1]
Symmetry == Permutations(Entry)
=============================================================================
