----------------------------- MODULE MCAwdlVif -----------------------------
(* Instance of AwdlVif: two creations beside one other interface, or three  *)
(* creations, over two bsscfg slots.                                        *)
EXTENDS AwdlVif, TLC

ObjectSymmetry == Permutations(Vif) \cup Permutations(Ifp) \cup Permutations(Bss)
=============================================================================
