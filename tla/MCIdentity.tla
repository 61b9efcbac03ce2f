----------------------------- MODULE MCIdentity -----------------------------
(* Instance of Identity: programs that may create the pair, over the       *)
(* fetches of a cfg; a disk identity is absent, good or mismatched.        *)
EXTENDS Identity, TLC

Whole == [certificate |-> TRUE, key |-> TRUE, match |-> TRUE, record |-> TRUE]
Odd   == [Whole EXCEPT !.match = FALSE]
Bare  == [certificate |-> FALSE, key |-> FALSE, match |-> FALSE, record |-> FALSE]

SmallInit == InitBut("self-signed", Bare) \/ InitBut("disk", Whole) \/ InitBut("disk", Odd)
SmallSpec == SmallInit /\ [][IdentityNext]_identityVars
Alike == Permutations(Users) \cup Permutations(Ids)
=============================================================================
