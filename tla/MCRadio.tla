------------------------------ MODULE MCRadio ------------------------------
(* Instance of Radio: an election over this machine and two peers, and two  *)
(* enables for the gate.                                                    *)
EXTENDS Radio
=============================================================================
