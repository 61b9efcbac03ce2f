----------------------------- MODULE MCCommand ------------------------------
(* Command with a few buffers of each kind.                                  *)
EXTENDS Command
=============================================================================
