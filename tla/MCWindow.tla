------------------------------ MODULE MCWindow ------------------------------
(* Instance of Window: two starts and one stop beside omdrop-core, over     *)
(* windows of one tick and without expiry.                                  *)
EXTENDS Window
=============================================================================
