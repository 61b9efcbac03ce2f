------------------------------ MODULE AwdlLink ------------------------------
(***************************************************************************)
(* What the vendor commands CREATE and DESTROY promise userspace about      *)
(* awdl0: it appears only while a creation is under way, a creation ends    *)
(* either way in bounded time, and nothing is left once the device is gone. *)
(***************************************************************************)
VARIABLES
  link,   \* "absent", "creating" or "up"
  gone    \* the device was detached

linkVars == <<link, gone>>

Init == link = "absent" /\ gone = FALSE

Begin ==     \* CREATE is accepted
  /\ ~gone /\ link = "absent"
  /\ link' = "creating" /\ UNCHANGED gone

Resolve ==   \* the netdev is registered, or the creation given up
  /\ link = "creating"
  /\ link' \in {"up", "absent"} /\ UNCHANGED gone

Drop ==      \* the firmware dropped the interface, or the device goes away
  /\ link = "up"
  /\ link' = "absent" /\ UNCHANGED gone

Gone ==
  /\ ~gone /\ link = "absent"
  /\ gone' = TRUE /\ UNCHANGED link

Next == Begin \/ Resolve \/ Drop \/ Gone

Spec == Init /\ [][Next]_linkVars /\ WF_linkVars(Resolve)
=============================================================================
