---------------------------- MODULE MCSendToPeer ----------------------------
(* Instance of SendToPeer: the peers and ports of a cfg.                    *)
EXTENDS SendToPeer
=============================================================================
