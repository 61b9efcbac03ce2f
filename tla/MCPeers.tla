------------------------------ MODULE MCPeers ------------------------------
(* Instance of Peers: three peers for two slots.                            *)
EXTENDS Peers
=============================================================================
