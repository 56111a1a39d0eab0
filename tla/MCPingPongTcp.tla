--------------------------- MODULE MCPingPongTcp ---------------------------
(***************************************************************************)
(* Instances of PingPongTcp for TLC.                                       *)
(***************************************************************************)
EXTENDS PingPongTcp
=============================================================================
