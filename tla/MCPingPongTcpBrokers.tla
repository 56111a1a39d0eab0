------------------------ MODULE MCPingPongTcpBrokers ------------------------
(***************************************************************************)
(* Instances of PingPongTcpBrokers for TLC.                                *)
(***************************************************************************)
EXTENDS PingPongTcpBrokers
=============================================================================
