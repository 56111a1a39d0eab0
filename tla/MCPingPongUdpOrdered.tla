----------------------- MODULE MCPingPongUdpOrdered -----------------------
(***************************************************************************)
(* Instances of PingPongUdpOrdered for TLC.                                *)
(***************************************************************************)
EXTENDS PingPongUdpOrdered
=============================================================================
