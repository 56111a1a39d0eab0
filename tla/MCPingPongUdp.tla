--------------------------- MODULE MCPingPongUdp ---------------------------
(***************************************************************************)
(* Instances of PingPongUdp for TLC.                                       *)
(***************************************************************************)
EXTENDS PingPongUdp, TLC

ServerSymmetry == Permutations(Servers)
=============================================================================
