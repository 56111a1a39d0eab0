---------------------------- MODULE MCPpTcpPure ----------------------------
(***************************************************************************)
(* Instances of PpTcpPure for TLC.                                         *)
(***************************************************************************)
EXTENDS PpTcpPure
=============================================================================
