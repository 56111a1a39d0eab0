------------------------ MODULE MCOrderingBenchmark ------------------------
(***************************************************************************)
(* Instances of OrderingBenchmark for TLC.                                 *)
(***************************************************************************)
EXTENDS OrderingBenchmark
=============================================================================
