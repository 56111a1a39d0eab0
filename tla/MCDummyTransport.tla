------------------------- MODULE MCDummyTransport -------------------------
(***************************************************************************)
(* Instances of DummyTransport for TLC.                                    *)
(***************************************************************************)
EXTENDS DummyTransport
=============================================================================
