------------------------------ MODULE PingPong ------------------------------
(***************************************************************************)
(* What every ping-pong program of the repository promises, whatever       *)
(* transport it runs on: the server echoes the counter it waits for, the   *)
(* client counts the echo, and the two alternate until the client has      *)
(* counted as many messages as it wants.  The programs (PingPongUdp,       *)
(* PingPongTcp, ...) are shown to implement this module.                   *)
(***************************************************************************)
EXTENDS Naturals

CONSTANT Target       \* how many messages the client counts

VARIABLES
  echoed,      \* received_messages of the server the client talks to
  counted      \* received_messages of the client

ppVars == <<echoed, counted>>

Init == echoed = 0 /\ counted = 0

Echo ==
  /\ echoed = counted
  /\ counted < Target
  /\ echoed' = echoed + 1
  /\ UNCHANGED counted

Count ==
  /\ counted < echoed
  /\ counted' = counted + 1
  /\ UNCHANGED echoed

Next == Echo \/ Count

Spec == Init /\ [][Next]_ppVars

FairSpec == Spec /\ WF_ppVars(Echo) /\ WF_ppVars(Count)
=============================================================================
