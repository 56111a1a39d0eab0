---------------------------- MODULE PacketQueue ----------------------------
(***************************************************************************)
(* What a datagram transport promises to the newb above it, whatever its   *)
(* buffers look like: every message a newb writes leaves as one packet of  *)
(* its own, in the order of the writes.                                    *)
(***************************************************************************)
EXTENDS Naturals, Sequences

CONSTANT Sizes        \* the sizes a message may have
VARIABLE queue        \* the sizes of the packets still to be sent

Init == queue = <<>>
Put == \E n \in Sizes : queue' = Append(queue, n)
Send == queue # <<>> /\ queue' = Tail(queue)
Next == Put \/ Send

Spec == Init /\ [][Next]_queue
FairSpec == Spec /\ WF_queue(Send)
=============================================================================
