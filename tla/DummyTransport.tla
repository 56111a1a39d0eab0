--------------------------- MODULE DummyTransport ---------------------------
(***************************************************************************)
(* The sending and receiving benchmarks of layers.cpp over                 *)
(* dummy_transport, a transport without a socket.                          *)
(*                                                                         *)
(* Sending: what a newb writes is collected in the offline buffer, with    *)
(* the size of every chunk but the last on record, and handed over to the  *)
(* send buffer when the one before has been written; a write event sends   *)
(* one chunk.  Receiving: the transport makes up what it reads, and the    *)
(* loop of BM_receive_impl calls read_event until the newb has received    *)
(* something, without a limit.                                             *)
(*                                                                         *)
(* A buffer is the number of its bytes.  Operators marked "fault" are not  *)
(* part of the model: each is a plausible bug in the operator below it.    *)
(***************************************************************************)
EXTENDS OrderingLayer, Functions, Sequences

CONSTANTS
  Sizes,            \* of the messages (header and payload) a newb writes
  MaxQueued,        \* where the model stops a newb that writes on and on
  PayloadLen,       \* dummy_transport::payload_len, when receiving
  OrderingLen,      \* ordering_header_len
  BaspLen           \* basp_header_len

\* All messages have some bytes: the smallest benchmark sends 2^6.
ASSUME SizesAssumption == Sizes \subseteq Nat \ {0} /\ MaxQueued \in Nat
ASSUME LenAssumption == {PayloadLen, OrderingLen, BaspLen} \subseteq Nat \ {0}

VARIABLES
  bench,            \* which benchmark runs, over which protocol
  writing,          \* dummy_transport::writing
  send,             \* its send buffer, send_sizes and written
  offline,          \* its offline buffer, offline_sizes and offline_sum
  next,             \* its next sequence number
  layer,            \* the ordering layer of the newb
  expectingHeader,  \* stream_basp::expecting_header of the newb
  received          \* dummy_state::received

vars == <<bench, writing, send, offline, next, layer, expectingHeader, received>>
writeHalf == <<writing, send, offline>>
readHalf == <<next, layer, expectingHeader, received>>

\* The protocols of the benchmarks, and what BM_receive_impl is told of them:
\* wseq is "ordered", wsize that there is a basp header.
Protocol == {p \in [basp : {"none", "datagram", "stream"}, ordered : BOOLEAN] :
               p.basp = "stream" => ~p.ordered}
Bench == [kind : {"send", "receive"}, protocol : Protocol]

-----------------------------------------------------------------------------
(***************************************************************************)
(* Sending.                                                                *)
(***************************************************************************)
Empty == [buffer |-> 0, sizes |-> <<>>, sum |-> 0]

\* wr_buf: the chunk written last is complete.
NotRecorded(o) == o                            \* fault: its size is forgotten
WrBuf(o) ==
  IF o.buffer = 0 THEN o
  ELSE [o EXCEPT !.sizes = Append(@, o.buffer - o.sum), !.sum = o.buffer]

\* prepare_next_write: the offline buffer takes the place of the send buffer.
LastMissing(o) == o.sizes                      \* fault: no push_back
AllSizes(o) == Append(o.sizes, o.buffer - o.sum)

Kept(o) == [Empty EXCEPT !.sum = o.sum]        \* fault: offline_sum is not reset
Reset(o) == Empty

PrepareNextWrite(o) ==
  \/ /\ o.buffer = 0
     /\ writing' = FALSE
     /\ send' = Empty
     /\ offline' = o
  \/ /\ o.buffer > 0
     /\ writing' = TRUE
     /\ send' = [buffer |-> o.buffer, sizes |-> AllSizes(o), sum |-> 0]
     /\ offline' = Reset(o)

\* The packets that have not been sent: each chunk is one.  What BM_receive_impl
\* writes to set up is no packet: nothing asks the transport to send it.
Unsent ==
  IF bench.kind = "send"
  THEN send.sizes \o IF offline.buffer = 0 THEN offline.sizes ELSE AllSizes(offline)
  ELSE <<>>

\* A write handle lives and dies: wr_buf, a message of n bytes, flush.
AlwaysPrepares == TRUE                         \* fault: flush forgets !writing
Idle == ~writing

Write(n) ==
  LET o == [WrBuf(offline) EXCEPT !.buffer = @ + n]
  IN  /\ bench.kind = "send"
      /\ Len(Unsent) < MaxQueued
      /\ \/ Idle /\ PrepareNextWrite(o)
         \/ ~Idle /\ offline' = o /\ UNCHANGED <<writing, send>>
      /\ UNCHANGED <<bench, readHalf>>

\* write_some: the next chunk is sent.
WriteEvent ==
  LET written == send.sum + Head(send.sizes)
  IN  /\ bench.kind = "send"
      /\ writing
      /\ \/ written = send.buffer /\ PrepareNextWrite(offline)
         \/ /\ written # send.buffer
            /\ send' = [send EXCEPT !.sum = written, !.sizes = Tail(@)]
            /\ UNCHANGED <<writing, offline>>
      /\ UNCHANGED <<bench, readHalf>>

-----------------------------------------------------------------------------
(***************************************************************************)
(* Receiving.                                                              *)
(***************************************************************************)

\* read_some: the number of bytes it claims to have read, ...
PayloadOnly == PayloadLen          \* fault: headers are not added
ReceivedBytes ==
  PayloadLen + (IF bench.protocol.ordered THEN OrderingLen ELSE 0)
             + (IF bench.protocol.basp # "none" THEN BaspLen ELSE 0)

\* ... and the number the next packet will have.
SameAgain == next                  \* fault: next is not incremented
NextSeq == IF bench.protocol.ordered THEN Plus(next, 1) ELSE next

\* What the ordering layer leaves of a packet, and whether it lets it through.
Through == bench.protocol.ordered => Delivers(layer, next)
Remaining == ReceivedBytes - IF bench.protocol.ordered THEN OrderingLen ELSE 0

\* raw, datagram_basp and stream_basp: the packet holds the message, or the
\* payload that follows a header; one that is too short is an error.
HoldsMessage ==
  CASE bench.protocol.basp = "none" -> TRUE
    [] bench.protocol.basp = "datagram" -> Remaining >= BaspLen + PayloadLen
    [] bench.protocol.basp = "stream" -> ~expectingHeader /\ Remaining >= PayloadLen

HoldsHeader == bench.protocol.basp = "stream" /\ expectingHeader /\ Remaining >= BaspLen

\* One read_event of the loop.
ReadEvent ==
  /\ bench.kind = "receive"
  /\ ~received
  /\ next' = NextSeq
  /\ layer' = IF bench.protocol.ordered THEN ReadLayer(layer, next) ELSE layer
  /\ received' = (Through /\ HoldsMessage)
  /\ expectingHeader' = IF Through /\ HoldsHeader THEN FALSE
                        ELSE expectingHeader \/ received'
  /\ UNCHANGED <<bench, writeHalf>>

\* The benchmark library asks for another iteration.
NextIteration ==
  /\ received
  /\ received' = FALSE
  /\ UNCHANGED <<bench, writeHalf, next, layer, expectingHeader>>

-----------------------------------------------------------------------------
\* BM_receive_impl writes one message of n bytes before its loop, to show the
\* transport what a packet looks like.  It stays in the send buffer.
SetUpWrite(n) ==
  /\ writing = TRUE
  /\ send = [buffer |-> n, sizes |-> <<n>>, sum |-> 0]

NothingWritten == writing = FALSE /\ send = Empty

Init ==
  /\ bench \in Bench
  /\ IF bench.kind = "send" THEN NothingWritten ELSE \E n \in Sizes : SetUpWrite(n)
  /\ offline = Empty
  /\ next = 0
  /\ layer = InitLayer
  /\ expectingHeader = TRUE
  /\ received = FALSE

Next == (\E n \in Sizes : Write(n)) \/ WriteEvent \/ ReadEvent \/ NextIteration

\* The loops of the benchmarks call write_event and read_event themselves.
Spec == Init /\ [][Next]_vars /\ WF_vars(WriteEvent) /\ WF_vars(ReadEvent)

-----------------------------------------------------------------------------
(***************************************************************************)
(* Properties                                                              *)
(***************************************************************************)

\* Type invariant.
TypeOK ==
  /\ bench \in Bench
  /\ writing \in BOOLEAN
  /\ {send, offline} \subseteq [buffer : Nat, sizes : Seq(Nat), sum : Nat]
  /\ next \in SeqNr
  /\ layer \in Layer
  /\ expectingHeader \in BOOLEAN
  /\ received \in BOOLEAN

\* The sizes on record cut each buffer up without a gap or an overlap, however
\* writes and write events alternate: what is written and what is recorded as
\* still to be sent make up the send buffer, and offline_sum is the sum of the
\* offline sizes.
SizesAddUp ==
  /\ send.sum + FoldFunction(+, 0, send.sizes) = send.buffer
  /\ offline.sum = FoldFunction(+, 0, offline.sizes)
  /\ offline.sum < offline.buffer \/ offline = Empty

\* Nobody writes in vain: as long as anything is left a write event finds a size
\* to take off send_sizes, and otherwise the next flush starts over.
NothingStranded ==
  /\ writing <=> send.sizes # <<>>
  /\ offline.buffer > 0 => writing

\* The transport sends what it is given: one packet per message, with its size,
\* in order, and in the end all of them.
Packets == INSTANCE PacketQueue WITH queue <- Unsent
ImplementsPacketQueue == Packets!FairSpec

\* Between two messages the newb waits for what the transport makes up next: the
\* same sequence number, and a header where there are any.
InStep ==
  /\ bench.protocol.ordered => layer = [seqRead |-> next, pending |-> {}]
  /\ received => expectingHeader

\* The loop of BM_receive_impl ends in every iteration, over every protocol.
EveryLoopEnds == [](bench.kind = "receive" => <>received)
=============================================================================
