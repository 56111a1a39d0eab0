----------------------------- MODULE PpTcpPure -----------------------------
(***************************************************************************)
(* pp_tcp_pure: the ping-pong exchange over blocking sockets, without      *)
(* actors.  A client writes its counter, reads an answer and counts it,    *)
(* whatever and however much it has read; the server serves one client     *)
(* after the other and sends every chunk back as it comes.  Nobody looks   *)
(* at the counters, so the model counts bytes.                             *)
(*                                                                         *)
(* Operators marked "fault" are not part of the model: each is a plausible *)
(* bug in the operator below it, and some property must notice the swap.   *)
(***************************************************************************)
EXTENDS Naturals, Sequences

CONSTANTS
  Clients,        \* the client processes
  NoClient,       \* the server serves nobody
  Messages,       \* the option "-m"
  Size            \* sizeof(uint32_t), the bytes of a counter

ASSUME NoClientAssumption == NoClient \notin Clients
ASSUME MessagesAssumption == Messages \in Nat
ASSUME SizeAssumption == Size \in Nat \ {0}

VARIABLES
  whole,          \* whether every read returns all that was written
  pc,             \* where each client stands
  received,       \* received_messages of each client
  toServer,       \* bytes of each client the server has not read
  toClient,       \* bytes sent back each client has not read
  backlog,        \* connections the server has not accepted
  serving,        \* the client of accept_fd
  held,           \* bytes in data_buffer that have not been sent back
  server          \* "start", "up" or "ended"

vars == <<whole, pc, received, toServer, toClient, backlog, serving, held, server>>

-----------------------------------------------------------------------------
\* bind and listen.
Listen ==
  /\ server = "start"
  /\ server' = "up"
  /\ UNCHANGED <<pc, received, toServer, toClient, backlog, serving, held>>

\* connect succeeds when the server listens, whether or not it is busy.
Connect(c) ==
  /\ pc[c] = "start"
  /\ server = "up"
  /\ pc' = [pc EXCEPT ![c] = "write"]
  /\ backlog' = Append(backlog, c)
  /\ UNCHANGED <<received, toServer, toClient, serving, held, server>>

ConnectFails(c) ==
  /\ pc[c] = "start"
  /\ server # "up"
  /\ pc' = [pc EXCEPT ![c] = "failed"]
  /\ UNCHANGED <<received, toServer, toClient, backlog, serving, held, server>>

\* The head of the client's loop.
OneLate(c) == received[c] <= Messages          \* fault: off by one
MoreToDo(c) == received[c] < Messages

\* The connection of a client to a server that is gone was closed in order (see
\* End) or reset, then or later, when something came in that nobody reads.
Closed(c) == server = "ended" /\ serving = c
Reset(c) == server = "ended" /\ (serving = c => toServer[c] > 0)

\* write; without a server it goes nowhere, and fails once the client's host has
\* heard of the reset.
Write(c) ==
  /\ pc[c] = "write"
  /\ MoreToDo(c)
  /\ \/ /\ toServer' = [toServer EXCEPT ![c] = @ + Size]
        /\ pc' = [pc EXCEPT ![c] = "read"]
     \/ /\ Reset(c)
        /\ pc' = [pc EXCEPT ![c] = "failed"]
        /\ UNCHANGED toServer
  /\ UNCHANGED <<received, toClient, backlog, serving, held, server>>

\* read: some of the bytes that are there; none once all of a connection that was
\* closed in order has been read; or an error.  Only the error is not counted.
AnyPart(n) == 1 .. n                           \* fault: recv returns too soon
Chunks(n) == IF whole THEN {n} \ {0} ELSE 1 .. n

Counted(c) ==
  /\ received' = [received EXCEPT ![c] = @ + 1]
  /\ pc' = [pc EXCEPT ![c] = "write"]

Read(c) ==
  /\ pc[c] = "read"
  /\ UNCHANGED <<toServer, backlog, serving, held, server>>
  /\ \/ \E k \in Chunks(toClient[c]) :
          toClient' = [toClient EXCEPT ![c] = @ - k] /\ Counted(c)
     \/ Closed(c) /\ toClient[c] = 0 /\ Counted(c) /\ UNCHANGED toClient
     \/ /\ server = "ended" /\ ~Closed(c)
        /\ pc' = [pc EXCEPT ![c] = "failed"]
        /\ UNCHANGED <<received, toClient>>

\* The client prints "got all messages!" and closes its socket.
GotAll(c) ==
  /\ pc[c] = "write"
  /\ ~MoreToDo(c)
  /\ pc' = [pc EXCEPT ![c] = "closed"]
  /\ UNCHANGED <<received, toServer, toClient, backlog, serving, held, server>>

-----------------------------------------------------------------------------
\* accept takes the connections in the order in which they were made.
NoneTaken == backlog                           \* fault: it stays in the backlog
OldestTaken == Tail(backlog)

Accept ==
  /\ server = "up"
  /\ serving = NoClient
  /\ backlog # <<>>
  /\ serving' = Head(backlog)
  /\ backlog' = OldestTaken
  /\ UNCHANGED <<pc, received, toServer, toClient, held, server>>

\* recv takes a chunk into the buffer, ...
Recv ==
  \E c \in Clients : \E k \in Chunks(toServer[c]) :
    /\ server = "up"
    /\ serving = c
    /\ held = 0
    /\ held' = k
    /\ toServer' = [toServer EXCEPT ![c] = @ - k]
    /\ UNCHANGED <<pc, received, toClient, backlog, serving, server>>

\* ... and send sends it back as it came.
HalfSent(k) == k \div 2                        \* fault: a part of it gets lost
Sent(k) == k

Send ==
  \E c \in Clients :
    /\ server = "up"
    /\ serving = c
    /\ held > 0
    /\ held' = 0
    /\ toClient' = [toClient EXCEPT ![c] = @ + Sent(held)]
    /\ UNCHANGED <<pc, received, toServer, backlog, serving, server>>

\* recv says that the client shut down, or recv or send fails because it left
\* something unread: back to accept.
Disconnect ==
  \E c \in Clients :
    /\ server = "up"
    /\ serving = c
    /\ pc[c] = "closed"
    /\ (toServer[c] = 0 /\ held = 0) \/ toClient[c] > 0
    /\ serving' = NoClient
    /\ held' = 0
    /\ UNCHANGED <<pc, received, toServer, toClient, backlog, server>>

\* The server's loop has no end: its process is killed.  Its host resets the
\* connections that wait to be accepted, and closes that of accept_fd, which ends
\* in order if all that came in has been read and with a reset if not.  From here
\* on "serving" names the connection that ended in order.  (A counter that is
\* still on its way then counts as written after the end.)
End ==
  /\ server = "up"
  /\ server' = "ended"
  /\ serving' = IF \E c \in Clients : serving = c /\ toServer[c] > 0
                  THEN NoClient ELSE serving
  /\ held' = 0
  /\ UNCHANGED <<pc, received, toServer, toClient, backlog>>

-----------------------------------------------------------------------------
Init ==
  /\ whole \in BOOLEAN
  /\ pc = [c \in Clients |-> "start"]
  /\ received = [c \in Clients |-> 0]
  /\ toServer = [c \in Clients |-> 0]
  /\ toClient = [c \in Clients |-> 0]
  /\ backlog = <<>>
  /\ serving = NoClient
  /\ held = 0
  /\ server = "start"

ClientNext(c) ==
  /\ Connect(c) \/ ConnectFails(c) \/ Write(c) \/ Read(c) \/ GotAll(c)
  /\ UNCHANGED whole

ServerNext == (Listen \/ Accept \/ Recv \/ Send \/ Disconnect) /\ UNCHANGED whole

Next == (\E c \in Clients : ClientNext(c)) \/ ServerNext \/ (End /\ UNCHANGED whole)

Spec == Init /\ [][Next]_vars

\* Every process is scheduled.
FairSpec ==
  Spec /\ WF_vars(ServerNext) /\ \A c \in Clients : WF_vars(ClientNext(c))

-----------------------------------------------------------------------------
(***************************************************************************)
(* Properties                                                              *)
(***************************************************************************)

\* Type invariant.
TypeOK ==
  /\ whole \in BOOLEAN
  /\ pc \in [Clients -> {"start", "write", "read", "closed", "failed"}]
  /\ received \in [Clients -> 0 .. Messages]
  /\ toServer \in [Clients -> Nat]
  /\ toClient \in [Clients -> Nat]
  /\ backlog \in Seq(Clients)
  /\ serving \in Clients \cup {NoClient}
  /\ held \in Nat
  /\ server \in {"start", "up", "ended"}

\* What the server has in its buffer is a part of one client's exchange.
Held(c) == IF serving = c THEN held ELSE 0

\* A blocking read is never for ever: as long as the server runs, something
\* that will be sent back is on its way to whoever reads, although clients and
\* server cut the stream up as they like.
NeverStuck ==
  \A c \in Clients :
    pc[c] = "read" /\ server = "up" => toServer[c] + Held(c) + toClient[c] > 0

\* A client that has connected is waiting for its turn or has it until it is
\* done with, and nobody else has it.
OneAtATime ==
  /\ \A c \in Clients :
       pc[c] \in {"write", "read"} /\ server = "up" =>
         (serving = c) # (\E i \in 1 .. Len(backlog) : backlog[i] = c)
  /\ \A i, j \in 1 .. Len(backlog) : backlog[i] = backlog[j] => i = j

\* "got all messages!": every answer has been read (while reads are whole).
GotAllMessages ==
  whole => \A c \in Clients :
             pc[c] = "closed" =>
               toServer[c] = 0 /\ Held(c) = 0 /\ toClient[c] = 0

\* The server has to stay for that: clients that share it, in whatever order it
\* takes them, get all their answers.
GotAllWhileServed == server # "ended" => GotAllMessages

\* Every client that finds the server gets to its end: it gets its turn however
\* the streams are cut up, or learns that the server is gone.
EveryClientEnds ==
  \A c \in Clients : pc[c] = "write" ~> pc[c] \in {"closed", "failed"}

\* While reads are whole and the server runs, each client's exchange implements
\* PingPong, whatever the others do.
Abstract(c) == INSTANCE PingPong
  WITH Target <- Messages,
       echoed <- IF toClient[c] = 0 THEN received[c] ELSE received[c] + 1,
       counted <- received[c]

ImplementPingPong ==
  /\ \A c \in Clients : Abstract(c)!Init
  /\ [][whole /\ server # "ended" =>
         \A c \in Clients : Abstract(c)!Next \/ UNCHANGED Abstract(c)!ppVars]_vars
=============================================================================
