--------------------------- MODULE PpTcpPureProofs --------------------------
(***************************************************************************)
(* Proofs about PpTcpPure for every set of clients, every number of        *)
(* messages and every size of a counter.                                   *)
(***************************************************************************)
EXTENDS PpTcpPure, SequenceTheorems, TLAPS

\* A chunk is never empty and never more than there is.
LEMMA ChunksType ==
  ASSUME NEW n \in Nat, NEW k \in Chunks(n)
  PROVE  k \in 1 .. n /\ (whole => k = n)
BY DEF Chunks

(***************************************************************************)
(* Types.  Until the server listens no client has got anywhere, and one    *)
(* that waits for an answer has not got all of them.                       *)
(***************************************************************************)
TypeInv ==
  /\ TypeOK
  /\ \A c \in Clients :
       /\ server = "start" => pc[c] \in {"start", "failed"}
       /\ pc[c] = "start" => received[c] = 0
       /\ pc[c] = "read" => received[c] < Messages

LEMMA TypeInvInit == Init => TypeInv
<1> SUFFICES ASSUME Init PROVE TypeInv
  OBVIOUS
<1>1. backlog \in Seq(Clients)
  BY DEF Init
<1> QED  BY <1>1, MessagesAssumption DEF Init, TypeInv, TypeOK

\* The steps of a client.
LEMMA TypeInvClient ==
  ASSUME TypeInv, NEW c \in Clients, ClientNext(c)
  PROVE  TypeInv'
<1> USE MessagesAssumption, SizeAssumption DEF TypeInv, TypeOK
<1>0. whole' = whole
  BY DEF ClientNext
<1>1. CASE Connect(c)
  <2>1. backlog' \in Seq(Clients)
    BY <1>1 DEF Connect
  <2> QED  BY <1>0, <1>1, <2>1 DEF Connect
<1>2. CASE ConnectFails(c)
  BY <1>0, <1>2 DEF ConnectFails
<1>3. CASE Write(c)
  <2>1. toServer' \in [Clients -> Nat]
    <3>1. toServer[c] + Size \in Nat
      BY SizeAssumption
    <3>2. toServer' \in {toServer, [toServer EXCEPT ![c] = toServer[c] + Size]}
      BY <1>3 DEF Write
    <3> QED  BY <3>1, <3>2
  <2> QED  BY <1>0, <1>3, <2>1 DEF Write, MoreToDo
<1>4. CASE Read(c)
  <2>1. /\ pc[c] = "read" /\ UNCHANGED <<toServer, backlog, serving, held, server>>
        /\ \/ Counted(c)
           \/ server = "ended" /\ received' = received /\ pc' = [pc EXCEPT ![c] = "failed"]
    BY <1>4 DEF Read
  <2>2. toClient' \in [Clients -> Nat]
    <3>1. ASSUME NEW k \in Chunks(toClient[c]),
                 toClient' = [toClient EXCEPT ![c] = toClient[c] - k]
          PROVE  toClient' \in [Clients -> Nat]
      <4>1. k \in 1 .. toClient[c]
        BY ChunksType
      <4> QED  BY <3>1, <4>1
    <3> QED  BY <1>4, <3>1 DEF Read
  <2>3. CASE Counted(c)
    <3>1. /\ pc' = [pc EXCEPT ![c] = "write"]
          /\ received' = [received EXCEPT ![c] = received[c] + 1]
      BY <2>3 DEF Counted
    <3>2. received[c] < Messages /\ server # "start"
      BY <2>1
    <3>3. received[c] \in 0 .. Messages
      OBVIOUS
    <3>4. received[c] + 1 \in 0 .. Messages
      BY <3>2, <3>3
    <3> QED  BY <1>0, <2>1, <2>2, <3>1, <3>2, <3>4
  <2>4. CASE server = "ended" /\ received' = received /\ pc' = [pc EXCEPT ![c] = "failed"]
    BY <1>0, <2>1, <2>2, <2>4
  <2> QED  BY <2>1, <2>3, <2>4
<1>5. CASE GotAll(c)
  BY <1>0, <1>5 DEF GotAll
<1> QED  BY <1>1, <1>2, <1>3, <1>4, <1>5 DEF ClientNext

\* The steps of the server, its end, and none at all.
LEMMA TypeInvServer ==
  ASSUME TypeInv, ServerNext \/ (End /\ UNCHANGED whole) \/ UNCHANGED vars
  PROVE  TypeInv'
<1> USE DEF TypeInv, TypeOK
<1>1. CASE Listen /\ UNCHANGED whole
  BY <1>1 DEF Listen
<1>2. CASE Accept /\ UNCHANGED whole
  <2>1. Head(backlog) \in Clients /\ Tail(backlog) \in Seq(Clients)
    BY <1>2 DEF Accept
  <2> QED  BY <1>2, <2>1 DEF Accept, OldestTaken
<1>3. CASE Recv /\ UNCHANGED whole
  <2>0. PICK c \in Clients : \E k \in Chunks(toServer[c]) :
          /\ held' = k
          /\ toServer' = [toServer EXCEPT ![c] = toServer[c] - k]
          /\ UNCHANGED <<pc, received, toClient, backlog, serving, server>>
    BY <1>3 DEF Recv
  <2>1. PICK k \in Chunks(toServer[c]) :
          /\ held' = k
          /\ toServer' = [toServer EXCEPT ![c] = toServer[c] - k]
          /\ UNCHANGED <<pc, received, toClient, backlog, serving, server>>
    BY <2>0
  <2>2. k \in 1 .. toServer[c]
    BY <2>1, ChunksType
  <2>3. toServer' \in [Clients -> Nat] /\ held' \in Nat
    BY <2>1, <2>2
  <2> QED  BY <1>3, <2>1, <2>3
<1>7. CASE Send /\ UNCHANGED whole
  <2>1. PICK c \in Clients : toClient' = [toClient EXCEPT ![c] = toClient[c] + held]
    BY <1>7 DEF Send, Sent
  <2>2. toClient' \in [Clients -> Nat]
    BY <2>1
  <2> QED  BY <1>7, <2>2 DEF Send
<1>4. CASE Disconnect /\ UNCHANGED whole
  BY <1>4 DEF Disconnect
<1>5. CASE End /\ UNCHANGED whole
  BY <1>5 DEF End
<1>6. CASE UNCHANGED vars
  BY <1>6 DEF vars
<1> QED  BY <1>1, <1>2, <1>3, <1>4, <1>5, <1>6, <1>7 DEF ServerNext

LEMMA TypeInvNext == TypeInv /\ [Next]_vars => TypeInv'
BY TypeInvClient, TypeInvServer DEF Next

LEMMA TypeInvAlways == Spec => []TypeInv
BY TypeInvInit, TypeInvNext, PTL DEF Spec

\* Type correctness of clients, server, streams and backlog, however the streams
\* are cut up and whenever the server is killed.
THEOREM PureTypeCorrect == Spec => []TypeOK
<1>1. TypeInv => TypeOK
  BY DEF TypeInv
<1> QED  BY <1>1, TypeInvAlways, PTL

(***************************************************************************)
(* What is on its way.                                                     *)
(***************************************************************************)

\* NeverStuck by itself: what the server takes off one stream it puts on the
\* other, and only a client's own read takes anything away from both.
LEMMA NeverStuckClient ==
  ASSUME TypeInv, NeverStuck, NEW d \in Clients, ClientNext(d)
  PROVE  NeverStuck'
<1> SUFFICES ASSUME NEW c \in Clients, pc'[c] = "read", server' = "up"
             PROVE  toServer'[c] + Held(c)' + toClient'[c] > 0
  BY DEF NeverStuck
<1> USE SizeAssumption DEF TypeInv, TypeOK
<1>1. server = "up" /\ Held(c)' = Held(c) /\ Held(c) \in Nat
  BY DEF ClientNext, Connect, ConnectFails, Write, Read, GotAll, Held
<1>2. CASE c = d
  <2>1. Write(c) /\ toServer' = [toServer EXCEPT ![c] = toServer[c] + Size]
    BY <1>1, <1>2
    DEF ClientNext, Connect, ConnectFails, Write, Read, GotAll, Counted, Reset
  <2>2. toClient'[c] \in Nat /\ toServer'[c] = toServer[c] + Size
    BY <2>1 DEF Write
  <2> QED  BY <1>1, <2>2
<1>3. CASE c # d
  <2>1. pc[c] = "read" /\ toServer'[c] = toServer[c] /\ toClient'[c] = toClient[c]
    BY <1>3 DEF ClientNext, Connect, ConnectFails, Write, Read, GotAll, Counted
  <2> QED  BY <1>1, <2>1 DEF NeverStuck
<1> QED  BY <1>2, <1>3

LEMMA NeverStuckServer ==
  ASSUME TypeInv, NeverStuck, ServerNext \/ (End /\ UNCHANGED whole) \/ UNCHANGED vars
  PROVE  NeverStuck'
<1> SUFFICES ASSUME NEW c \in Clients, pc'[c] = "read", server' = "up"
             PROVE  toServer'[c] + Held(c)' + toClient'[c] > 0
  BY DEF NeverStuck
<1> USE DEF TypeInv, TypeOK
<1>1. CASE Listen
  BY <1>1 DEF Listen, NeverStuck, TypeInv
<1>2. CASE Recv
  <2>0. PICK d \in Clients : \E k \in Chunks(toServer[d]) :
          /\ toServer' = [toServer EXCEPT ![d] = toServer[d] - k]
          /\ serving = d /\ held = 0 /\ held' = k
          /\ UNCHANGED <<pc, toClient, serving, server>>
    BY <1>2 DEF Recv
  <2>1. PICK k \in Chunks(toServer[d]) :
          /\ toServer' = [toServer EXCEPT ![d] = toServer[d] - k]
          /\ serving = d /\ held = 0 /\ held' = k
          /\ UNCHANGED <<pc, toClient, serving, server>>
    BY <2>0
  <2>2. k \in 1 .. toServer[d]
    BY ChunksType
  <2>3. CASE c = d
    BY <2>1, <2>2, <2>3 DEF Held
  <2>4. CASE c # d
    BY <2>1, <2>4 DEF Held, NeverStuck
  <2> QED  BY <2>3, <2>4
<1>3. CASE Send
  <2>1. PICK d \in Clients :
          /\ toClient' = [toClient EXCEPT ![d] = toClient[d] + held]
          /\ serving = d /\ held > 0 /\ held' = 0
          /\ UNCHANGED <<pc, toServer, serving, server>>
    BY <1>3 DEF Send, Sent
  <2>2. CASE c = d
    BY <2>1, <2>2 DEF Held
  <2>3. CASE c # d
    BY <2>1, <2>3 DEF Held, NeverStuck
  <2> QED  BY <2>2, <2>3
<1>4. CASE Accept
  <2>1. Held(c) = 0
    BY <1>4, NoClientAssumption DEF Accept, Held
  <2>2. toServer[c] + toClient[c] > 0 /\ Held(c)' \in Nat
    BY <1>4, <2>1 DEF Accept, NeverStuck, Held
  <2> QED  BY <1>4, <2>2 DEF Accept
<1>5. CASE Disconnect
  <2>1. serving # c
    BY <1>5 DEF Disconnect
  <2> QED  BY <1>5, <2>1, NoClientAssumption DEF Disconnect, NeverStuck, Held
<1>6. CASE End
  BY <1>6 DEF End
<1>7. CASE UNCHANGED vars
  BY <1>7 DEF vars, NeverStuck, Held
<1> QED  BY <1>1, <1>2, <1>3, <1>4, <1>5, <1>6, <1>7 DEF ServerNext

\* No client blocks in read for ever while the server runs: however the streams
\* are cut up, what it waits for is under way.
THEOREM NeverStuckAlways == Spec => []NeverStuck
<1>1. Init => NeverStuck
  BY DEF Init, NeverStuck
<1>2. TypeInv /\ NeverStuck /\ [Next]_vars => NeverStuck'
  BY NeverStuckClient, NeverStuckServer DEF Next
<1> QED  BY <1>1, <1>2, TypeInvAlways, PTL DEF Spec

(***************************************************************************)
(* Turns.                                                                  *)
(***************************************************************************)

\* OneAtATime as an induction hypothesis: whoever is in the backlog or is served
\* has connected once, and nobody is in both.
Waits(c) == \E i \in 1 .. Len(backlog) : backlog[i] = c

TurnInv ==
  /\ \A c \in Clients :
       /\ Waits(c) \/ serving = c => pc[c] # "start"
       /\ ~(Waits(c) /\ serving = c)
       /\ pc[c] \in {"write", "read"} /\ server = "up" => serving = c \/ Waits(c)
  /\ \A i, j \in 1 .. Len(backlog) : backlog[i] = backlog[j] => i = j

LEMMA TurnConnect ==
  ASSUME TypeInv, TurnInv, NEW d \in Clients, Connect(d)
  PROVE  TurnInv'
<1>1. /\ Len(backlog) \in Nat /\ Len(backlog') = Len(backlog) + 1
      /\ \A i \in 1 .. Len(backlog) : backlog'[i] = backlog[i]
      /\ backlog'[Len(backlog) + 1] = d
  BY DEF Connect, TypeInv, TypeOK
<1>2. ~Waits(d) /\ serving # d
  BY DEF Connect, TurnInv
<1>3. \A c \in Clients : Waits(c)' <=> Waits(c) \/ c = d
  <2> TAKE c \in Clients
  <2>1. Waits(c) => Waits(c)'
    BY <1>1 DEF Waits
  <2>2. Waits(d)'
    BY <1>1 DEF Waits
  <2>3. Waits(c)' => Waits(c) \/ c = d
    BY <1>1 DEF Waits
  <2> QED  BY <2>1, <2>2, <2>3
<1>4. \A i, j \in 1 .. Len(backlog') : backlog'[i] = backlog'[j] => i = j
  <2> TAKE i, j \in 1 .. Len(backlog')
  <2>1. \A k \in 1 .. Len(backlog) : backlog[k] # d
    BY <1>2 DEF Waits
  <2>2. i \in 1 .. Len(backlog) \/ i = Len(backlog) + 1
    BY <1>1
  <2>3. j \in 1 .. Len(backlog) \/ j = Len(backlog) + 1
    BY <1>1
  <2> QED  BY <1>1, <2>1, <2>2, <2>3 DEF TurnInv
<1>5. ASSUME NEW c \in Clients
      PROVE  /\ Waits(c)' \/ serving' = c => pc'[c] # "start"
             /\ ~(Waits(c)' /\ serving' = c)
             /\ pc'[c] \in {"write", "read"} /\ server' = "up" =>
                  serving' = c \/ Waits(c)'
  BY <1>2, <1>3 DEF Connect, TurnInv, TypeInv, TypeOK
<1> QED  BY <1>4, <1>5 DEF TurnInv

LEMMA TurnAccept ==
  ASSUME TypeInv, TurnInv, Accept
  PROVE  TurnInv'
<1> DEFINE h == backlog[1]
<1>1. /\ Len(backlog) \in Nat \ {0} /\ Len(backlog') = Len(backlog) - 1
      /\ \A i \in 1 .. Len(backlog') : backlog'[i] = backlog[i + 1]
      /\ h \in Clients /\ serving' = h
  BY DEF Accept, OldestTaken, TypeInv, TypeOK
<1>2. ASSUME NEW c \in Clients, c = h
      PROVE  Waits(c) /\ ~Waits(c)'
  <2>1. Waits(c)
    BY <1>1, <1>2 DEF Waits
  <2>2. \A i \in 1 .. Len(backlog') : backlog[i + 1] # backlog[1]
    BY <1>1 DEF TurnInv
  <2> QED  BY <1>1, <1>2, <2>1, <2>2 DEF Waits
<1>3. \A c \in Clients : c # h => (Waits(c)' <=> Waits(c))
  <2> SUFFICES ASSUME NEW c \in Clients, c # h
               PROVE  Waits(c)' <=> Waits(c)
    OBVIOUS
  <2>1. Waits(c)' => Waits(c)
    BY <1>1 DEF Waits
  <2>2. ASSUME NEW i \in 1 .. Len(backlog), backlog[i] = c
        PROVE  Waits(c)'
    <3>1. i - 1 \in 1 .. Len(backlog') /\ backlog'[i - 1] = backlog[(i - 1) + 1]
      BY <1>1, <2>2
    <3> QED  BY <2>2, <3>1 DEF Waits
  <2> QED  BY <2>1, <2>2 DEF Waits
<1>4. \A i, j \in 1 .. Len(backlog') : backlog'[i] = backlog'[j] => i = j
  BY <1>1 DEF TurnInv
<1>5. ASSUME NEW c \in Clients
      PROVE  /\ Waits(c)' \/ serving' = c => pc'[c] # "start"
             /\ ~(Waits(c)' /\ serving' = c)
             /\ pc'[c] \in {"write", "read"} /\ server' = "up" =>
                  serving' = c \/ Waits(c)'
  BY <1>1, <1>2, <1>3, NoClientAssumption DEF Accept, TurnInv, TypeInv, TypeOK
<1> QED  BY <1>4, <1>5 DEF TurnInv

LEMMA TurnNext == TypeInv /\ TurnInv /\ [Next]_vars => TurnInv'
<1> SUFFICES ASSUME TypeInv, TurnInv, [Next]_vars PROVE TurnInv'
  OBVIOUS
<1> USE DEF TypeInv, TypeOK
<1>1. ASSUME NEW d \in Clients, Connect(d)
      PROVE  TurnInv'
  BY <1>1, TurnConnect
<1>2. CASE Accept
  BY <1>2, TurnAccept
<1>3. ASSUME NEW d \in Clients, ConnectFails(d) \/ Write(d) \/ Read(d) \/ GotAll(d)
      PROVE  TurnInv'
  <2>1. UNCHANGED <<backlog, serving, server>>
    BY <1>3 DEF ConnectFails, Write, Read, GotAll
  <2>2. ASSUME NEW c \in Clients
        PROVE  /\ pc'[c] = "start" => pc[c] = "start"
               /\ pc'[c] \in {"write", "read"} /\ server = "up" =>
                    pc[c] \in {"write", "read"}
    BY <1>3 DEF ConnectFails, Write, Read, GotAll, Counted
  <2>3. \A c \in Clients : Waits(c)' <=> Waits(c)
    BY <2>1 DEF Waits
  <2> QED  BY <2>1, <2>2, <2>3 DEF TurnInv
<1>4. CASE Listen
  BY <1>4 DEF Listen, TurnInv, Waits
<1>5. CASE Disconnect
  BY <1>5, NoClientAssumption DEF Disconnect, TurnInv, Waits
<1>6. CASE Recv \/ Send \/ UNCHANGED vars
  BY <1>6 DEF Recv, Send, vars, TurnInv, Waits
<1>7. CASE End
  BY <1>7, NoClientAssumption DEF End, TurnInv, Waits
<1> QED  BY <1>1, <1>2, <1>3, <1>4, <1>5, <1>6, <1>7 DEF Next, ClientNext, ServerNext

\* Every client that has connected waits for its turn or has it, and only one has
\* it: no client is forgotten between listen and accept, none is taken twice.
THEOREM OneAtATimeAlways == Spec => []OneAtATime
<1>1. Init => TurnInv
  BY NoClientAssumption DEF Init, TurnInv, Waits
<1>2. TypeInv /\ TurnInv => OneAtATime
  BY DEF TurnInv, OneAtATime, Waits
<1> QED  BY <1>1, <1>2, TurnNext, TypeInvAlways, PTL DEF Spec

(***************************************************************************)
(* Whole reads.                                                            *)
(***************************************************************************)

\* A client that does not wait for an answer has left nothing on its way, and one
\* that does has one counter on its way: to the server, in its buffer, or back.
Exchange(c) ==
  IF pc[c] = "read"
    THEN \/ toServer[c] = Size /\ Held(c) = 0 /\ toClient[c] = 0
         \/ toServer[c] = 0 /\ Held(c) = Size /\ toClient[c] = 0
         \/ toServer[c] = 0 /\ Held(c) = 0 /\ toClient[c] = Size
    ELSE toServer[c] = 0 /\ Held(c) = 0 /\ toClient[c] = 0

WholeInv ==
  whole /\ server # "ended" =>
    /\ \A c \in Clients : Exchange(c)
    /\ serving = NoClient => held = 0

LEMMA WholeClient ==
  ASSUME TypeInv, WholeInv, NEW d \in Clients, ClientNext(d)
  PROVE  WholeInv'
<1>0. UNCHANGED <<serving, held, server, whole>>
  BY DEF ClientNext, Connect, ConnectFails, Write, Read, GotAll
<1> SUFFICES ASSUME whole', server' # "ended", NEW c \in Clients
             PROVE  Exchange(c)'
  BY <1>0 DEF WholeInv
<1> USE SizeAssumption DEF TypeInv, TypeOK
<1>1. whole /\ server # "ended" /\ Exchange(c) /\ Held(c)' = Held(c)
  BY <1>0 DEF WholeInv, Held
<1>2. CASE c # d
  <2>1. pc'[c] = pc[c] /\ toServer'[c] = toServer[c] /\ toClient'[c] = toClient[c]
    BY <1>2 DEF ClientNext, Connect, ConnectFails, Write, Read, GotAll, Counted
  <2> QED  BY <1>1, <2>1 DEF Exchange
<1>3. CASE c = d /\ (Connect(c) \/ ConnectFails(c) \/ GotAll(c))
  BY <1>1, <1>3 DEF Connect, ConnectFails, GotAll, Exchange
<1>4. CASE c = d /\ Write(c)
  <2>1. /\ toServer'[c] = Size /\ toClient'[c] = 0 /\ Held(c) = 0
        /\ pc'[c] = "read"
    BY <1>1, <1>4 DEF Write, Reset, Exchange
  <2> QED  BY <1>1, <2>1 DEF Exchange
<1>5. CASE c = d /\ Read(c)
  <2>1. PICK k \in Chunks(toClient[c]) :
          toClient' = [toClient EXCEPT ![c] = toClient[c] - k] /\ Counted(c)
    BY <1>1, <1>5 DEF Read, Closed
  <2>2. k = toClient[c] /\ toClient[c] > 0
    BY <1>1, <2>1, ChunksType
  <2>3. /\ toClient'[c] = 0 /\ toServer'[c] = 0 /\ Held(c) = 0
        /\ pc'[c] = "write"
    BY <1>1, <1>5, <2>1, <2>2 DEF Read, Counted, Exchange
  <2> QED  BY <1>1, <2>3 DEF Exchange
<1> QED  BY <1>2, <1>3, <1>4, <1>5 DEF ClientNext

LEMMA WholeServer ==
  ASSUME TypeInv, WholeInv, ServerNext \/ (End /\ UNCHANGED whole) \/ UNCHANGED vars
  PROVE  WholeInv'
<1> USE SizeAssumption, NoClientAssumption DEF TypeInv, TypeOK
<1>1. CASE Recv /\ UNCHANGED whole
  <2> SUFFICES ASSUME whole, server # "ended", NEW c \in Clients
               PROVE  Exchange(c)' /\ serving' # NoClient
    BY <1>1 DEF Recv, WholeInv
  <2>1. PICK d \in Clients : \E k \in Chunks(toServer[d]) :
          /\ toServer' = [toServer EXCEPT ![d] = toServer[d] - k]
          /\ serving = d /\ held' = k
          /\ UNCHANGED <<pc, toClient, serving>>
    BY <1>1 DEF Recv
  <2>2. PICK k \in Chunks(toServer[d]) :
          /\ toServer' = [toServer EXCEPT ![d] = toServer[d] - k]
          /\ serving = d /\ held' = k
          /\ UNCHANGED <<pc, toClient, serving>>
    BY <2>1
  <2>3. k = toServer[d] /\ toServer[d] > 0
    BY <2>2, ChunksType
  <2>4. Exchange(c) /\ Exchange(d)
    BY DEF WholeInv
  <2>5. CASE c = d
    <3>1. toServer'[c] = 0 /\ Held(c)' = Size /\ toClient'[c] = 0 /\ pc'[c] = "read"
      BY <2>2, <2>3, <2>4, <2>5 DEF Exchange, Held
    <3> QED  BY <2>2, <3>1 DEF Exchange
  <2>6. CASE c # d
    <3>1. toServer'[c] = toServer[c] /\ Held(c)' = Held(c)
      BY <2>2, <2>6 DEF Held
    <3> QED  BY <2>2, <2>4, <3>1 DEF Exchange
  <2> QED  BY <2>5, <2>6
<1>2. CASE Send /\ UNCHANGED whole
  <2> SUFFICES ASSUME whole, server # "ended", NEW c \in Clients
               PROVE  Exchange(c)' /\ held' = 0
    BY <1>2 DEF Send, WholeInv
  <2>1. PICK d \in Clients :
          /\ toClient' = [toClient EXCEPT ![d] = toClient[d] + held]
          /\ serving = d /\ held > 0 /\ held' = 0
          /\ UNCHANGED <<pc, toServer, serving>>
    BY <1>2 DEF Send, Sent
  <2>2. Exchange(c) /\ Exchange(d)
    BY DEF WholeInv
  <2>3. CASE c = d
    <3>1. toServer'[c] = 0 /\ Held(c)' = 0 /\ toClient'[c] = Size /\ pc'[c] = "read"
      BY <2>1, <2>2, <2>3 DEF Exchange, Held
    <3> QED  BY <2>1, <3>1 DEF Exchange
  <2>4. CASE c # d
    <3>1. toClient'[c] = toClient[c] /\ Held(c)' = Held(c)
      BY <2>1, <2>4 DEF Held
    <3> QED  BY <2>1, <2>2, <3>1 DEF Exchange
  <2> QED  BY <2>3, <2>4
<1>3. CASE Listen /\ UNCHANGED whole
  BY <1>3 DEF Listen, WholeInv, Exchange, Held
<1>4. CASE (Accept \/ Disconnect) /\ UNCHANGED whole
  <2> SUFFICES ASSUME whole, server # "ended", NEW c \in Clients
               PROVE  Exchange(c)' /\ (serving' = NoClient => held' = 0)
    BY <1>4 DEF Accept, Disconnect, WholeInv
  <2>1. Held(c)' = 0 /\ Held(c) = 0 /\ (serving' = NoClient => held' = 0)
    <3>1. CASE Accept
      BY <3>1 DEF Accept, WholeInv, Held
    <3>2. CASE Disconnect
      <4>1. \A d \in Clients : pc[d] = "closed" => Held(d) = 0
        BY DEF WholeInv, Exchange
      <4> QED  BY <3>2, <4>1 DEF Disconnect, Held
    <3> QED  BY <1>4, <3>1, <3>2
  <2>2. Exchange(c) /\ UNCHANGED <<pc, toServer, toClient>>
    BY <1>4 DEF WholeInv, Accept, Disconnect
  <2> QED  BY <2>1, <2>2 DEF Exchange
<1>5. CASE End
  BY <1>5 DEF End, WholeInv
<1>6. CASE UNCHANGED vars
  BY <1>6 DEF vars, WholeInv, Exchange, Held
<1> QED  BY <1>1, <1>2, <1>3, <1>4, <1>5, <1>6 DEF ServerNext

LEMMA WholeInvAlways == Spec => []WholeInv
<1>1. Init => WholeInv
  BY DEF Init, WholeInv, Exchange, Held
<1>2. TypeInv /\ WholeInv /\ [Next]_vars => WholeInv'
  BY WholeClient, WholeServer DEF Next
<1> QED  BY <1>1, <1>2, TypeInvAlways, PTL DEF Spec

\* A client that prints "got all messages!" has read every answer, whoever else
\* the server has served meanwhile, unless the server has been killed.
THEOREM GotAllAlwaysWhileServed == Spec => []GotAllWhileServed
<1>1. WholeInv => GotAllWhileServed
  BY DEF WholeInv, Exchange, GotAllWhileServed, GotAllMessages
<1> QED  BY <1>1, WholeInvAlways, PTL

\* What a step means for one client's exchange: an answer comes into being, it is
\* counted, or nothing happens to it.
Echoed(c) == IF toClient[c] = 0 THEN received[c] ELSE received[c] + 1

LEMMA PureStep ==
  ASSUME TypeInv, WholeInv, Next, whole, server # "ended", NEW c \in Clients
  PROVE  \/ /\ Echoed(c) = received[c] /\ received[c] < Messages
            /\ Echoed(c)' = Echoed(c) + 1 /\ received'[c] = received[c]
         \/ /\ received[c] < Echoed(c)
            /\ received'[c] = received[c] + 1 /\ Echoed(c)' = Echoed(c)
         \/ received'[c] = received[c] /\ Echoed(c)' = Echoed(c)
<1> USE SizeAssumption DEF TypeInv, TypeOK, Echoed
<1>0. Exchange(c)
  BY DEF WholeInv
<1>1. CASE Read(c)
  <2>1. PICK k \in Chunks(toClient[c]) :
          toClient' = [toClient EXCEPT ![c] = toClient[c] - k] /\ Counted(c)
    BY <1>1 DEF Read, Closed
  <2>2. k = toClient[c] /\ toClient[c] > 0
    BY <2>1, ChunksType
  <2>3. toClient'[c] = 0 /\ received'[c] = received[c] + 1
    BY <2>1, <2>2 DEF Counted
  <2> QED  BY <2>2, <2>3
<1>2. CASE Send
  <2>1. PICK d \in Clients :
          /\ toClient' = [toClient EXCEPT ![d] = toClient[d] + held]
          /\ serving = d /\ held > 0
          /\ UNCHANGED received
    BY <1>2 DEF Send, Sent
  <2>2. CASE c = d
    <3>1. toClient[c] = 0 /\ toClient'[c] = Size /\ pc[c] = "read"
      BY <1>0, <2>1, <2>2 DEF Exchange, Held
    <3> QED  BY <2>1, <3>1
  <2>3. CASE c # d
    BY <2>1, <2>3
  <2> QED  BY <2>2, <2>3
<1>3. ASSUME NEW d \in Clients, ClientNext(d), ~Read(c)
      PROVE  received'[c] = received[c] /\ toClient'[c] = toClient[c]
  BY <1>3 DEF ClientNext, Connect, ConnectFails, Write, Read, GotAll, Counted
<1>4. CASE Listen \/ Accept \/ Recv \/ Disconnect \/ End
  BY <1>4 DEF Listen, Accept, Recv, Disconnect, End
<1> QED  BY <1>1, <1>2, <1>3, <1>4 DEF Next, ServerNext

\* While reads are whole and the server runs, every client has an exchange as
\* PingPong has it.
THEOREM PureImplementation == Spec => ImplementPingPong
<1>1. Init => \A c \in Clients : Abstract(c)!Init
  BY DEF Init, Abstract!Init
<1>2. ASSUME TypeInv, WholeInv, Next, whole, server # "ended", NEW c \in Clients
      PROVE  Abstract(c)!Next \/ UNCHANGED Abstract(c)!ppVars
  BY <1>2, PureStep DEF Echoed, Abstract!Next, Abstract!Echo, Abstract!Count, Abstract!ppVars
<1>3. TypeInv /\ WholeInv /\ [Next]_vars =>
        [whole /\ server # "ended" =>
           \A c \in Clients : Abstract(c)!Next \/ UNCHANGED Abstract(c)!ppVars]_vars
  BY <1>2
<1> QED  BY <1>1, <1>3, TypeInvAlways, WholeInvAlways, PTL DEF Spec, ImplementPingPong
=============================================================================
