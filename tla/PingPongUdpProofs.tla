-------------------------- MODULE PingPongUdpProofs --------------------------
(***************************************************************************)
(* Proofs about PingPongUdp for every number of messages, every pool of    *)
(* server newbs and every width of the packet ids.                         *)
(***************************************************************************)
EXTENDS PingPongUdp, TLAPS

-----------------------------------------------------------------------------
(***************************************************************************)
(* What the helpers of the model return.                                   *)
(***************************************************************************)

\* Ids are closed under increment: id_write wraps around.
LEMMA NextIdType == \A i \in Ids : NextId(i) \in Ids
  BY IdModAssumption DEF Ids, NextId

\* The first id is an id, however few there are.
LEMMA ZeroId == 0 \in Ids
  BY IdModAssumption DEF Ids

\* The constructors build packets.
LEMMA PacketType ==
  ASSUME NEW i \in Ids, NEW c \in Nat
  PROVE  Data(i, c) \in Packet /\ Ack(i) \in Packet
  BY DEF Data, Ack, Packet

\* Writing packets puts datagrams on the network.
LEMMA WrittenType ==
  ASSUME NEW n \in Newb, NEW to \in Newb \cup {Acceptor},
         NEW P, P \subseteq Packet
  PROVE  Written(n, to, P) \subseteq Datagram
  BY DEF Written, Datagram

\* What is left on the network after a read was there before, or is a datagram
\* of the client redirected from the acceptor to the endpoint just learnt.
LEMMA RemainingFrom ==
  ASSUME NEW n, NEW d, NEW rest \in Remaining(n, d), NEW e \in rest
  PROVE  \/ e \in net
         \/ /\ n = Client /\ endpoint = Acceptor
            /\ \E f \in net : f.dst = Acceptor /\ e = [f EXCEPT !.dst = d.src]
<1>1. PICK base \in {net, net \ {d}}, late \in SUBSET Redirected(n, d) :
         rest = base \cup late
  BY DEF Remaining
<1>2. CASE e \in base
  BY <1>2
<1>3. CASE e \in late
  BY <1>3 DEF Redirected
<1>4. QED
  BY <1>1, <1>2, <1>3

\* ... and is a set of datagrams again.
LEMMA RemainingType ==
  ASSUME TypeOK, NEW n \in Newb, NEW d \in net, NEW rest \in Remaining(n, d)
  PROVE  rest \subseteq Datagram
<1>1. net \subseteq Datagram /\ d \in Datagram
  BY DEF TypeOK
<1>2. \A f \in net : [f EXCEPT !.dst = d.src] \in Datagram
  BY <1>1 DEF Datagram
<1>3. QED
  BY <1>1, <1>2, RemainingFrom

-----------------------------------------------------------------------------
(***************************************************************************)
(* Type correctness.                                                       *)
(***************************************************************************)

\* KeepForResend leaves packets in unacked and ids in timers.
LEMMA KeepForResendType ==
  ASSUME TypeOK, NEW n \in Newb, NEW c \in Nat, KeepForResend(n, c)
  PROVE  /\ idWrite' \in [Newb -> Ids]
         /\ unacked' \in [Newb -> SUBSET Packet]
         /\ timers' \in [Newb -> SUBSET Ids]
<1>1. idWrite[n] \in Ids /\ Data(idWrite[n], c) \in Packet
  BY PacketType DEF TypeOK
<1>2. NextId(idWrite[n]) \in Ids
  BY <1>1, NextIdType
<1>3. QED
  BY <1>1, <1>2 DEF TypeOK, KeepForResend, Armed

\* The network is well typed after a data packet was acknowledged.
LEMMA AcksDataType ==
  ASSUME TypeOK, NEW n \in Newb, NEW d \in net,
         NEW P, P \subseteq Packet, AcksData(n, d, P)
  PROVE  net' \subseteq Datagram
<1>1. d.src \in Newb /\ Ack(d.pkt.id) \in Packet
  BY PacketType DEF TypeOK, Datagram, Packet
<1>2. Written(n, d.src, {Ack(d.pkt.id)} \cup P) \subseteq Datagram
  BY <1>1, WrittenType
<1>3. QED
  BY <1>2, RemainingType DEF AcksData

\* What a server newb does with a datagram keeps its variables well typed.
LEMMA ServerReadsType ==
  ASSUME TypeOK, NEW s \in Servers, NEW d \in net, ServerReads(s, d)
  PROVE  /\ received' \in [Newb -> Nat]
         /\ idWrite' \in [Newb -> Ids]
         /\ unacked' \in [Newb -> SUBSET Packet]
         /\ timers' \in [Newb -> SUBSET Ids]
         /\ net' \subseteq Datagram
<1> s \in Newb
  BY DEF Newb
<1> d \in Datagram /\ d.pkt \in Packet /\ d.pkt.counter \in Nat
  BY DEF TypeOK, Datagram, Packet
<1>1. CASE ReadsAck(s, d)
  BY <1>1, RemainingType DEF ReadsAck, Cleared, TypeOK
<1>2. CASE DropsCounter(s, d)
  <2>1. net' \subseteq Datagram
    BY <1>2, AcksDataType DEF DropsCounter, Expected
  <2>2. QED
    BY <1>2, <2>1 DEF DropsCounter, Expected, TypeOK
<1>3. CASE Echoes(s, d)
  <2>1. {Data(idWrite[s], d.pkt.counter)} \subseteq Packet
    BY PacketType DEF TypeOK
  <2>2. net' \subseteq Datagram
    BY <1>3, <2>1, AcksDataType DEF Echoes, Expected
  <2>3. received' \in [Newb -> Nat]
    BY <1>3 DEF Echoes, Expected, TypeOK
  <2>4. QED
    BY <1>3, <2>2, <2>3, KeepForResendType DEF Echoes, Expected
<1>4. QED
  BY <1>1, <1>2, <1>3 DEF ServerReads

\* What the client does with a datagram keeps the state well typed.
LEMMA ClientReceivesType ==
  ASSUME TypeOK, NEW d \in net, ClientReceives(d)
  PROVE  TypeOK'
<1> Client \in Newb
  BY DEF Newb
<1>d. /\ d \in Datagram /\ d.pkt \in Packet /\ d.pkt.counter \in Nat
      /\ d.src \in Newb
  BY DEF TypeOK, Datagram, Packet
<1>e. endpoint' \in Newb \cup {Acceptor}
  BY <1>d DEF ClientReceives, Arrives, FromEndpoint
<1>1. CASE ReadsAck(Client, d) /\ UNCHANGED nodeVars
  BY <1>1, <1>d, <1>e, RemainingType DEF ReadsAck, Cleared, nodeVars, TypeOK
<1>2. CASE DropsCounter(Client, d) /\ UNCHANGED nodeVars
  <2>1. net' \subseteq Datagram
    BY <1>2, AcksDataType DEF DropsCounter, Expected
  <2>2. QED
    BY <1>2, <1>e, <2>1 DEF DropsCounter, Expected, nodeVars, TypeOK
<1>3. CASE Continues(d)
  <2>1. {Data(idWrite[Client], d.pkt.counter + 1)} \subseteq Packet
    BY <1>d, PacketType DEF TypeOK
  <2>2. net' \subseteq Datagram
    BY <1>3, <2>1, AcksDataType DEF Continues, GotAll, Expected
  <2>3. received' \in [Newb -> Nat] /\ UNCHANGED nodeVars
    BY <1>3 DEF Continues, GotAll, Expected, TypeOK
  <2>4. QED
    BY <1>3, <1>d, <1>e, <2>2, <2>3, KeepForResendType
    DEF Continues, GotAll, Expected, nodeVars, TypeOK
<1>4. CASE Completes(d)
  <2>1. net' \subseteq Datagram
    BY <1>4, AcksDataType DEF Completes, GotAll, Expected
  <2>2. received' \in [Newb -> Nat] /\ quits' \in [Process -> Nat]
    BY <1>4 DEF Completes, GotAll, Expected, TypeOK, Process
  <2>3. QED
    BY <1>4, <1>e, <2>1, <2>2 DEF Completes, GotAll, Expected, TypeOK
<1>5. QED
  BY <1>1, <1>2, <1>3, <1>4 DEF ClientReceives

\* The initial state is well typed.
LEMMA InitType == Init => TypeOK
  BY ZeroId DEF Init, TypeOK, Newb, Process

\* Every step keeps the state well typed.
LEMMA NextType == TypeOK /\ [Next]_vars => TypeOK'
<1> SUFFICES ASSUME TypeOK, [Next]_vars PROVE TypeOK'
  OBVIOUS
<1> Client \in Newb /\ Servers \subseteq Newb
  BY DEF Newb
<1>1. CASE Start
  <2>1. /\ Data(idWrite[Client], 0) \in Packet
        /\ endpoint \in Newb \cup {Acceptor}
    BY PacketType DEF TypeOK
  <2>2. Written(Client, endpoint, {Data(idWrite[Client], 0)}) \subseteq Datagram
    BY <2>1, WrittenType
  <2>3. KeepForResend(Client, 0)
    BY <1>1 DEF Start
  <2>4. /\ idWrite' \in [Newb -> Ids]
        /\ unacked' \in [Newb -> SUBSET Packet]
        /\ timers' \in [Newb -> SUBSET Ids]
    BY <2>3, KeepForResendType
  <2>5. QED
    BY <1>1, <2>2, <2>4 DEF Start, TypeOK
<1>2. ASSUME NEW d \in net, ClientReceives(d) PROVE TypeOK'
  BY <1>2, ClientReceivesType
<1>3. ASSUME NEW d \in net, NEW s \in Servers, ServerReceives(s, d) PROVE TypeOK'
  <2>1. endpoint' = endpoint
    BY <1>3, NamesAssumption DEF ServerReceives, Arrives, FromEndpoint
  <2>2. QED
    BY <1>3, <2>1, ServerReadsType DEF ServerReceives, nodeVars, TypeOK
<1>4. ASSUME NEW d \in net, NEW s \in Servers, Accept(s, d) PROVE TypeOK'
  BY <1>4, ServerReadsType DEF Accept, TypeOK
<1>5. ASSUME NEW d \in net, Lose(d) PROVE TypeOK'
  BY <1>5 DEF Lose, nodeVars, TypeOK
<1>6. ASSUME NEW n \in Newb, NEW i \in timers[n], TimeoutFires(n, i) PROVE TypeOK'
  <2> DEFINE to == IF n = Client THEN endpoint ELSE Client
             P == {p \in unacked[n] : p.id = i}
  <2>1. to \in Newb \cup {Acceptor} /\ P \subseteq Packet
    BY DEF TypeOK
  <2>2. Written(n, to, P) \subseteq Datagram
    BY <2>1, WrittenType
  <2>3. net' \subseteq Datagram
    BY <1>6, <2>2 DEF TimeoutFires, Fired, TypeOK
  <2>4. timers' \in [Newb -> SUBSET Ids]
    BY <1>6 DEF TimeoutFires, Fired, TypeOK
  <2>5. QED
    BY <1>6, <2>3, <2>4 DEF TimeoutFires, Fired, nodeVars, TypeOK
<1>7. ASSUME NEW n \in Newb, NEW op \in {"read", "write"}, IoError(n, op) PROVE TypeOK'
  BY <1>7 DEF IoError, TypeOK
<1>8. ASSUME NEW n \in Newb, Quit(n) PROVE TypeOK'
  <2>1. ProcessOf(n) \in Process
    BY DEF ProcessOf, Process
  <2>2. QED
    BY <1>8, <2>1 DEF Quit, QuitSent, Terminates, TypeOK
<1>9. ASSUME NEW p \in Process, DriverReceives(p) PROVE TypeOK'
  BY <1>9 DEF DriverReceives, TypeOK
<1>10. CASE UNCHANGED vars
  BY <1>10 DEF vars, nodeVars, TypeOK
<1>11. QED
  BY <1>1, <1>2, <1>3, <1>4, <1>5, <1>6, <1>7, <1>8, <1>9, <1>10 DEF Next

\* Type correctness, for every value of the constants.
THEOREM TypeCorrect == Spec => []TypeOK
<1>1. QED
  BY InitType, NextType, PTL DEF Spec

-----------------------------------------------------------------------------
(***************************************************************************)
(* Nothing that is kept for resending loses its timeout.                   *)
(***************************************************************************)

\* Keeping a packet arms its timeout, whether or not emplace stores it.
LEMMA KeepForResendArmed ==
  ASSUME TypeOK, RetransmitArmed, NEW n \in Newb, NEW c \in Nat, KeepForResend(n, c)
  PROVE  RetransmitArmed'
<1> SUFFICES ASSUME NEW m \in Newb, NEW p \in unacked'[m]
             PROVE  p.id \in timers'[m]
  BY DEF RetransmitArmed
<1>1. CASE p \in unacked[m]
  BY <1>1 DEF RetransmitArmed, KeepForResend, Armed, TypeOK
<1>2. CASE m = n /\ p = Data(idWrite[n], c)
  BY <1>2 DEF Data, KeepForResend, Armed, TypeOK
<1>3. QED
  BY <1>1, <1>2 DEF KeepForResend, Armed, TypeOK

\* An acknowledgement only removes packets.
LEMMA ReadsAckArmed ==
  ASSUME TypeOK, RetransmitArmed, NEW n \in Newb, NEW d, ReadsAck(n, d)
  PROVE  RetransmitArmed'
  BY DEF RetransmitArmed, ReadsAck, Cleared, TypeOK

\* Every step keeps a timeout on its way for every packet kept.
LEMMA NextArmed == TypeOK /\ RetransmitArmed /\ [Next]_vars => RetransmitArmed'
<1> SUFFICES ASSUME TypeOK, RetransmitArmed, [Next]_vars PROVE RetransmitArmed'
  OBVIOUS
<1> Client \in Newb /\ Servers \subseteq Newb
  BY DEF Newb
<1>n. \A d \in net : d.pkt.counter \in Nat
  BY DEF TypeOK, Datagram, Packet
<1>s. UNCHANGED <<unacked, timers>> => RetransmitArmed'
  BY DEF RetransmitArmed
<1>1. CASE Start
  BY <1>1, KeepForResendArmed DEF Start
<1>2. ASSUME NEW d \in net, ClientReceives(d) PROVE RetransmitArmed'
  <2>1. CASE ReadsAck(Client, d)
    BY <2>1, ReadsAckArmed
  <2>2. CASE Continues(d)
    BY <2>2, <1>n, KeepForResendArmed DEF Continues, GotAll, Expected
  <2>3. QED
    BY <1>2, <1>s, <2>1, <2>2 DEF ClientReceives, DropsCounter, Expected, Completes, GotAll
<1>3. ASSUME NEW d \in net, NEW s \in Servers, ServerReads(s, d) PROVE RetransmitArmed'
  <2>1. CASE ReadsAck(s, d)
    BY <2>1, ReadsAckArmed
  <2>2. CASE Echoes(s, d)
    BY <2>2, <1>n, KeepForResendArmed DEF Echoes, Expected
  <2>3. QED
    BY <1>3, <1>s, <2>1, <2>2 DEF ServerReads, DropsCounter, Expected
<1>4. ASSUME NEW n \in Newb, NEW i \in timers[n], TimeoutFires(n, i) PROVE RetransmitArmed'
  BY <1>4 DEF TimeoutFires, Fired, Kept, RetransmitArmed, TypeOK
<1>5. QED
  BY <1>1, <1>2, <1>3, <1>4, <1>s
  DEF Next, ServerReceives, Accept, Lose, IoError, Quit, DriverReceives, vars

\* The retry of a packet is never lost: late acknowledgements, stale timeouts
\* and reused ids leave no packet without a timeout.
THEOREM RetransmitArmedAlways == Spec => []RetransmitArmed
<1>1. Init => RetransmitArmed
  BY DEF Init, RetransmitArmed
<1>2. QED
  BY <1>1, NextArmed, TypeCorrect, PTL DEF Spec

-----------------------------------------------------------------------------
(***************************************************************************)
(* Lockstep.  The induction hypothesis is LockstepInv; every step lets the *)
(* counters grow and sets the endpoint at most once.                       *)
(***************************************************************************)

Grows == \A n \in Newb : received'[n] >= received[n]

\* The endpoint is set by the client's first read, to that datagram's sender.
Learns(n, d) ==
  \/ endpoint' = endpoint /\ ~(n = Client /\ endpoint = Acceptor)
  \/ n = Client /\ endpoint = Acceptor /\ endpoint' = d.src

\* Counters and endpoint as types give them.
LEMMA StateFacts ==
  ASSUME TypeOK
  PROVE  /\ Target \in Nat \ {0}
         /\ Client \in Newb /\ Acceptor \notin Newb
         /\ \A n \in Newb : received[n] \in Nat
         /\ \A d \in net : /\ d \in Datagram /\ d.src \in Newb
                          /\ d.pkt \in Packet /\ d.pkt.counter \in Nat
BY NamesAssumption, MessagesAssumption
DEF TypeOK, Target, Newb, Datagram, Packet

\* A plausible packet stays plausible while counters grow.
LEMMA PlausibleStays ==
  ASSUME TypeOK, TypeOK', Grows, NEW n \in Newb, NEW p \in Packet, Plausible(n, p)
  PROVE  Plausible(n, p)'
<1>1. /\ Client \in Newb /\ p.counter \in Nat /\ received[n] \in Nat
      /\ received'[n] \in Nat /\ received[Client] \in Nat /\ received'[Client] \in Nat
  BY StateFacts DEF TypeOK, Newb, Packet
<1>2. received'[n] >= received[n] /\ received'[Client] >= received[Client]
  BY <1>1 DEF Grows
<1>3. QED
  BY <1>1, <1>2 DEF Plausible

\* What was kept for resending stays plausible.
LEMMA KeptStays ==
  ASSUME TypeOK, TypeOK', KeptInv, Grows,
         \A n \in Newb : unacked'[n] \subseteq unacked[n]
  PROVE  KeptInv'
<1> SUFFICES ASSUME NEW n \in Newb, NEW p \in unacked'[n]
             PROVE  ~p.ack /\ Plausible(n, p)'
  BY DEF KeptInv
<1>1. p \in Packet /\ ~p.ack /\ Plausible(n, p)
  BY DEF KeptInv, TypeOK
<1>2. QED
  BY <1>1, PlausibleStays

\* Keeping a packet that the new counters make plausible keeps KeptInv.
LEMMA KeepForResendKept ==
  ASSUME TypeOK, TypeOK', KeptInv, Grows, NEW n \in Newb, NEW c \in Nat,
         KeepForResend(n, c), Plausible(n, Data(idWrite[n], c))'
  PROVE  KeptInv'
<1> SUFFICES ASSUME NEW m \in Newb, NEW p \in unacked'[m]
             PROVE  ~p.ack /\ Plausible(m, p)'
  BY DEF KeptInv
<1>1. CASE p \in unacked[m]
  <2>1. p \in Packet /\ ~p.ack /\ Plausible(m, p)
    BY <1>1 DEF KeptInv, TypeOK
  <2>2. QED
    BY <2>1, PlausibleStays
<1>2. CASE m = n /\ p = Data(idWrite[n], c)
  <2>1. Plausible(n, Data(idWrite[n], c))' => Plausible(m, p)'
    BY <1>2 DEF Plausible, Data
  <2>2. QED
    BY <1>2, <2>1 DEF Data
<1>3. QED
  BY <1>1, <1>2 DEF KeepForResend, Armed, TypeOK

\* What is left on the network after a read is still sound.
LEMMA RemainingSound ==
  ASSUME LockstepInv, TypeOK', Grows, NEW n \in Newb, NEW d \in net, Learns(n, d),
         NEW rest \in Remaining(n, d), NEW e \in rest
  PROVE  Sound(e)'
<1> TypeOK /\ EndpointInv /\ \A f \in net : Sound(f)
  BY DEF LockstepInv
<1>1. ASSUME NEW f \in net PROVE Plausible(f.src, f.pkt)'
  <2>1. f.src \in Newb /\ f.pkt \in Packet /\ Plausible(f.src, f.pkt)
    BY StateFacts DEF Sound
  <2>2. QED
    BY <2>1, PlausibleStays
<1>2. ASSUME NEW f \in net, f.src # Client PROVE f.dst = Client /\ received'[f.src] > 0
  <2>1. f.src \in Newb /\ received[f.src] \in Nat /\ received'[f.src] \in Nat
    BY StateFacts DEF TypeOK
  <2>2. QED
    BY <1>2, <2>1 DEF Sound, Grows
<1>3. CASE e \in net
  <2>1. e.src = Client => e.dst \in {Acceptor, endpoint'}
    BY <1>3 DEF Sound, Learns
  <2>2. QED
    BY <1>1, <1>2, <1>3, <2>1 DEF Sound
<1>4. ASSUME n = Client, endpoint = Acceptor,
             NEW f \in net, f.dst = Acceptor, e = [f EXCEPT !.dst = d.src]
      PROVE  Sound(e)'
  <2>1. f \in Datagram /\ Client # Acceptor /\ d.src # Acceptor
    BY StateFacts, NamesAssumption
  <2>2. e.src = f.src /\ e.pkt = f.pkt /\ e.dst = d.src
    BY <1>4, <2>1 DEF Datagram
  <2>3. f.src = Client
    BY <1>2, <1>4, <2>1
  <2>4. endpoint' = d.src
    BY <1>4 DEF Learns
  <2>5. Plausible(e.src, e.pkt)'
    BY <1>1, <1>4, <2>2
  <2>6. QED
    BY <2>1, <2>2, <2>3, <2>4, <2>5 DEF Sound
<1>5. QED
  BY <1>3, <1>4, RemainingFrom

\* So is everything else once a data packet was acknowledged and answered.
LEMMA AcksDataSound ==
  ASSUME LockstepInv, TypeOK', Grows, NEW n \in Newb, NEW d \in net, Learns(n, d),
         NEW P, AcksData(n, d, P),
         \A p \in P : Plausible(n, p)',
         n = Client => d.src = endpoint' /\ d.src # Client,
         n # Client => d.src = Client /\ received'[n] > 0
  PROVE  \A e \in net' : Sound(e)'
<1> SUFFICES ASSUME NEW e \in net' PROVE Sound(e)'
  OBVIOUS
<1>1. PICK rest \in Remaining(n, d) :
         net' = rest \cup Written(n, d.src, {Ack(d.pkt.id)} \cup P)
  BY DEF AcksData
<1>2. CASE e \in rest
  BY <1>2, RemainingSound
<1>3. CASE e \in Written(n, d.src, {Ack(d.pkt.id)} \cup P)
  <2>1. PICK p \in {Ack(d.pkt.id)} \cup P : e = [src |-> n, dst |-> d.src, pkt |-> p]
    BY <1>3 DEF Written
  <2>2. Plausible(n, p)'
    BY DEF Ack, Plausible
  <2>3. d.src \in Newb /\ Acceptor \notin Newb
    BY StateFacts DEF LockstepInv
  <2>4. e.src = n /\ e.dst = d.src /\ e.pkt = p
    BY <2>1
  <2>5. Plausible(e.src, e.pkt)'
    BY <2>2, <2>4
  <2>6. QED
    BY <2>3, <2>4, <2>5 DEF Sound
<1>4. QED
  BY <1>1, <1>2, <1>3

\* The client hears from one server newb only, and that one is not behind.
LEMMA ClientHears ==
  ASSUME LockstepInv, NEW d \in net, Arrives(Client, d)
  PROVE  /\ d.src \in Servers
         /\ endpoint' = d.src
         /\ endpoint = Acceptor \/ endpoint = d.src
         /\ Learns(Client, d)
         /\ received[d.src] > 0
         /\ received[Client] <= received[d.src]
         /\ \A s \in Servers : s # d.src => received[s] <= 1
<1> TypeOK /\ EndpointInv /\ Lockstep /\ Sound(d)
  BY DEF LockstepInv
<1>1. d.src \in Newb /\ d.dst = Client /\ endpoint \in {Acceptor, d.src} /\ endpoint' = d.src
  BY StateFacts DEF Arrives, FromEndpoint
<1>2. d.src # Client
  BY <1>1, NamesAssumption DEF Sound, EndpointInv
<1>3. d.src \in Servers /\ received[d.src] > 0 /\ received[d.src] \in Nat /\ received[Client] \in Nat
  BY <1>1, <1>2, StateFacts DEF Sound, Newb
<1>4. received[Client] <= received[d.src]
  BY <1>1, <1>3 DEF Lockstep, EndpointInv
<1>5. \A s \in Servers : s # d.src => received[s] <= 1
  BY <1>1, NamesAssumption DEF Lockstep
<1>6. QED
  BY <1>1, <1>2, <1>3, <1>4, <1>5 DEF Learns

\* When the client reads without counting, only its endpoint changes.
LEMMA ClientSkips ==
  ASSUME LockstepInv, TypeOK', NEW d \in net, Arrives(Client, d), received' = received
  PROVE  Lockstep' /\ EndpointInv'
<1> TypeOK /\ EndpointInv /\ Lockstep
  BY DEF LockstepInv
<1>1. \A n \in Newb : received[n] \in Nat
  BY StateFacts
<1>2. d.src \in Servers /\ Client \in Newb /\ Servers \subseteq Newb
  BY ClientHears DEF Newb
<1>3. Lockstep'
  BY <1>1, <1>2, ClientHears DEF Lockstep
<1>4. EndpointInv'
  BY <1>2, ClientHears, NamesAssumption DEF EndpointInv
<1>5. QED
  BY <1>3, <1>4

\* When it counts, its server has echoed that message before.
LEMMA ClientCounts ==
  ASSUME LockstepInv, TypeOK', NEW d \in net, Arrives(Client, d), ~d.pkt.ack,
         d.pkt.counter = received[Client],
         received' = [received EXCEPT ![Client] = @ + 1]
  PROVE  Lockstep' /\ EndpointInv' /\ Grows /\ received[Client] < Target
<1> TypeOK /\ EndpointInv /\ Lockstep /\ Sound(d)
  BY DEF LockstepInv
<1>1. \A n \in Newb : received[n] \in Nat
  BY StateFacts
<1>2. d.src \in Servers /\ Client \in Newb /\ Servers \subseteq Newb
  BY ClientHears DEF Newb
<1>3. received'[Client] = received[Client] + 1
  BY <1>2 DEF TypeOK
<1>4. \A s \in Servers : received'[s] = received[s]
  BY <1>2, NamesAssumption DEF TypeOK
<1>5. received[Client] < Target /\ received[Client] < received[d.src]
  BY <1>2, NamesAssumption DEF Sound, Plausible
<1>6. Lockstep'
  <2>1. received'[Client] <= Target
    BY <1>1, <1>2, <1>3, <1>5, StateFacts
  <2>2. ASSUME NEW s \in Servers
        PROVE  /\ received'[s] <= received'[Client] + 1
               /\ s # endpoint' => received'[s] <= 1
               /\ s = endpoint' => received'[Client] <= received'[s]
    <3>1. received[s] <= received[Client] + 1 /\ received[s] \in Nat /\ received[Client] \in Nat
      BY <1>1, <1>2 DEF Lockstep
    <3>2. s # d.src => received[s] <= 1
      BY ClientHears
    <3>3. endpoint' = d.src
      BY ClientHears
    <3>4. QED
      BY <1>3, <1>4, <1>5, <3>1, <3>2, <3>3
  <2>3. QED
    BY <2>1, <2>2 DEF Lockstep
<1>7. EndpointInv'
  <2>1. received'[d.src] > 0
    BY <1>2, <1>4, ClientHears
  <2>2. QED
    BY <1>2, <2>1, ClientHears, NamesAssumption DEF EndpointInv
<1>8. Grows
  BY <1>1, <1>3, <1>4 DEF Grows, Newb
<1>9. QED
  BY <1>5, <1>6, <1>7, <1>8

\* Whatever the client does with a datagram keeps the invariant.
LEMMA ClientReceivesLockstep ==
  ASSUME LockstepInv, NEW d \in net, ClientReceives(d)
  PROVE  LockstepInv'
<1> TypeOK /\ EndpointInv /\ Lockstep /\ KeptInv /\ \A f \in net : Sound(f)
  BY DEF LockstepInv
<1> TypeOK'
  BY ClientReceivesType
<1> Arrives(Client, d)
  BY DEF ClientReceives
<1>f. /\ Client \in Newb /\ Servers \subseteq Newb /\ Client \notin Servers
      /\ \A n \in Newb : received[n] \in Nat
      /\ d.pkt \in Packet /\ d.pkt.counter \in Nat
  BY StateFacts, NamesAssumption DEF Newb
<1>h. Learns(Client, d) /\ d.src = endpoint' /\ d.src # Client
  BY <1>f, ClientHears
<1>g. received' = received => Grows
  BY <1>f DEF Grows
<1>1. CASE ReadsAck(Client, d)
  <2>1. received' = received /\ Grows
    BY <1>1, <1>g DEF ReadsAck, Cleared
  <2>2. KeptInv'
    BY <1>1, <2>1, KeptStays DEF ReadsAck, Cleared, TypeOK
  <2>3. \A e \in net' : Sound(e)'
    BY <1>1, <1>f, <1>h, <2>1, RemainingSound DEF ReadsAck, Cleared
  <2>4. QED
    BY <2>1, <2>2, <2>3, ClientSkips DEF LockstepInv
<1>2. CASE DropsCounter(Client, d)
  <2>1. received' = received /\ Grows /\ unacked' = unacked
    BY <1>2, <1>g DEF DropsCounter, Expected
  <2>2. KeptInv'
    BY <2>1, KeptStays
  <2>3. AcksData(Client, d, {})
    BY <1>2 DEF DropsCounter, Expected
  <2>4. \A e \in net' : Sound(e)'
    BY <1>f, <1>h, <2>1, <2>3, AcksDataSound
  <2>5. QED
    BY <2>1, <2>2, <2>4, ClientSkips DEF LockstepInv
<1>3. CASE Continues(d)
  <2> DEFINE p == Data(idWrite[Client], d.pkt.counter + 1)
  <2>1. /\ AcksData(Client, d, {p}) /\ ~d.pkt.ack
        /\ d.pkt.counter = received[Client]
        /\ received[Client] + 1 < Messages
        /\ received' = [received EXCEPT ![Client] = @ + 1]
        /\ KeepForResend(Client, d.pkt.counter + 1)
    BY <1>3, <1>f, MessagesAssumption DEF Continues, GotAll, Expected, AcksData
  <2>2. Lockstep' /\ EndpointInv' /\ Grows
    BY <2>1, ClientCounts
  <2>3. received'[Client] = d.pkt.counter + 1 /\ d.pkt.counter + 1 < Target
    BY <1>f, <2>1, MessagesAssumption DEF TypeOK, Target
  <2>4. Plausible(Client, p)' /\ \A q \in {p} : Plausible(Client, q)'
    BY <1>f, <2>3 DEF Plausible, Data
  <2>5. KeptInv'
    BY <1>f, <2>1, <2>2, <2>4, KeepForResendKept
  <2>6. \A e \in net' : Sound(e)'
    BY <1>f, <1>h, <2>1, <2>2, <2>4, AcksDataSound
  <2>7. QED
    BY <2>2, <2>5, <2>6 DEF LockstepInv
<1>4. CASE Completes(d)
  <2>1. /\ AcksData(Client, d, {}) /\ ~d.pkt.ack
        /\ d.pkt.counter = received[Client]
        /\ received' = [received EXCEPT ![Client] = @ + 1]
        /\ unacked' = unacked
    BY <1>4 DEF Completes, GotAll, Expected, AcksData
  <2>2. Lockstep' /\ EndpointInv' /\ Grows
    BY <2>1, ClientCounts
  <2>3. KeptInv'
    BY <2>1, <2>2, KeptStays
  <2>4. \A e \in net' : Sound(e)'
    BY <1>f, <1>h, <2>1, <2>2, AcksDataSound
  <2>5. QED
    BY <2>2, <2>3, <2>4 DEF LockstepInv
<1>5. QED
  BY <1>1, <1>2, <1>3, <1>4 DEF ClientReceives

\* A server newb only hears of the client, and past the first ping only when it
\* is the client's endpoint.
LEMMA ServerHears ==
  ASSUME LockstepInv, NEW d \in net, NEW s \in Servers,
         ServerReceives(s, d) \/ Accept(s, d)
  PROVE  /\ d.src = Client
         /\ endpoint' = endpoint
         /\ Learns(s, d)
         /\ s = endpoint \/ (~d.pkt.ack /\ d.pkt.counter = 0)
         /\ ServerReads(s, d)
         /\ TypeOK'
<1> TypeOK /\ Sound(d) /\ EndpointInv
  BY DEF LockstepInv
<1>1. s # Client /\ s # Acceptor /\ Client # Acceptor /\ s \in Newb
  BY NamesAssumption DEF Newb
<1>2. endpoint' = endpoint /\ ServerReads(s, d) /\ d.dst \in {s, Acceptor}
  BY <1>1 DEF ServerReceives, Accept, Arrives, FromEndpoint
<1>3. d.src = Client
  BY <1>1, <1>2 DEF Sound
<1>4. d.dst = s => s = endpoint
  BY <1>1, <1>3 DEF Sound
<1>5. d.dst = Acceptor => ~d.pkt.ack /\ d.pkt.counter = 0
  BY DEF Sound
<1>6. TypeOK'
  <2>1. mode' \in [Newb -> {"idle", "running", "closing", "down"}] /\ UNCHANGED <<open, driver, quits>>
    BY <1>1 DEF ServerReceives, Accept, nodeVars, TypeOK
  <2>2. QED
    BY <1>2, <2>1, ServerReadsType DEF TypeOK
<1>7. QED
  BY <1>1, <1>2, <1>3, <1>4, <1>5, <1>6 DEF Learns

\* When a server newb echoes, the client has reached that counter.
LEMMA ServerEchoes ==
  ASSUME LockstepInv, NEW d \in net, NEW s \in Servers,
         ServerReceives(s, d) \/ Accept(s, d), Echoes(s, d)
  PROVE  /\ Lockstep' /\ EndpointInv' /\ Grows
         /\ d.pkt.counter < Target
         /\ received[s] <= received[Client]
         /\ received'[s] = received[s] + 1
<1> TypeOK /\ Sound(d) /\ EndpointInv /\ Lockstep /\ TypeOK'
  BY ServerHears DEF LockstepInv
<1>1. /\ s \in Newb /\ Client \in Newb /\ Servers \subseteq Newb /\ s # Client
      /\ \A n \in Newb : received[n] \in Nat
      /\ d.pkt.counter \in Nat
  BY StateFacts, NamesAssumption DEF Newb
<1>2. /\ ~d.pkt.ack /\ d.pkt.counter = received[s]
      /\ received' = [received EXCEPT ![s] = @ + 1]
  BY DEF Echoes, Expected, AcksData
<1>3. d.pkt.counter <= received[Client] /\ d.pkt.counter < Target
  BY <1>2, ServerHears DEF Sound, Plausible
<1>4. /\ received'[s] = received[s] + 1
      /\ \A n \in Newb : n # s => received'[n] = received[n]
  BY <1>1, <1>2 DEF TypeOK
<1>5. Grows
  BY <1>1, <1>4 DEF Grows
<1>6. Lockstep'
  <2>1. received'[Client] <= Target
    BY <1>1, <1>4 DEF Lockstep
  <2>2. ASSUME NEW t \in Servers
        PROVE  /\ received'[t] <= received'[Client] + 1
               /\ t # endpoint' => received'[t] <= 1
               /\ t = endpoint' => received'[Client] <= received'[t]
    <3>1. CASE t = s
      <4>1. received'[t] <= received'[Client] + 1
        BY <1>1, <1>2, <1>3, <1>4, <3>1
      <4>2. t # endpoint' => received'[t] <= 1
        BY <1>2, <1>4, <3>1, ServerHears
      <4>3. t = endpoint => received[Client] <= received[t]
        BY DEF Lockstep
      <4>4. QED
        BY <1>1, <1>4, <3>1, <4>1, <4>2, <4>3, ServerHears
    <3>2. CASE t # s
      BY <1>1, <1>4, <3>2, ServerHears DEF Lockstep
    <3>3. QED
      BY <3>1, <3>2
  <2>3. QED
    BY <2>1, <2>2 DEF Lockstep
<1>7. EndpointInv'
  <2>1. endpoint # Acceptor => endpoint \in Newb
    BY DEF TypeOK
  <2>2. endpoint # Acceptor => received'[endpoint] > 0
    BY <1>1, <1>5, <2>1 DEF EndpointInv, Grows, TypeOK
  <2>3. QED
    BY <1>1, <1>4, <2>2, ServerHears DEF EndpointInv
<1>8. QED
  BY <1>2, <1>3, <1>4, <1>5, <1>6, <1>7

\* Whatever a server newb does with a datagram keeps the invariant.
LEMMA ServerReadsLockstep ==
  ASSUME LockstepInv, NEW d \in net, NEW s \in Servers,
         ServerReceives(s, d) \/ Accept(s, d)
  PROVE  LockstepInv'
<1> TypeOK /\ EndpointInv /\ Lockstep /\ KeptInv /\ \A f \in net : Sound(f)
  BY DEF LockstepInv
<1>h. /\ d.src = Client /\ endpoint' = endpoint /\ Learns(s, d) /\ ServerReads(s, d)
      /\ s = endpoint \/ (~d.pkt.ack /\ d.pkt.counter = 0)
  BY ServerHears
<1> TypeOK'
  BY ServerHears
<1>f. /\ s \in Newb /\ s # Client /\ \A n \in Newb : received[n] \in Nat
      /\ d.pkt.counter \in Nat
  BY StateFacts, NamesAssumption DEF Newb
<1>g. received' = received => Grows /\ Lockstep' /\ EndpointInv'
  BY <1>f, <1>h DEF Grows, Lockstep, EndpointInv
<1>1. CASE ReadsAck(s, d)
  <2>1. received' = received
    BY <1>1 DEF ReadsAck, Cleared
  <2>2. KeptInv'
    BY <1>1, <1>g, <2>1, KeptStays DEF ReadsAck, Cleared, TypeOK
  <2>3. \A e \in net' : Sound(e)'
    BY <1>1, <1>f, <1>g, <1>h, <2>1, RemainingSound DEF ReadsAck, Cleared
  <2>4. QED
    BY <1>g, <2>1, <2>2, <2>3 DEF LockstepInv
<1>2. CASE DropsCounter(s, d)
  <2>1. received' = received /\ unacked' = unacked /\ AcksData(s, d, {})
    BY <1>2 DEF DropsCounter, Expected
  <2>2. KeptInv'
    BY <1>g, <2>1, KeptStays
  <2>3. received'[s] > 0
    BY <1>2, <1>f, <1>h, <2>1, NamesAssumption DEF DropsCounter, Expected, EndpointInv
  <2>4. \A e \in net' : Sound(e)'
    BY <1>f, <1>g, <1>h, <2>1, <2>3, AcksDataSound
  <2>5. QED
    BY <1>g, <2>1, <2>2, <2>4 DEF LockstepInv
<1>3. CASE Echoes(s, d)
  <2> DEFINE p == Data(idWrite[s], d.pkt.counter)
  <2>1. /\ AcksData(s, d, {p}) /\ KeepForResend(s, d.pkt.counter)
        /\ d.pkt.counter = received[s]
    BY <1>3 DEF Echoes, Expected
  <2>2. /\ Lockstep' /\ EndpointInv' /\ Grows
        /\ d.pkt.counter < Target
        /\ received'[s] = received[s] + 1
    BY <1>3, ServerEchoes
  <2>3. Plausible(s, p)' /\ \A q \in {p} : Plausible(s, q)'
    BY <1>f, <2>1, <2>2 DEF Plausible, Data
  <2>4. KeptInv'
    BY <1>f, <2>1, <2>2, <2>3, KeepForResendKept
  <2>5. received'[s] > 0
    BY <1>f, <2>2
  <2>6. \A e \in net' : Sound(e)'
    BY <1>f, <1>h, <2>1, <2>2, <2>3, <2>5, AcksDataSound
  <2>7. QED
    BY <2>2, <2>4, <2>6 DEF LockstepInv
<1>4. QED
  BY <1>1, <1>2, <1>3, <1>h DEF ServerReads

\* The invariant speaks of the counters, the endpoint, what is kept and what is
\* on its way: a step that only removes from these keeps it.
LEMMA QuietLockstep ==
  ASSUME LockstepInv, TypeOK', UNCHANGED <<received, endpoint>>,
         \A n \in Newb : unacked'[n] \subseteq unacked[n],
         net' \subseteq net
  PROVE  LockstepInv'
<1> TypeOK
  BY DEF LockstepInv
<1>1. Grows
  BY StateFacts DEF Grows
<1>2. KeptInv'
  BY <1>1, KeptStays DEF LockstepInv
<1>3. Lockstep' /\ EndpointInv'
  BY DEF LockstepInv, Lockstep, EndpointInv
<1>4. \A d \in net' : Sound(d)'
  BY DEF LockstepInv, Sound, Plausible
<1>5. QED
  BY <1>2, <1>3, <1>4 DEF LockstepInv

\* What the client or a server newb writes without having read is sound when it
\* is plausible and goes to the one it talks to.
LEMMA WrittenSound ==
  ASSUME LockstepInv, UNCHANGED <<received, endpoint>>, NEW n \in Newb,
         NEW P, P \subseteq Packet,
         \A p \in P : ~p.ack /\ Plausible(n, p),
         n # Client => received[n] > 0,
         NEW e \in Written(n, IF n = Client THEN endpoint ELSE Client, P)
  PROVE  Sound(e)'
<1> DEFINE to == IF n = Client THEN endpoint ELSE Client
<1>1. PICK p \in P : e = [src |-> n, dst |-> to, pkt |-> p]
  BY DEF Written
<1>2. e.src = n /\ e.dst = to /\ e.pkt = p
  BY <1>1
<1>3. Plausible(e.src, e.pkt)'
  BY <1>2 DEF Plausible
<1>4. to = Acceptor => ~p.ack /\ p.counter = 0
  <2> SUFFICES ASSUME to = Acceptor PROVE p.counter = 0
    BY <1>1
  <2>1. n = Client /\ endpoint = Acceptor
    BY NamesAssumption
  <2>2. p.counter <= received[Client] /\ received[Client] = 0
    BY <1>1, <2>1 DEF Plausible, LockstepInv, EndpointInv
  <2>3. p.counter \in Nat
    BY DEF Packet
  <2>4. QED
    BY <2>2, <2>3
<1>5. QED
  BY <1>2, <1>3, <1>4 DEF Sound

\* The client starts by writing the first ping to the acceptor.
LEMMA StartLockstep == LockstepInv /\ TypeOK' /\ Start => LockstepInv'
<1> SUFFICES ASSUME LockstepInv, TypeOK', Start PROVE LockstepInv'
  OBVIOUS
<1> TypeOK /\ \A d \in net : Sound(d)
  BY DEF LockstepInv
<1> DEFINE p == Data(idWrite[Client], 0)
<1>1. /\ UNCHANGED <<received, endpoint>> /\ KeepForResend(Client, 0)
      /\ net' = net \cup Written(Client, endpoint, {p})
  BY DEF Start
<1>2. /\ Client \in Newb /\ Target \in Nat \ {0} /\ received[Client] \in Nat
      /\ p \in Packet
  BY StateFacts, PacketType DEF TypeOK
<1>3. Grows
  BY <1>1, StateFacts DEF Grows
<1>4. ~p.ack /\ Plausible(Client, p) /\ Plausible(Client, p)'
  BY <1>1, <1>2 DEF Plausible, Data
<1>5. KeptInv'
  BY <1>1, <1>2, <1>3, <1>4, KeepForResendKept DEF LockstepInv
<1>6. Lockstep' /\ EndpointInv'
  BY <1>1 DEF LockstepInv, Lockstep, EndpointInv
<1>7. \A e \in net' : Sound(e)'
  <2>1. \A e \in Written(Client, endpoint, {p}) : Sound(e)'
    BY <1>1, <1>2, <1>4, WrittenSound
  <2>2. \A e \in net : Sound(e)'
    BY <1>1 DEF Sound, Plausible
  <2>3. QED
    BY <1>1, <2>1, <2>2
<1>8. QED
  BY <1>5, <1>6, <1>7 DEF LockstepInv

\* A timeout writes a packet that was kept.
LEMMA TimeoutLockstep ==
  ASSUME LockstepInv, TypeOK', NEW n \in Newb, NEW i \in timers[n], TimeoutFires(n, i)
  PROVE  LockstepInv'
<1> TypeOK /\ KeptInv /\ \A d \in net : Sound(d)
  BY DEF LockstepInv
<1> DEFINE P == {p \in unacked[n] : p.id = i}
           to == IF n = Client THEN endpoint ELSE Client
<1>1. UNCHANGED <<received, endpoint, unacked>> /\ net' = net \cup Written(n, to, P)
  BY DEF TimeoutFires
<1>2. CASE P = {}
  <2>1. net' = net
    BY <1>1, <1>2 DEF Written
  <2>2. QED
    BY <1>1, <2>1, QuietLockstep
<1>3. CASE P # {}
  <2>1. P \subseteq Packet /\ \A p \in P : ~p.ack /\ Plausible(n, p)
    BY DEF KeptInv, TypeOK
  <2>2. n # Client => received[n] > 0
    <3>1. PICK p \in unacked[n] : p.id = i
      BY <1>3
    <3>2. p \in Packet /\ p.counter \in Nat /\ received[n] \in Nat /\ ~p.ack /\ Plausible(n, p)
      BY DEF KeptInv, TypeOK, Packet
    <3>3. QED
      BY <3>2 DEF Plausible
  <2>3. \A e \in Written(n, to, P) : Sound(e)'
    BY <1>1, <2>1, <2>2, WrittenSound
  <2>4. \A e \in net : Sound(e)'
    BY <1>1 DEF Sound, Plausible
  <2>5. \A e \in net' : Sound(e)'
    BY <1>1, <2>3, <2>4
  <2>6. Lockstep' /\ EndpointInv' /\ KeptInv'
    BY <1>1 DEF LockstepInv, Lockstep, EndpointInv, KeptInv, Plausible
  <2>7. QED
    BY <2>5, <2>6 DEF LockstepInv
<1>4. QED
  BY <1>2, <1>3

\* Every step keeps the invariant.
LEMMA NextLockstep == LockstepInv /\ [Next]_vars => LockstepInv'
<1> SUFFICES ASSUME LockstepInv, [Next]_vars PROVE LockstepInv'
  OBVIOUS
<1> TypeOK
  BY DEF LockstepInv
<1> TypeOK'
  BY NextType
<1>1. CASE Start
  BY <1>1, StartLockstep
<1>2. ASSUME NEW d \in net, ClientReceives(d) PROVE LockstepInv'
  BY <1>2, ClientReceivesLockstep
<1>3. ASSUME NEW d \in net, NEW s \in Servers, ServerReceives(s, d) \/ Accept(s, d)
      PROVE  LockstepInv'
  BY <1>3, ServerReadsLockstep
<1>4. ASSUME NEW d \in net, Lose(d) PROVE LockstepInv'
  BY <1>4, QuietLockstep DEF Lose
<1>5. ASSUME NEW n \in Newb, NEW i \in timers[n], TimeoutFires(n, i) PROVE LockstepInv'
  BY <1>5, TimeoutLockstep
<1>6. ASSUME NEW n \in Newb, NEW op \in {"read", "write"}, IoError(n, op) PROVE LockstepInv'
  BY <1>6, QuietLockstep DEF IoError
<1>7. ASSUME NEW n \in Newb, Quit(n) PROVE LockstepInv'
  BY <1>7, QuietLockstep DEF Quit, QuitSent, Terminates
<1>8. ASSUME NEW p \in Process, DriverReceives(p) PROVE LockstepInv'
  BY <1>8, QuietLockstep DEF DriverReceives
<1>9. CASE UNCHANGED vars
  BY <1>9, QuietLockstep DEF vars
<1>10. QED
  BY <1>1, <1>2, <1>3, <1>4, <1>5, <1>6, <1>7, <1>8, <1>9 DEF Next

\* Nothing has been sent initially.
LEMMA InitLockstep == Init => LockstepInv
<1> SUFFICES ASSUME Init PROVE LockstepInv
  OBVIOUS
<1>1. TypeOK
  BY InitType
<1>2. Lockstep /\ EndpointInv
  BY StateFacts, <1>1, NamesAssumption DEF Init, Lockstep, EndpointInv, Newb
<1>3. KeptInv /\ \A d \in net : Sound(d)
  BY DEF Init, KeptInv
<1>4. QED
  BY <1>1, <1>2, <1>3 DEF LockstepInv

\* The induction hypothesis holds in every reachable state.
THEOREM LockstepInvAlways == Spec => []LockstepInv
<1>1. QED
  BY InitLockstep, NextLockstep, PTL DEF Spec

\* Client and server stay within one message of each other under loss,
\* duplication, reordering, I/O errors and repeated first pings.
THEOREM LockstepAlways == Spec => []Lockstep
<1>1. LockstepInv => Lockstep
  BY DEF LockstepInv
<1>2. QED
  BY <1>1, LockstepInvAlways, PTL

-----------------------------------------------------------------------------
(***************************************************************************)
(* The exchange implements PingPong.                                       *)
(***************************************************************************)

\* A step of PingPong, seen from here.
AbstractStep == Abstract!Next \/ UNCHANGED Abstract!ppVars

\* The server newb the client hears of has echoed what Echoed says, also when
\* the client learns of it just now.
LEMMA EchoedByEndpoint ==
  ASSUME LockstepInv, NEW d \in net, Arrives(Client, d)
  PROVE  Echoed = received[d.src]
<1>1. d.src \in Servers /\ received[d.src] > 0 /\ received[d.src] \in Nat
  BY ClientHears, StateFacts DEF LockstepInv, Newb
<1>2. CASE endpoint = d.src
  BY <1>1, <1>2 DEF Echoed
<1>3. CASE endpoint = Acceptor
  <2>1. received[d.src] <= 1
    BY <1>1, <1>3, NamesAssumption DEF LockstepInv, Lockstep
  <2>2. Echoed = 1
    BY <1>1, <1>3, NamesAssumption DEF Echoed
  <2>3. QED
    BY <1>1, <2>1, <2>2
<1>4. QED
  BY <1>2, <1>3, ClientHears

\* The client's reads count an echo or change nothing PingPong knows of.
LEMMA ClientReceivesAbstract ==
  ASSUME LockstepInv, NEW d \in net, ClientReceives(d)
  PROVE  AbstractStep
<1> TypeOK /\ Sound(d) /\ Arrives(Client, d)
  BY DEF LockstepInv, ClientReceives
<1>1. /\ d.src \in Servers /\ endpoint' = d.src /\ Echoed = received[d.src]
      /\ Client \in Newb /\ d.src \in Newb /\ d.src # Client
  BY ClientHears, EchoedByEndpoint, NamesAssumption DEF Newb
<1>2. Echoed' = received'[d.src]
  BY <1>1 DEF Echoed
<1>3. CASE received' = received
  BY <1>1, <1>2, <1>3 DEF AbstractStep, Abstract!ppVars
<1>4. CASE /\ ~d.pkt.ack /\ d.pkt.counter = received[Client]
           /\ received' = [received EXCEPT ![Client] = @ + 1]
  <2>1. received'[Client] = received[Client] + 1 /\ received'[d.src] = received[d.src]
    BY <1>1, <1>4 DEF TypeOK
  <2>2. received[Client] < received[d.src]
    BY <1>1, <1>4 DEF Sound, Plausible
  <2>3. Abstract!Count
    BY <1>1, <1>2, <2>1, <2>2 DEF Abstract!Count
  <2>4. QED
    BY <2>3 DEF AbstractStep, Abstract!Next
<1>5. QED
  BY <1>3, <1>4
  DEF ClientReceives, ReadsAck, DropsCounter, Expected, Continues, Completes, AcksData

\* A server newb's reads echo a message or change nothing PingPong knows of.
LEMMA ServerReadsAbstract ==
  ASSUME LockstepInv, NEW d \in net, NEW s \in Servers,
         ServerReceives(s, d) \/ Accept(s, d)
  PROVE  AbstractStep
<1> TypeOK /\ Lockstep /\ EndpointInv
  BY DEF LockstepInv
<1>1. /\ s \in Newb /\ s # Client /\ Client \in Newb /\ endpoint' = endpoint
      /\ Servers \subseteq Newb
      /\ \A n \in Newb : received[n] \in Nat
      /\ Target \in Nat \ {0}
  BY ServerHears, StateFacts, NamesAssumption DEF Newb
<1>2. CASE received' = received
  BY <1>1, <1>2 DEF AbstractStep, Abstract!ppVars, Echoed
<1>3. CASE Echoes(s, d)
  <2>1. /\ d.pkt.counter = received[s] /\ received[s] < Target
        /\ received[s] <= received[Client]
        /\ received'[s] = received[s] + 1
        /\ s = endpoint \/ d.pkt.counter = 0
    BY <1>3, ServerEchoes, ServerHears DEF Echoes, Expected
  <2>2. \A n \in Newb : n # s => received'[n] = received[n]
    BY <1>1, <1>3 DEF Echoes, Expected, TypeOK
  <2>3. CASE s = endpoint
    <3>1. Echoed = received[s] /\ Echoed' = received[s] + 1
      BY <1>1, <2>1, <2>3 DEF Echoed
    <3>2. received[s] = received[Client]
      BY <1>1, <2>1, <2>3 DEF Lockstep
    <3>3. received[Client] < Target
      BY <2>1, <3>2 DEF Target
    <3>4. Abstract!Echo
      BY <1>1, <2>2, <3>1, <3>2, <3>3 DEF Abstract!Echo
    <3>5. QED
      BY <3>4 DEF AbstractStep, Abstract!Next
  <2>4. CASE s # endpoint /\ endpoint \in Servers
    <3>1. Echoed' = Echoed /\ received'[Client] = received[Client]
      BY <1>1, <2>2, <2>4 DEF Echoed
    <3>2. QED
      BY <3>1 DEF AbstractStep, Abstract!ppVars
  <2>5. CASE s # endpoint /\ endpoint \notin Servers
    <3>1. endpoint = Acceptor /\ received[Client] = 0 /\ received[s] = 0
      BY <2>1, <2>5 DEF EndpointInv, TypeOK, Newb
    <3>2. Echoed' = 1 /\ received'[Client] = received[Client]
      BY <1>1, <2>1, <2>2, <2>5, <3>1 DEF Echoed
    <3>3. CASE Echoed = 1
      BY <3>2, <3>3 DEF AbstractStep, Abstract!ppVars
    <3>4. CASE Echoed = 0
      <4>1. 0 < Target
        BY <1>1 DEF Target
      <4>2. Abstract!Echo
        BY <3>1, <3>2, <3>4, <4>1 DEF Abstract!Echo
      <4>3. QED
        BY <4>2 DEF AbstractStep, Abstract!Next
    <3>5. QED
      BY <2>5, <3>3, <3>4 DEF Echoed
  <2>6. QED
    BY <2>3, <2>4, <2>5
<1>4. QED
  BY <1>2, <1>3, ServerHears DEF ServerReads, ReadsAck, Cleared, DropsCounter, Expected

\* Every step is a step of PingPong or leaves its variables alone.
LEMMA NextAbstract == LockstepInv /\ [Next]_vars => [Abstract!Next]_(Abstract!ppVars)
<1> SUFFICES ASSUME LockstepInv, [Next]_vars PROVE AbstractStep
  BY DEF AbstractStep
<1>1. UNCHANGED <<received, endpoint>> => AbstractStep
  BY DEF AbstractStep, Abstract!ppVars, Echoed
<1>2. ASSUME NEW d \in net, ClientReceives(d) PROVE AbstractStep
  BY <1>2, ClientReceivesAbstract
<1>3. ASSUME NEW d \in net, NEW s \in Servers, ServerReceives(s, d) \/ Accept(s, d)
      PROVE  AbstractStep
  BY <1>3, ServerReadsAbstract
<1>4. QED
  BY <1>1, <1>2, <1>3
  DEF Next, Start, Lose, TimeoutFires, IoError, Quit, DriverReceives, vars

\* pingpong_udp implements PingPong: over lossy UDP the client counts an echo
\* exactly when its server has made it, message by message up to "-m".
THEOREM Implementation == Spec => ImplementsPingPong
<1>1. Init => Abstract!Init
  BY DEF Init, Abstract!Init, Echoed, Newb
<1>2. QED
  BY <1>1, NextAbstract, LockstepInvAlways, PTL
  DEF Spec, ImplementsPingPong, Abstract!Spec

-----------------------------------------------------------------------------
(***************************************************************************)
(* The messages the client's driver counts.                                *)
(***************************************************************************)

\* All that the client's driver depends on.
ClientView ==
  <<received[Client], mode[Client], driver["client"], quits["client"]>>

\* Reads of a server and of the acceptor are none of the client's business.
LEMMA ServerReadsView ==
  ASSUME TypeOK, NEW d \in net, NEW s \in Servers, ServerReceives(s, d) \/ Accept(s, d)
  PROVE  UNCHANGED ClientView
<1>1. s # Client /\ Client \in Newb
  BY NamesAssumption DEF Newb
<1>2. received'[Client] = received[Client]
  BY <1>1 DEF TypeOK, ServerReceives, Accept, ServerReads, ReadsAck, DropsCounter, Echoes
<1>3. mode'[Client] = mode[Client] /\ UNCHANGED <<driver, quits>>
  BY <1>1 DEF TypeOK, ServerReceives, Accept, nodeVars
<1> QED  BY <1>2, <1>3 DEF ClientView

\* The client's reads: it has not got all messages before, and the last one is
\* the one that makes it tell its driver.
LEMMA ClientReceivesView ==
  ASSUME LockstepInv, NEW d \in net, ClientReceives(d)
  PROVE  \/ UNCHANGED ClientView
         \/ /\ received[Client] < Target /\ received'[Client] < Target
            /\ UNCHANGED nodeVars
         \/ /\ received[Client] < Target /\ received'[Client] = Target
            /\ mode[Client] # "down" /\ mode'[Client] = "closing"
            /\ quits'["client"] = quits["client"] + 1
            /\ UNCHANGED driver
<1> USE DEF LockstepInv, TypeOK
<1>1. /\ Client \in Newb /\ "client" \in Process /\ received[Client] \in Nat
      /\ Sound(d) /\ Messages \in Nat /\ Alive(Client)
  BY MessagesAssumption DEF Newb, Process, ClientReceives, Arrives
<1>2. CASE ReadsAck(Client, d) \/ DropsCounter(Client, d)
  <2>1. UNCHANGED nodeVars
    BY <1>2 DEF ClientReceives, ReadsAck, DropsCounter, Expected, Continues, Completes, AcksData
  <2> QED  BY <1>2, <2>1 DEF ReadsAck, DropsCounter, nodeVars, ClientView
<1>3. CASE Continues(d)
  <2>1. received[Client] < Target /\ received'[Client] = received[Client] + 1
    BY <1>1, <1>3 DEF Continues, Expected, AcksData, Sound, Plausible
  <2>2. received[Client] + 1 < Target
    BY <1>1, <1>3, <2>1 DEF Continues, GotAll, Target
  <2> QED  BY <1>3, <2>1, <2>2 DEF Continues
<1>4. CASE Completes(d)
  <2>1. received[Client] < Target /\ received'[Client] = received[Client] + 1
    BY <1>1, <1>4 DEF Completes, Expected, AcksData, Sound, Plausible
  <2>2. received[Client] + 1 = Target
    BY <1>1, <1>4, <2>1 DEF Completes, GotAll, Target
  <2>3. mode[Client] # "down" /\ mode'[Client] = "closing"
    BY <1>1, <1>4 DEF Completes, Alive
  <2> QED  BY <1>1, <1>4, <2>1, <2>2, <2>3 DEF Completes
<1> QED  BY <1>2, <1>3, <1>4 DEF ClientReceives

LEMMA NextQuits == LockstepInv /\ QuitsAddUp /\ [Next]_vars => QuitsAddUp'
<1> SUFFICES ASSUME LockstepInv, QuitsAddUp, [Next]_vars PROVE QuitsAddUp'
  OBVIOUS
<1> TypeOK
  BY DEF LockstepInv
<1>0. Client \in Newb /\ Process = {"client", "server"} /\ quits["client"] \in Nat
  BY DEF Newb, Process, TypeOK
<1>u. UNCHANGED ClientView => QuitsAddUp'
  BY DEF ClientView, QuitsAddUp
<1>1. ASSUME NEW d \in net, ClientReceives(d) PROVE QuitsAddUp'
  <2>1. CASE UNCHANGED ClientView
    BY <1>u, <2>1
  <2>2. CASE /\ received[Client] < Target /\ received'[Client] < Target
             /\ UNCHANGED nodeVars
    <3>1. received[Client] # Target /\ received'[Client] # Target
      BY <2>2, <1>0, StateFacts
    <3> QED  BY <2>2, <3>1 DEF nodeVars, QuitsAddUp
  <2>3. CASE /\ received[Client] < Target /\ received'[Client] = Target
             /\ mode[Client] # "down" /\ mode'[Client] = "closing"
             /\ quits'["client"] = quits["client"] + 1
             /\ UNCHANGED driver
    <3>1. received[Client] # Target
      BY <2>3, <1>0, StateFacts
    <3> QED  BY <2>3, <3>1, <1>0 DEF QuitsAddUp, TypeOK
  <2> QED  BY <1>1, <2>1, <2>2, <2>3, ClientReceivesView
<1>2. ASSUME NEW d \in net, NEW s \in Servers, ServerReceives(s, d) \/ Accept(s, d)
      PROVE  QuitsAddUp'
  BY <1>2, <1>u, ServerReadsView
<1>3. ASSUME NEW n \in Newb, Quit(n) PROVE QuitsAddUp'
  <2>1. CASE n = Client
    <3>1. /\ mode[Client] = "closing" /\ mode'[Client] = "down"
          /\ quits'["client"] = quits["client"] + 1
          /\ UNCHANGED <<received, driver>>
      BY <1>0, <1>3, <2>1 DEF Quit, QuitSent, Terminates, ProcessOf, TypeOK
    <3> QED  BY <1>0, <3>1 DEF QuitsAddUp, TypeOK
  <2>2. CASE n # Client
    <3>1. UNCHANGED ClientView
      BY <1>0, <1>3, <2>2 DEF Quit, QuitSent, Terminates, ProcessOf, TypeOK, ClientView
    <3> QED  BY <1>u, <3>1
  <2> QED  BY <2>1, <2>2
<1>4. ASSUME NEW p \in Process, DriverReceives(p) PROVE QuitsAddUp'
  BY <1>0, <1>4 DEF DriverReceives, QuitsAddUp, TypeOK
<1>5. ASSUME NEW n \in Newb, NEW op \in {"read", "write"}, IoError(n, op)
      PROVE  QuitsAddUp'
  BY <1>0, <1>5 DEF IoError, Alive, QuitsAddUp, TypeOK
<1>6. CASE Start
  BY <1>0, <1>6 DEF Start, QuitsAddUp, TypeOK
<1>7. ASSUME NEW d \in net, Lose(d) PROVE QuitsAddUp'
  BY <1>7, <1>u DEF Lose, nodeVars, ClientView
<1>8. ASSUME NEW n \in Newb, NEW i \in timers[n], TimeoutFires(n, i) PROVE QuitsAddUp'
  BY <1>8, <1>u DEF TimeoutFires, nodeVars, ClientView
<1>9. CASE UNCHANGED vars
  BY <1>9, <1>u DEF vars, ClientView
<1> QED  BY <1>1, <1>2, <1>3, <1>4, <1>5, <1>6, <1>7, <1>8, <1>9 DEF Next

\* Whatever fails in whatever order, the client's driver gets one quit_atom for a
\* complete exchange and one for the newb that went down.
THEOREM QuitsAddUpAlways == Spec => []QuitsAddUp
<1>1. Init => QuitsAddUp
  BY StateFacts, InitType DEF Init, QuitsAddUp, Newb, Process
<1> QED  BY <1>1, NextQuits, LockstepInvAlways, PTL DEF Spec

\* As long as its socket reports no error the client newb only ever ends after
\* its last message.
EndsComplete ==
  Client \notin IoErrorNodes =>
    (mode[Client] \in {"closing", "down"} => received[Client] = Target)

LEMMA NextEndsComplete ==
  ASSUME LockstepInv, EndsComplete, [Next]_vars
  PROVE  EndsComplete'
<1> SUFFICES ASSUME Client \notin IoErrorNodes PROVE EndsComplete'
  BY DEF EndsComplete
<1> TypeOK
  BY DEF LockstepInv
<1>0. Client \in Newb /\ received[Client] \in Nat /\ Target \in Nat
  BY StateFacts DEF Newb
<1>u. UNCHANGED ClientView => EndsComplete'
  BY DEF ClientView, EndsComplete
<1>1. ASSUME NEW d \in net, ClientReceives(d) PROVE EndsComplete'
  <2>1. CASE UNCHANGED ClientView
    BY <1>u, <2>1
  <2>2. CASE /\ received[Client] < Target /\ received'[Client] < Target
             /\ UNCHANGED nodeVars
    <3>1. mode[Client] \notin {"closing", "down"}
      BY <1>0, <2>2 DEF EndsComplete
    <3> QED  BY <2>2, <3>1 DEF EndsComplete, nodeVars
  <2>3. CASE /\ received[Client] < Target /\ received'[Client] = Target
             /\ mode[Client] # "down" /\ mode'[Client] = "closing"
             /\ quits'["client"] = quits["client"] + 1
             /\ UNCHANGED driver
    BY <2>3, <1>0 DEF EndsComplete, Target
  <2> QED  BY <1>1, <2>1, <2>2, <2>3, ClientReceivesView
<1>2. ASSUME NEW d \in net, NEW s \in Servers, ServerReceives(s, d) \/ Accept(s, d)
      PROVE  EndsComplete'
  BY <1>2, <1>u, ServerReadsView
<1>3. ASSUME NEW n \in Newb, Quit(n) PROVE EndsComplete'
  BY <1>0, <1>3 DEF Quit, Terminates, EndsComplete, TypeOK
<1>4. ASSUME NEW n \in Newb, NEW op \in {"read", "write"}, IoError(n, op)
      PROVE  EndsComplete'
  BY <1>0, <1>4 DEF IoError, EndsComplete, TypeOK
<1>5. CASE Start
  BY <1>0, <1>5 DEF Start, EndsComplete, TypeOK
<1>6. ASSUME NEW d \in net, Lose(d) PROVE EndsComplete'
  BY <1>6, <1>u DEF Lose, nodeVars, ClientView
<1>7. ASSUME NEW n \in Newb, NEW i \in timers[n], TimeoutFires(n, i) PROVE EndsComplete'
  BY <1>7, <1>u DEF TimeoutFires, nodeVars, ClientView
<1>8. ASSUME NEW p \in Process, DriverReceives(p) PROVE EndsComplete'
  BY <1>8 DEF DriverReceives, EndsComplete
<1>9. CASE UNCHANGED vars
  BY <1>9, <1>u DEF vars, ClientView
<1> QED  BY <1>1, <1>2, <1>3, <1>4, <1>5, <1>6, <1>7, <1>8, <1>9 DEF Next

LEMMA EndsCompleteAlways == Spec => []EndsComplete
<1>1. Init => EndsComplete
  BY DEF Init, EndsComplete, Newb
<1>2. LockstepInv /\ EndsComplete /\ [Next]_vars => EndsComplete'
  BY NextEndsComplete
<1> QED  BY <1>1, <1>2, LockstepInvAlways, PTL DEF Spec

\* The first quit_atom comes from the complete exchange or from the newb that has
\* terminated, which without errors at its socket comes after it: the duration
\* caf_main prints is that of the whole exchange, or the client's socket may fail.
THEOREM PrintedOnlyWhenDone == Spec => []PrintedWhenDone
<1>1. LockstepInv /\ QuitsAddUp /\ EndsComplete => PrintedWhenDone
  <2> SUFFICES ASSUME LockstepInv, QuitsAddUp, EndsComplete, driver["client"] # "await"
               PROVE  \/ received[Client] = Target
                      \/ Client \in IoErrorNodes /\ mode[Client] = "down"
    BY DEF PrintedWhenDone
  <2>1. /\ quits["client"] \in Nat
        /\ driver["client"] \in {"await", "printed", "aborted"}
    BY DEF LockstepInv, TypeOK, Process
  <2>2. received[Client] = Target \/ mode[Client] = "down"
    BY <2>1 DEF QuitsAddUp
  <2> QED  BY <2>2 DEF EndsComplete
<1> QED  BY <1>1, EndsCompleteAlways, QuitsAddUpAlways, LockstepInvAlways, PTL

\* Without errors at the client's socket the driver finds every quit_atom it
\* awaits: once its newb is down it can go on to its std::abort.
THEOREM DriverCanAlwaysFinish ==
  ASSUME Client \notin IoErrorNodes
  PROVE  Spec => []DriverCanFinish
<1>1. LockstepInv /\ QuitsAddUp /\ EndsComplete => DriverCanFinish
  <2> SUFFICES ASSUME LockstepInv, QuitsAddUp, EndsComplete
               PROVE  DriverCanFinish
    OBVIOUS
  <2>1. /\ quits["client"] \in Nat
        /\ driver["client"] \in {"await", "printed", "aborted"}
    BY DEF LockstepInv, TypeOK, Process
  <2>2. mode[Client] = "down" => received[Client] = Target
    BY DEF EndsComplete
  <2> QED  BY <2>1, <2>2 DEF QuitsAddUp, DriverCanFinish, Awaited
<1> QED  BY <1>1, EndsCompleteAlways, QuitsAddUpAlways, LockstepInvAlways, PTL

-----------------------------------------------------------------------------
(***************************************************************************)
(* Retained: the packet the exchange waits for is kept.  An acknowledgement*)
(* that is late without bound erases a packet of the same id, so this is   *)
(* for exchanges that use no id twice.  Then ids are counters, and whoever *)
(* acknowledges one has gone past it.                                      *)
(***************************************************************************)
NumberedInv ==
  /\ \A n \in Newb : \A p \in unacked[n] : p.id = p.counter
  /\ \A s \in Servers : received[s] < Target => idWrite[s] = received[s]
  /\ mode[Client] # "idle" /\ received[Client] + 1 < Target =>
       idWrite[Client] = received[Client] + 1

Proper(d) ==
  IF d.pkt.ack THEN d.pkt.id < received[d.src] ELSE d.pkt.id = d.pkt.counter

\* Before the start the client has not written anything.
IdleInv ==
  mode[Client] = "idle" =>
    /\ net = {} /\ idWrite[Client] = 0 /\ unacked[Client] = {}
    /\ \A s \in Servers : received[s] = 0

Holds(n, c) == \E p \in unacked[n] : p.counter = c

HeldInv ==
  /\ mode[Client] # "idle" /\ received[Client] < Target
       /\ (endpoint = Acceptor \/ received[endpoint] = received[Client])
     => Holds(Client, received[Client])
  /\ \A s \in Servers : received[s] > received[Client] => Holds(s, received[Client])

RetainedInv ==
  /\ NumberedInv
  /\ \A d \in net : Proper(d)
  /\ IdleInv
  /\ HeldInv

\* Numbers, and what a sound datagram says.
LEMMA RetainedFacts ==
  ASSUME LockstepInv
  PROVE  /\ TypeOK /\ Lockstep /\ EndpointInv /\ KeptInv /\ \A d \in net : Sound(d)
         /\ Client \in Newb /\ Client \notin Servers /\ Servers \subseteq Newb
         /\ Newb = {Client} \cup Servers
         /\ Target \in Nat \ {0} /\ IdMod \in Nat \ {0}
         /\ \A n \in Newb : received[n] \in Nat
         /\ \A n \in Newb : \A p \in unacked[n] : p.id \in Nat /\ p.counter \in Nat
         /\ \A d \in net : /\ d \in Datagram /\ d.src \in Newb
                          /\ d.pkt.id \in Nat /\ d.pkt.id \in Ids /\ d.pkt.counter \in Nat
<1> TypeOK
  BY DEF LockstepInv
<1>1. Ids \subseteq Nat /\ IdMod \in Nat \ {0}
  BY IdModAssumption DEF Ids
<1>2. \A n \in Newb : \A p \in unacked[n] : p \in Packet
  BY DEF TypeOK
<1>3. Newb = {Client} \cup Servers /\ Client \notin Servers
  BY NamesAssumption DEF Newb
<1> QED  BY <1>1, <1>2, <1>3, StateFacts DEF LockstepInv, Packet

\* What is on the network stays proper when only packets like those that were
\* there, and proper ones, are added.
LEMMA ProperStays ==
  ASSUME LockstepInv, RetainedInv, Grows, received' \in [Newb -> Nat],
         \A e \in net' : \/ \E f \in net : e.src = f.src /\ e.pkt = f.pkt
                         \/ Proper(e)'
  PROVE  (\A d \in net : Proper(d))'
<1> SUFFICES ASSUME NEW e \in net' PROVE Proper(e)'
  OBVIOUS
<1>1. CASE \E f \in net : e.src = f.src /\ e.pkt = f.pkt
  <2>1. PICK f \in net : e.src = f.src /\ e.pkt = f.pkt
    BY <1>1
  <2>2. /\ Proper(f) /\ f.src \in Newb /\ f.pkt.id \in Nat
        /\ received[f.src] \in Nat /\ received'[f.src] \in Nat
        /\ received'[f.src] >= received[f.src]
    BY RetainedFacts DEF RetainedInv, Grows
  <2> QED  BY <2>1, <2>2 DEF Proper
<1> QED  BY <1>1

LEMMA RemainingProper ==
  ASSUME LockstepInv, NEW n, NEW d \in net, NEW rest \in Remaining(n, d), NEW e \in rest
  PROVE  \E f \in net : e.src = f.src /\ e.pkt = f.pkt
<1>1. CASE e \in net
  BY <1>1
<1>2. CASE \E f \in net : f.dst = Acceptor /\ e = [f EXCEPT !.dst = d.src]
  <2>1. PICK f \in net : e = [f EXCEPT !.dst = d.src]
    BY <1>2
  <2>2. f \in Datagram
    BY RetainedFacts
  <2> QED  BY <2>1, <2>2 DEF Datagram
<1> QED  BY <1>1, <1>2, RemainingFrom

\* A newb that acknowledges data has gone past its counter when it has read it,
\* and what it writes with it has its counter for its id.
LEMMA AcksProper ==
  ASSUME LockstepInv, RetainedInv, TypeOK', Grows, NEW n \in Newb, NEW d \in net,
         NEW P, AcksData(n, d, P), d.pkt.id < received'[n],
         \A p \in P : ~ p.ack /\ p.id = p.counter
  PROVE  (\A e \in net : Proper(e))'
<1>1. PICK rest \in Remaining(n, d) :
         net' = rest \cup Written(n, d.src, {Ack(d.pkt.id)} \cup P)
  BY DEF AcksData
<1>2. ASSUME NEW e \in Written(n, d.src, {Ack(d.pkt.id)} \cup P)
      PROVE  Proper(e)'
  <2>1. PICK p \in {Ack(d.pkt.id)} \cup P : e = [src |-> n, dst |-> d.src, pkt |-> p]
    BY DEF Written
  <2>2. e.src = n /\ e.pkt = p
    BY <2>1
  <2>3. CASE p = Ack(d.pkt.id)
    BY <2>2, <2>3 DEF Proper, Ack
  <2>4. CASE p \in P
    BY <2>2, <2>4 DEF Proper
  <2> QED  BY <2>1, <2>3, <2>4
<1>3. ASSUME NEW e \in net'
      PROVE  (\E f \in net : e.src = f.src /\ e.pkt = f.pkt) \/ Proper(e)'
  <2>1. CASE e \in rest
    BY <2>1, RemainingProper
  <2>2. CASE e \in Written(n, d.src, {Ack(d.pkt.id)} \cup P)
    BY <1>2, <2>2
  <2> QED  BY <1>1, <2>1, <2>2
<1>4. received' \in [Newb -> Nat]
  BY DEF TypeOK
<1> QED  BY <1>3, <1>4, ProperStays

\* A new counter is kept, under its own id, with what was kept before.
LEMMA KeepNumbered ==
  ASSUME LockstepInv, RetainedInv, NEW n \in Newb, NEW c \in Nat, KeepForResend(n, c),
         idWrite[n] = c, \A p \in unacked[n] : p.counter # c
  PROVE  /\ unacked'[n] = unacked[n] \cup {Data(c, c)}
         /\ \A m \in Newb : m # n => unacked'[m] = unacked[m] /\ idWrite'[m] = idWrite[m]
         /\ idWrite'[n] = NextId(c)
         /\ \A m \in Newb : \A p \in unacked'[m] : p.id = p.counter
         /\ Data(c, c).id = c /\ Data(c, c).counter = c /\ ~ Data(c, c).ack
<1>1. unacked \in [Newb -> SUBSET Packet] /\ idWrite \in [Newb -> Ids]
  BY DEF LockstepInv, TypeOK
<1>2. \A m \in Newb : \A p \in unacked[m] : p.id = p.counter
  BY DEF RetainedInv, NumberedInv
<1>3. ~ Kept(n, c)
  BY <1>2 DEF Kept
<1>4. Data(c, c).id = c /\ Data(c, c).counter = c /\ ~ Data(c, c).ack
  BY DEF Data
<1>5. unacked' = [unacked EXCEPT ![n] = @ \cup {Data(c, c)}]
      /\ idWrite' = [idWrite EXCEPT ![n] = NextId(c)]
  BY <1>1, <1>3 DEF KeepForResend
<1>6. unacked'[n] = unacked[n] \cup {Data(c, c)} /\ idWrite'[n] = NextId(c)
  BY <1>1, <1>5
<1>7. \A m \in Newb : m # n => unacked'[m] = unacked[m] /\ idWrite'[m] = idWrite[m]
  BY <1>1, <1>5
<1> QED  BY <1>2, <1>4, <1>6, <1>7

\* No id is used twice.
LEMMA NextNumber ==
  ASSUME Target <= IdMod, Target \in Nat, NEW c \in Nat, c + 1 < Target
  PROVE  NextId(c) = c + 1
BY IdModAssumption DEF NextId

\* A step that neither reads nor writes a new packet.
LEMMA QuietRetained ==
  ASSUME LockstepInv, RetainedInv, UNCHANGED <<received, idWrite, unacked, endpoint>>,
         net' \subseteq net, mode'[Client] = "idle" <=> mode[Client] = "idle"
  PROVE  RetainedInv'
<1>1. (\A d \in net : Proper(d))'
  BY DEF RetainedInv, Proper
<1>2. NumberedInv' /\ IdleInv' /\ HeldInv'
  BY DEF RetainedInv, NumberedInv, IdleInv, HeldInv, Holds
<1> QED  BY <1>1, <1>2 DEF RetainedInv

LEMMA StartRetained ==
  ASSUME Target <= IdMod, LockstepInv, TypeOK', RetainedInv, Start
  PROVE  RetainedInv'
<1>1. /\ net = {} /\ idWrite[Client] = 0 /\ unacked[Client] = {}
      /\ \A s \in Servers : received[s] = 0
  BY DEF Start, RetainedInv, IdleInv
<1>2. endpoint = Acceptor /\ received[Client] = 0
  <2>1. endpoint \in Newb \cup {Acceptor}
    BY RetainedFacts DEF TypeOK
  <2>2. endpoint = Acceptor
    BY <1>1, <2>1, RetainedFacts DEF EndpointInv
  <2> QED  BY <2>2, RetainedFacts DEF EndpointInv
<1>3. /\ UNCHANGED <<received, endpoint>> /\ KeepForResend(Client, 0)
      /\ net' = net \cup Written(Client, endpoint, {Data(0, 0)})
  BY <1>1 DEF Start
<1>4. mode'[Client] = "running"
  BY RetainedFacts DEF Start, TypeOK
<1>5. /\ unacked'[Client] = {Data(0, 0)} /\ idWrite'[Client] = NextId(0)
      /\ \A m \in Newb : m # Client => unacked'[m] = unacked[m] /\ idWrite'[m] = idWrite[m]
      /\ \A m \in Newb : \A p \in unacked'[m] : p.id = p.counter
      /\ Data(0, 0).id = 0 /\ Data(0, 0).counter = 0 /\ ~ Data(0, 0).ack
  BY <1>1, <1>3, RetainedFacts, KeepNumbered
<1>6. (\A d \in net : Proper(d))'
  <2> SUFFICES ASSUME NEW e \in net' PROVE Proper(e)'
    OBVIOUS
  <2>1. e = [src |-> Client, dst |-> endpoint, pkt |-> Data(0, 0)]
    BY <1>1, <1>3 DEF Written
  <2> QED  BY <1>5, <2>1 DEF Proper
<1>7. NumberedInv'
  <2>1. \A s \in Servers : idWrite'[s] = idWrite[s]
    BY <1>5, RetainedFacts
  <2>2. 0 + 1 < Target => idWrite'[Client] = 0 + 1
    BY <1>5, NextNumber, RetainedFacts
  <2> QED  BY <1>2, <1>3, <1>5, <2>1, <2>2 DEF RetainedInv, NumberedInv
<1>8. HeldInv'
  <2>1. Holds(Client, 0)'
    BY <1>5 DEF Holds
  <2> QED  BY <1>1, <1>2, <1>3, <2>1, RetainedFacts DEF HeldInv
<1> QED  BY <1>4, <1>6, <1>7, <1>8 DEF RetainedInv, IdleInv

\* The client reads from a server that has gone past whatever it acknowledges.
LEMMA ClientReceivesRetained ==
  ASSUME Target <= IdMod, LockstepInv, LockstepInv', RetainedInv,
         NEW d \in net, ClientReceives(d)
  PROVE  RetainedInv'
<1> DEFINE s == d.src
           r == received[Client]
<1>1. /\ Arrives(Client, d) /\ s \in Servers /\ s \in Newb /\ endpoint' = s
      /\ endpoint = Acceptor \/ endpoint = s
      /\ received[s] > 0 /\ r <= received[s]
      /\ \A t \in Servers : received[t] <= r + 1
      /\ r \in Nat /\ r <= Target /\ \A t \in Servers : received[t] \in Nat
  BY ClientHears, RetainedFacts DEF ClientReceives, Lockstep
<1>2. TypeOK' /\ Proper(d) /\ Sound(d) /\ d.pkt.id \in Nat /\ d.pkt.counter \in Nat
  BY RetainedFacts DEF LockstepInv, RetainedInv
<1>3. mode[Client] # "idle" /\ mode'[Client] # "idle"
  BY RetainedFacts DEF ClientReceives, Arrives, Alive, Completes, Continues, nodeVars, TypeOK
<1>4. IdleInv'
  BY <1>3 DEF IdleInv
<1>5. received' = received => Grows
  BY RetainedFacts DEF Grows
<1>6. ~ d.pkt.ack => d.pkt.id = d.pkt.counter /\ d.pkt.counter <= r
  BY <1>1, <1>2, RetainedFacts DEF Proper, Sound, Plausible
<1>7. CASE ReadsAck(Client, d)
  <2>1. /\ d.pkt.ack /\ UNCHANGED <<received, idWrite>> /\ net' \in Remaining(Client, d)
        /\ unacked'[Client] = {p \in unacked[Client] : p.id # d.pkt.id}
        /\ \A t \in Servers : unacked'[t] = unacked[t]
    BY <1>7, RetainedFacts DEF ReadsAck, Cleared, TypeOK
  <2>2. d.pkt.id < received[s]
    BY <1>2, <2>1 DEF Proper
  <2>3. (\A e \in net : Proper(e))'
    BY <1>2, <1>5, <2>1, RemainingProper, ProperStays DEF TypeOK
  <2>4. NumberedInv'
    <3>1. \A n \in Newb : unacked'[n] \subseteq unacked[n]
      BY <2>1, RetainedFacts
    <3> QED  BY <1>3, <2>1, <3>1 DEF RetainedInv, NumberedInv
  <2>5. ASSUME r < Target, received[s] = r
        PROVE  Holds(Client, r)'
    <3>1. PICK p \in unacked[Client] : p.counter = r
      BY <1>1, <1>3, <2>5 DEF RetainedInv, HeldInv, Holds
    <3>2. p.id = r
      BY <3>1, RetainedFacts DEF RetainedInv, NumberedInv
    <3>3. p \in unacked'[Client]
      BY <1>1, <1>2, <2>1, <2>2, <2>5, <3>2
    <3> QED  BY <2>1, <3>1, <3>3 DEF Holds
  <2>6. HeldInv'
    <3>1. s # Acceptor
      BY <1>1, NamesAssumption
    <3>2. \A t \in Servers : received[t] > r => Holds(t, r)'
      BY <2>1 DEF RetainedInv, HeldInv, Holds
    <3> QED  BY <1>1, <2>1, <2>5, <3>1, <3>2 DEF HeldInv
  <2> QED  BY <1>4, <2>3, <2>4, <2>6 DEF RetainedInv
<1>8. CASE DropsCounter(Client, d)
  <2>1. /\ AcksData(Client, d, {}) /\ ~ d.pkt.ack /\ d.pkt.counter # r
        /\ UNCHANGED <<received, idWrite, unacked>>
    BY <1>8 DEF DropsCounter, Expected, AcksData
  <2>2. d.pkt.id < r
    BY <1>1, <1>2, <1>6, <2>1
  <2>3. (\A e \in net : Proper(e))'
    BY <1>2, <1>5, <2>1, <2>2, RetainedFacts, AcksProper
  <2>4. NumberedInv'
    BY <1>3, <2>1 DEF RetainedInv, NumberedInv
  <2>5. HeldInv'
    BY <1>1, <1>3, <2>1, NamesAssumption DEF RetainedInv, HeldInv, Holds
  <2> QED  BY <1>4, <2>3, <2>4, <2>5 DEF RetainedInv
<1>9. ASSUME ~ d.pkt.ack, d.pkt.counter = r, received' = [received EXCEPT ![Client] = @ + 1]
      PROVE  /\ Grows /\ r < Target /\ received'[Client] = r + 1 /\ d.pkt.id < received'[Client]
             /\ \A t \in Servers : received'[t] = received[t]
             /\ \A t \in Servers : ~ (received'[t] > received'[Client])
  <2>1. Grows /\ r < Target
    BY <1>1, <1>2, <1>9, ClientCounts
  <2>2. received'[Client] = r + 1 /\ \A t \in Servers : received'[t] = received[t]
    BY <1>9, RetainedFacts DEF TypeOK
  <2> QED  BY <1>1, <1>2, <1>6, <1>9, <2>1, <2>2
<1>10. CASE Continues(d)
  <2>1. /\ AcksData(Client, d, {Data(idWrite[Client], r + 1)}) /\ ~ d.pkt.ack
        /\ d.pkt.counter = r /\ received' = [received EXCEPT ![Client] = @ + 1]
        /\ KeepForResend(Client, r + 1) /\ ~ (r + 1 >= Messages)
    BY <1>10 DEF Continues, Expected, AcksData, GotAll
  <2>2. r + 1 < Target /\ r + 1 \in Nat
    BY <1>1, <2>1, MessagesAssumption DEF Target
  <2>3. idWrite[Client] = r + 1
    BY <1>3, <2>2 DEF RetainedInv, NumberedInv
  <2>4. \A p \in unacked[Client] : p.counter # r + 1
    <3> SUFFICES ASSUME NEW p \in unacked[Client] PROVE p.counter # r + 1
      OBVIOUS
    <3>1. p.counter <= r /\ p.counter \in Nat
      BY RetainedFacts DEF KeptInv, Plausible
    <3> QED  BY <1>1, <3>1
  <2>5. /\ unacked'[Client] = unacked[Client] \cup {Data(r + 1, r + 1)}
        /\ \A m \in Newb : m # Client => unacked'[m] = unacked[m] /\ idWrite'[m] = idWrite[m]
        /\ idWrite'[Client] = NextId(r + 1)
        /\ \A m \in Newb : \A p \in unacked'[m] : p.id = p.counter
        /\ Data(r + 1, r + 1).id = r + 1 /\ Data(r + 1, r + 1).counter = r + 1
        /\ ~ Data(r + 1, r + 1).ack
    BY <2>1, <2>2, <2>3, <2>4, RetainedFacts, KeepNumbered
  <2>6. (\A e \in net : Proper(e))'
    BY <1>2, <1>9, <2>1, <2>3, <2>5, RetainedFacts, AcksProper
  <2>7. NumberedInv'
    <3>1. (r + 1) + 1 < Target => idWrite'[Client] = (r + 1) + 1
      BY <2>2, <2>5, NextNumber, RetainedFacts
    <3>2. \A t \in Servers : idWrite'[t] = idWrite[t]
      BY <2>5, RetainedFacts
    <3> QED  BY <1>9, <2>1, <2>5, <3>1, <3>2 DEF RetainedInv, NumberedInv
  <2>8. HeldInv'
    <3>1. \E p \in unacked'[Client] : p.counter = r + 1
      BY <2>5
    <3>2. \A t \in Servers : ~ (received'[t] > received'[Client])
      BY <1>9, <2>1
    <3>3. received'[Client] = r + 1
      BY <1>9, <2>1
    <3> HIDE DEF r
    <3> QED  BY <3>1, <3>2, <3>3 DEF HeldInv, Holds
  <2> QED  BY <1>4, <2>6, <2>7, <2>8 DEF RetainedInv
<1>11. CASE Completes(d)
  <2>1. /\ AcksData(Client, d, {}) /\ ~ d.pkt.ack
        /\ d.pkt.counter = r /\ received' = [received EXCEPT ![Client] = @ + 1]
        /\ UNCHANGED <<idWrite, unacked>> /\ r + 1 >= Messages
    BY <1>11 DEF Completes, Expected, AcksData, GotAll
  <2>2. r + 1 = Target
    BY <1>1, <1>9, <2>1, MessagesAssumption DEF Target
  <2>3. (\A e \in net : Proper(e))'
    BY <1>2, <1>9, <2>1, RetainedFacts, AcksProper
  <2>4. NumberedInv'
    BY <1>1, <1>9, <2>1, <2>2 DEF RetainedInv, NumberedInv
  <2>5. HeldInv'
    BY <1>1, <1>9, <2>1, <2>2 DEF HeldInv
  <2> QED  BY <1>4, <2>3, <2>4, <2>5 DEF RetainedInv
<1> QED  BY <1>7, <1>8, <1>10, <1>11 DEF ClientReceives

\* A server newb reads from the client only, which has gone past whatever it
\* acknowledges.
LEMMA ServerReadsRetained ==
  ASSUME Target <= IdMod, LockstepInv, LockstepInv', RetainedInv,
         NEW d \in net, NEW s \in Servers, ServerReceives(s, d) \/ Accept(s, d)
  PROVE  RetainedInv'
<1> DEFINE r == received[Client]
           c == received[s]
<1>1. /\ d.src = Client /\ endpoint' = endpoint /\ ServerReads(s, d)
      /\ s = endpoint \/ (~d.pkt.ack /\ d.pkt.counter = 0)
  BY ServerHears
<1>2. /\ TypeOK' /\ Proper(d) /\ Sound(d) /\ d.pkt.id \in Nat /\ d.pkt.counter \in Nat
      /\ r \in Nat /\ c \in Nat /\ s \in Newb /\ s # Client
      /\ s = endpoint => r <= c
      /\ \A t \in Servers : received[t] \in Nat
  BY RetainedFacts DEF LockstepInv, RetainedInv, Lockstep
<1>3. mode[Client] # "idle" /\ mode'[Client] # "idle"
  <2>1. mode[Client] # "idle"
    BY DEF RetainedInv, IdleInv
  <2>2. mode'[Client] = mode[Client]
    BY <1>2, RetainedFacts DEF ServerReceives, Accept, nodeVars, TypeOK
  <2> QED  BY <2>1, <2>2
<1>4. IdleInv'
  BY <1>3 DEF IdleInv
<1>5. received' = received => Grows
  BY RetainedFacts DEF Grows
<1>6. CASE ReadsAck(s, d)
  <2>1. /\ d.pkt.ack /\ UNCHANGED <<received, idWrite>> /\ net' \in Remaining(s, d)
        /\ unacked'[s] = {p \in unacked[s] : p.id # d.pkt.id}
        /\ \A n \in Newb : n # s => unacked'[n] = unacked[n]
    BY <1>6, RetainedFacts DEF ReadsAck, Cleared, TypeOK
  <2>2. d.pkt.id < r
    BY <1>1, <1>2, <2>1 DEF Proper
  <2>3. (\A e \in net : Proper(e))'
    BY <1>2, <1>5, <2>1, RemainingProper, ProperStays DEF TypeOK
  <2>4. NumberedInv'
    <3>1. \A n \in Newb : unacked'[n] \subseteq unacked[n]
      BY <2>1
    <3> QED  BY <1>3, <2>1, <3>1 DEF RetainedInv, NumberedInv
  <2>5. ASSUME NEW t \in Servers, received[t] > r
        PROVE  Holds(t, r)'
    <3>1. PICK p \in unacked[t] : p.counter = r
      BY <2>5 DEF RetainedInv, HeldInv, Holds
    <3>2. p.id = r
      BY <3>1, RetainedFacts DEF RetainedInv, NumberedInv
    <3>3. p \in unacked'[t]
      BY <1>2, <2>1, <2>2, <3>2, RetainedFacts
    <3> QED  BY <2>1, <3>1, <3>3 DEF Holds
  <2>6. HeldInv'
    <3>1. unacked'[Client] = unacked[Client]
      BY <1>2, <2>1, RetainedFacts
    <3> QED  BY <1>1, <1>3, <2>1, <2>5, <3>1 DEF RetainedInv, HeldInv, Holds
  <2> QED  BY <1>4, <2>3, <2>4, <2>6 DEF RetainedInv
<1>7. CASE DropsCounter(s, d)
  <2>1. /\ AcksData(s, d, {}) /\ ~ d.pkt.ack /\ d.pkt.counter # c
        /\ UNCHANGED <<received, idWrite, unacked>>
    BY <1>7 DEF DropsCounter, Expected, AcksData
  <2>2. d.pkt.id < c
    <3>1. d.pkt.id = d.pkt.counter /\ d.pkt.counter <= r
      BY <1>1, <1>2, <2>1 DEF Proper, Sound, Plausible
    <3> QED  BY <1>1, <1>2, <2>1, <3>1
  <2>3. (\A e \in net : Proper(e))'
    BY <1>2, <1>5, <2>1, <2>2, AcksProper
  <2>4. NumberedInv'
    BY <1>3, <2>1 DEF RetainedInv, NumberedInv
  <2>5. HeldInv'
    BY <1>1, <1>3, <2>1 DEF RetainedInv, HeldInv, Holds
  <2> QED  BY <1>4, <2>3, <2>4, <2>5 DEF RetainedInv
<1>8. CASE Echoes(s, d)
  <2>1. /\ AcksData(s, d, {Data(idWrite[s], c)}) /\ ~ d.pkt.ack /\ d.pkt.counter = c
        /\ received' = [received EXCEPT ![s] = @ + 1] /\ KeepForResend(s, c)
    BY <1>8 DEF Echoes, Expected, AcksData
  <2>2. Grows /\ c < Target /\ c <= r /\ received'[s] = c + 1
    BY <1>8, <2>1, ServerEchoes
  <2>3. \A n \in Newb : n # s => received'[n] = received[n]
    BY <2>1, RetainedFacts DEF TypeOK
  <2>4. idWrite[s] = c
    BY <2>2 DEF RetainedInv, NumberedInv
  <2>5. \A p \in unacked[s] : p.counter # c
    <3> SUFFICES ASSUME NEW p \in unacked[s] PROVE p.counter # c
      OBVIOUS
    <3>1. p.counter < c /\ p.counter \in Nat
      BY <1>2, RetainedFacts DEF KeptInv, Plausible
    <3> QED  BY <1>2, <3>1
  <2>6. /\ unacked'[s] = unacked[s] \cup {Data(c, c)}
        /\ \A m \in Newb : m # s => unacked'[m] = unacked[m] /\ idWrite'[m] = idWrite[m]
        /\ idWrite'[s] = NextId(c)
        /\ \A m \in Newb : \A p \in unacked'[m] : p.id = p.counter
        /\ Data(c, c).id = c /\ Data(c, c).counter = c /\ ~ Data(c, c).ack
    BY <1>2, <2>1, <2>4, <2>5, KeepNumbered
  <2>7. d.pkt.id < received'[s]
    BY <1>2, <2>1, <2>2 DEF Proper
  <2>8. (\A e \in net : Proper(e))'
    BY <1>2, <2>1, <2>2, <2>4, <2>6, <2>7, AcksProper
  <2>9. received'[Client] = r /\ unacked'[Client] = unacked[Client]
        /\ idWrite'[Client] = idWrite[Client]
    BY <1>2, <2>3, <2>6, RetainedFacts
  <2>10. NumberedInv'
    <3>1. c + 1 < Target => idWrite'[s] = c + 1
      BY <1>2, <2>6, NextNumber, RetainedFacts
    <3>2. \A t \in Servers : t # s => received'[t] = received[t] /\ idWrite'[t] = idWrite[t]
      BY <2>3, <2>6, RetainedFacts
    <3>3. \A t \in Servers : received'[t] < Target => idWrite'[t] = received'[t]
      BY <2>2, <3>1, <3>2 DEF RetainedInv, NumberedInv
    <3> QED  BY <1>3, <2>6, <2>9, <3>3 DEF RetainedInv, NumberedInv
  <2>11. HeldInv'
    <3>1. ASSUME NEW t \in Servers, received'[t] > r
          PROVE  Holds(t, r)'
      <4>1. CASE t = s
        <5>1. c = r
          BY <1>2, <2>2, <3>1, <4>1
        <5> QED  BY <2>6, <2>9, <4>1, <5>1 DEF Holds
      <4>2. CASE t # s
        BY <2>3, <2>6, <2>9, <3>1, <4>2, RetainedFacts DEF RetainedInv, HeldInv, Holds
      <4> QED  BY <4>1, <4>2
    <3>2. ASSUME r < Target, endpoint = Acceptor \/ received'[endpoint] = r
          PROVE  Holds(Client, r)'
      <4>1. endpoint # s
        BY <1>2, <2>2, <3>2, NamesAssumption
      <4>2. endpoint = Acceptor \/ received[endpoint] = r
        BY <2>3, <3>2, <4>1, RetainedFacts DEF TypeOK
      <4> QED  BY <1>3, <2>9, <3>2, <4>2 DEF RetainedInv, HeldInv, Holds
    <3> QED  BY <1>1, <2>9, <3>1, <3>2 DEF HeldInv
  <2> QED  BY <1>4, <2>8, <2>10, <2>11 DEF RetainedInv
<1> QED  BY <1>1, <1>6, <1>7, <1>8 DEF ServerReads
\* A timeout writes packets that are kept, and before the start there are none.
LEMMA TimeoutRetained ==
  ASSUME LockstepInv, LockstepInv', RetainedInv,
         NEW n \in Newb, NEW i \in timers[n], TimeoutFires(n, i)
  PROVE  RetainedInv'
<1> DEFINE P == {p \in unacked[n] : p.id = i}
           to == IF n = Client THEN endpoint ELSE Client
<1>1. /\ UNCHANGED <<received, idWrite, unacked, endpoint, mode>> /\ Alive(n)
      /\ net' = net \cup Written(n, to, P)
  BY DEF TimeoutFires, nodeVars
<1>2. (\A e \in net : Proper(e))'
  <2> SUFFICES ASSUME NEW e \in net' PROVE Proper(e)'
    OBVIOUS
  <2>1. CASE e \in net
    BY <1>1, <2>1 DEF RetainedInv, Proper
  <2>2. CASE e \in Written(n, to, P)
    <3>1. PICK p \in P : e = [src |-> n, dst |-> to, pkt |-> p]
      BY <2>2 DEF Written
    <3>2. ~ p.ack /\ p.id = p.counter /\ e.pkt = p
      BY <3>1, RetainedFacts DEF KeptInv, RetainedInv, NumberedInv
    <3> QED  BY <3>2 DEF Proper
  <2> QED  BY <1>1, <2>1, <2>2
<1>3. IdleInv'
  <2> SUFFICES ASSUME mode[Client] = "idle" PROVE net' = {}
    BY <1>1 DEF RetainedInv, IdleInv
  <2>1. net = {} /\ \A s \in Servers : received[s] = 0
    BY DEF RetainedInv, IdleInv
  <2>2. n \in Servers
    BY <1>1, RetainedFacts DEF Alive
  <2>3. unacked[n] = {}
    <3> SUFFICES ASSUME NEW p \in unacked[n] PROVE FALSE
      OBVIOUS
    <3>1. p.counter < 0 /\ p.counter \in Nat
      BY <2>1, <2>2, RetainedFacts DEF KeptInv, Plausible
    <3> QED  BY <3>1
  <2>4. Written(n, to, P) = {}
    BY <2>3 DEF Written
  <2> QED  BY <1>1, <2>1, <2>4
<1>4. NumberedInv' /\ HeldInv'
  BY <1>1 DEF RetainedInv, NumberedInv, HeldInv, Holds
<1> QED  BY <1>2, <1>3, <1>4 DEF RetainedInv

\* Every step keeps the invariant.
LEMMA NextRetained ==
  ASSUME Target <= IdMod, LockstepInv, LockstepInv', RetainedInv, [Next]_vars
  PROVE  RetainedInv'
<1> USE DEF LockstepInv
<1>a. TypeOK /\ TypeOK' /\ Client \in Newb
  BY RetainedFacts
<1> USE <1>a
<1>1. CASE Start
  BY <1>1, StartRetained
<1>2. ASSUME NEW d \in net, ClientReceives(d) PROVE RetainedInv'
  BY <1>2, ClientReceivesRetained
<1>3. ASSUME NEW d \in net, NEW s \in Servers, ServerReceives(s, d) \/ Accept(s, d)
      PROVE  RetainedInv'
  BY <1>3, ServerReadsRetained
<1>4. ASSUME NEW d \in net, Lose(d) PROVE RetainedInv'
  BY <1>4, QuietRetained DEF Lose, nodeVars
<1>5. ASSUME NEW n \in Newb, NEW i \in timers[n], TimeoutFires(n, i) PROVE RetainedInv'
  BY <1>5, TimeoutRetained
<1>6. ASSUME NEW n \in Newb, NEW op \in {"read", "write"}, IoError(n, op) PROVE RetainedInv'
  <2>1. mode'[Client] = "idle" <=> mode[Client] = "idle"
    BY <1>6 DEF IoError, Alive, TypeOK
  <2> QED  BY <1>6, <2>1, QuietRetained DEF IoError
<1>7. ASSUME NEW n \in Newb, Quit(n) PROVE RetainedInv'
  <2>1. mode'[Client] = "idle" <=> mode[Client] = "idle"
    BY <1>7 DEF Quit, Terminates, TypeOK
  <2> QED  BY <1>7, <2>1, QuietRetained DEF Quit
<1>8. ASSUME NEW p \in Process, DriverReceives(p) PROVE RetainedInv'
  BY <1>8, QuietRetained DEF DriverReceives
<1>9. CASE UNCHANGED vars
  BY <1>9, QuietRetained DEF vars
<1> QED  BY <1>1, <1>2, <1>3, <1>4, <1>5, <1>6, <1>7, <1>8, <1>9 DEF Next

LEMMA InitRetained == Init => RetainedInv
<1> SUFFICES ASSUME Init PROVE RetainedInv
  OBVIOUS
<1>1. /\ \A n \in Newb : received[n] = 0 /\ idWrite[n] = 0 /\ unacked[n] = {}
      /\ mode[Client] = "idle" /\ net = {} /\ Servers \subseteq Newb /\ Client \in Newb
  BY DEF Init, Newb
<1>2. NumberedInv /\ IdleInv /\ HeldInv
  BY <1>1 DEF NumberedInv, IdleInv, HeldInv
<1> QED  BY <1>1, <1>2 DEF RetainedInv

\* What the induction hypothesis says of the packet the exchange waits for.
LEMMA RetainedView ==
  ASSUME LockstepInv, RetransmitArmed, RetainedInv
  PROVE  Retained
<1> DEFINE Waits(n, c) == \E p \in unacked[n] : p.counter = c /\ p.id \in timers[n]
<1>1. \A n \in Newb : \A c : Holds(n, c) => Waits(n, c)
  BY DEF Holds, RetransmitArmed
<1>2. /\ received[Client] \in Nat /\ Client \in Newb /\ Servers \subseteq Newb
      /\ Target \in Nat \ {0} /\ endpoint \in Servers \cup {Acceptor}
      /\ \A s \in Servers : received[s] \in Nat /\ s # Acceptor
  BY RetainedFacts, NamesAssumption DEF TypeOK, EndpointInv
<1>3. ASSUME endpoint # Acceptor, received[endpoint] = received[Client],
             received[Client] < Target
      PROVE  Waits(Client, received[Client])
  <2>1. received[endpoint] > 0 /\ endpoint \in Servers
    BY <1>2, <1>3, RetainedFacts DEF EndpointInv
  <2>2. mode[Client] # "idle"
    BY <2>1, <1>2 DEF RetainedInv, IdleInv
  <2>3. Holds(Client, received[Client])
    BY <1>3, <2>2 DEF RetainedInv, HeldInv
  <2> QED  BY <1>1, <1>2, <2>3
<1>4. ASSUME endpoint # Acceptor, received[endpoint] # received[Client]
      PROVE  Waits(endpoint, received[Client])
  <2>1. endpoint \in Servers /\ received[endpoint] > received[Client]
    BY <1>2, <1>4, RetainedFacts DEF Lockstep
  <2>2. Holds(endpoint, received[Client])
    BY <2>1 DEF RetainedInv, HeldInv
  <2> QED  BY <1>1, <1>2, <2>1, <2>2
<1>5. ASSUME endpoint = Acceptor, mode[Client] # "idle"
      PROVE  Waits(Client, 0)
  <2>1. received[Client] = 0 /\ received[Client] < Target
    BY <1>2, <1>5, RetainedFacts DEF EndpointInv
  <2>2. Holds(Client, 0)
    BY <1>5, <2>1 DEF RetainedInv, HeldInv
  <2> QED  BY <1>1, <1>2, <2>2
<1> QED  BY <1>3, <1>4, <1>5 DEF Retained

\* Whatever is lost, repeated, late or failing, the packet the exchange waits
\* for is kept by its sender with a timeout on its way, in every exchange that
\* is short enough not to use an id of the reliability layer twice.
THEOREM RetainedAlways ==
  ASSUME Target <= IdMod
  PROVE  Spec => []Retained
<1>1. LockstepInv /\ LockstepInv' /\ RetainedInv /\ [Next]_vars => RetainedInv'
  BY NextRetained
<1>2. LockstepInv /\ RetransmitArmed /\ RetainedInv => Retained
  BY RetainedView
<1> QED
  BY <1>1, <1>2, InitRetained, LockstepInvAlways, RetransmitArmedAlways, PTL DEF Spec

=============================================================================
