---------------------------- MODULE PingPongUdp ----------------------------
(***************************************************************************)
(* pingpong_udp: a client newb and the server newbs that accept_udp spawns *)
(* exchange counters over udp_protocol<reliability<raw>>, together with    *)
(* the two driver threads (caf_main) that wait for them to quit.           *)
(*                                                                         *)
(* Datagrams are lost, duplicated and reordered.  The reliability layer    *)
(* acknowledges every data packet it reads, keeps every packet it wrote    *)
(* until an acknowledgement arrives and writes it again when its timeout   *)
(* fires.  It does not recognise duplicates: the counter of the handlers   *)
(* does.  Every datagram that reaches the acceptor's port spawns one more  *)
(* server newb with a socket of its own; the client keeps the first one    *)
(* that answers.                                                           *)
(*                                                                         *)
(* Operators marked "fault" are not part of the model: each is a plausible *)
(* bug in the operator below it, and some property must notice the swap.   *)
(***************************************************************************)
EXTENDS Naturals, FiniteSets

CONSTANTS
  Client,         \* the client newb
  Servers,        \* the server newbs the acceptor can spawn: bounds Accept
  Acceptor,       \* the acceptor's socket, bound to "--port"
  Messages,       \* the option "-m"
  IdMod,          \* 2^16 in the code: width of the reliability layer's id_type
  IoErrorNodes    \* the newbs whose socket may report an error

ASSUME NamesAssumption ==
  /\ Client \notin Servers
  /\ Acceptor \notin Servers \cup {Client}
ASSUME MessagesAssumption == Messages \in Nat
ASSUME IdModAssumption == IdMod \in Nat \ {0}
ASSUME IoErrorAssumption == IoErrorNodes \subseteq Servers \cup {Client}

VARIABLES
  received,     \* state::received_messages of each newb
  idWrite,      \* reliability::id_write
  unacked,      \* reliability::unacked: the data packets kept for resending
  timers,       \* ids with a delayed retransmission message on its way
  endpoint,     \* udp_transport::endpoint of the client
  net,          \* datagrams written but not read yet: on the wire or queued
  mode,         \* life cycle of each newb
  open,         \* operations each newb is registered for at the multiplexer
  driver,       \* where caf_main of each process stands
  quits         \* quit_atom messages in the mailbox of each driver

vars == <<received, idWrite, unacked, timers, endpoint, net, mode, open,
          driver, quits>>

nodeVars == <<mode, open, driver, quits>>

Newb == {Client} \cup Servers
Process == {"client", "server"}
ProcessOf(n) == IF n = Client THEN "client" ELSE "server"

\* The client tests "received_messages >= messages" only after it has counted
\* an answer, so it never stops before the first one, not even for "-m 0".
Target == IF Messages = 0 THEN 1 ELSE Messages

Ids == 0 .. IdMod - 1
NextIdNoWrap(i) == i + 1            \* fault: id_write does not wrap around
NextId(i) == IF i = IdMod - 1 THEN 0 ELSE i + 1

Data(i, c) == [ack |-> FALSE, id |-> i, counter |-> c]
Ack(i) == [ack |-> TRUE, id |-> i, counter |-> 0]
Packet == [ack : BOOLEAN, id : Ids, counter : Nat]
Datagram == [src : Newb, dst : Newb \cup {Acceptor}, pkt : Packet]

\* A newb reads and writes from its start until its quit handler has run
\* ("closing": a quit_atom waits in its own mailbox), unless std::abort has
\* ended its process before.
Alive(n) == mode[n] \in {"running", "closing"} /\ driver[ProcessOf(n)] # "aborted"

-----------------------------------------------------------------------------
(***************************************************************************)
(* The reliability layer and the transport under it.                       *)
(***************************************************************************)

Kept(n, i) == \E p \in unacked[n] : p.id = i

\* What remains of unacked[n] when id i is acknowledged, and of timers[n] when
\* the packet of timeout i has been written again.
ClearedAll(n, i) == {}              \* fault: unacked.clear()
Cleared(n, i) == {p \in unacked[n] : p.id # i}

FiredOnce(n, i) == timers[n] \ {i}  \* fault: a retransmission is not re-armed
Fired(n, i) == IF Kept(n, i) THEN timers[n] ELSE timers[n] \ {i}

\* The datagrams that newb n gets onto the network by writing packets; the host
\* of a newb that has closed its socket discards them.
Written(n, to, packets) ==
  IF "write" \in open[n] /\ (to = Acceptor \/ mode[to] # "down")
    THEN {[src |-> n, dst |-> to, pkt |-> p] : p \in packets}
    ELSE {}

\* prepare_for_sending for counter c: arm the timeout, keep the packet
\* (emplace leaves an entry with the same id alone) and move on to the next id.
NotArmed(n) == timers[n]            \* fault: set_timeout is missing
Armed(n) == timers[n] \cup {idWrite[n]}

KeepForResend(n, c) ==
  /\ timers' = [timers EXCEPT ![n] = Armed(n)]
  /\ unacked' = [unacked EXCEPT ![n] =
       IF Kept(n, idWrite[n]) THEN @ ELSE @ \cup {Data(idWrite[n], c)}]
  /\ idWrite' = [idWrite EXCEPT ![n] = NextId(@)]

\* A socket delivers datagram d to newb n.  The client takes the address of
\* the first datagram it reads for its endpoint and from then on reads only
\* what comes from there; a server newb only ever hears of the client.
FromAnyone(d) == TRUE               \* fault: should_deliver ignores the sender
FromEndpoint(d) == endpoint \in {Acceptor, d.src}

Arrives(n, d) ==
  /\ Alive(n)
  /\ "read" \in open[n]
  /\ d.dst = n
  /\ n = Client => FromEndpoint(d)
  /\ endpoint' = IF n = Client THEN d.src ELSE endpoint

\* write_some looks the endpoint up when it writes: what the client had
\* queued for the acceptor may still go to the endpoint it has just learnt.
Redirected(n, d) ==
  IF n = Client /\ endpoint = Acceptor
    THEN {[e EXCEPT !.dst = d.src] : e \in {e \in net : e.dst = Acceptor}}
    ELSE {}

\* What is on its way once n has read d: d itself again when the network
\* duplicated it, and some of the redirected datagrams.
Remaining(n, d) ==
  {base \cup late : base \in {net, net \ {d}}, late \in SUBSET Redirected(n, d)}

\* reliability::read of an acknowledgement.  Its timeout stays armed.
ReadsAck(n, d) ==
  /\ d.pkt.ack
  /\ unacked' = [unacked EXCEPT ![n] = Cleared(n, d.pkt.id)]
  /\ net' \in Remaining(n, d)
  /\ UNCHANGED <<received, idWrite, timers>>

\* A data packet is acknowledged before the layers above look at it, however
\* often it arrives; packets are what the handler writes next.
AcksData(n, d, packets) ==
  /\ ~d.pkt.ack
  /\ \E rest \in Remaining(n, d) :
       net' = rest \cup Written(n, d.src, {Ack(d.pkt.id)} \cup packets)

-----------------------------------------------------------------------------
(***************************************************************************)
(* raw_server and raw_client.                                              *)
(***************************************************************************)

\* The counter a handler does not drop.
AnyCounter(n, c) == TRUE            \* fault: no counter is dropped
Expected(n, c) == c = received[n]

\* With the echo it counts now the client has got all messages.
OneEarly == received[Client] + 2 >= Messages    \* fault: off by one
GotAll == received[Client] + 1 >= Messages

\* Either handler drops a counter it was not expecting.
DropsCounter(n, d) ==
  /\ AcksData(n, d, {})
  /\ ~Expected(n, d.pkt.counter)
  /\ UNCHANGED <<received, idWrite, unacked, timers>>

\* raw_server sends the counter back and waits for the next one.
Echoes(s, d) ==
  /\ AcksData(s, d, {Data(idWrite[s], d.pkt.counter)})
  /\ Expected(s, d.pkt.counter)
  /\ received' = [received EXCEPT ![s] = @ + 1]
  /\ KeepForResend(s, d.pkt.counter)

\* raw_client counts the echo and sends the next counter ...
Continues(d) ==
  /\ AcksData(Client, d, {Data(idWrite[Client], d.pkt.counter + 1)})
  /\ Expected(Client, d.pkt.counter)
  /\ ~GotAll
  /\ received' = [received EXCEPT ![Client] = @ + 1]
  /\ KeepForResend(Client, d.pkt.counter + 1)
  /\ UNCHANGED nodeVars

\* ... or, when that was the last one, tells its driver to quit and itself to
\* quit 500 ms later.
Completes(d) ==
  /\ AcksData(Client, d, {})
  /\ Expected(Client, d.pkt.counter)
  /\ GotAll
  /\ received' = [received EXCEPT ![Client] = @ + 1]
  /\ quits' = [quits EXCEPT !["client"] = @ + 1]
  /\ mode' = [mode EXCEPT ![Client] = "closing"]
  /\ UNCHANGED <<idWrite, unacked, timers, open, driver>>

ServerReads(s, d) == ReadsAck(s, d) \/ DropsCounter(s, d) \/ Echoes(s, d)

ClientReceives(d) ==
  /\ Arrives(Client, d)
  /\ \/ (ReadsAck(Client, d) \/ DropsCounter(Client, d)) /\ UNCHANGED nodeVars
     \/ Continues(d)
     \/ Completes(d)

ServerReceives(s, d) ==
  /\ Arrives(s, d)
  /\ ServerReads(s, d)
  /\ UNCHANGED nodeVars

\* start_atom reaches the client: it sends counter 0.
Start ==
  /\ mode[Client] = "idle"
  /\ mode' = [mode EXCEPT ![Client] = "running"]
  /\ net' = net \cup Written(Client, endpoint, {Data(idWrite[Client], 0)})
  /\ KeepForResend(Client, 0)
  /\ UNCHANGED <<received, endpoint, open, driver, quits>>

\* newb_acceptor::read_event: whatever arrives at the acceptor's socket spawns
\* a server newb, which reads that datagram itself and answers from a socket
\* of its own.
Accept(s, d) ==
  /\ driver["server"] # "aborted"
  /\ mode[s] = "idle"
  /\ d.dst = Acceptor
  /\ mode' = [mode EXCEPT ![s] = "running"]
  /\ ServerReads(s, d)
  /\ UNCHANGED <<endpoint, open, driver, quits>>

\* reliability::timeout: write a packet that is still unacknowledged again and
\* re-arm, or do nothing when the acknowledgement came first.
TimeoutFires(n, i) ==
  /\ Alive(n)
  /\ i \in timers[n]
  /\ net' = net \cup Written(n, IF n = Client THEN endpoint ELSE Client,
                            {p \in unacked[n] : p.id = i})
  /\ timers' = [timers EXCEPT ![n] = Fired(n, i)]
  /\ UNCHANGED <<received, idWrite, unacked, endpoint, nodeVars>>

\* The network drops a datagram, the client's should_deliver rejects one of
\* another server, or nobody reads the socket.
Lose(d) ==
  /\ net' = net \ {d}
  /\ UNCHANGED <<received, idWrite, unacked, timers, endpoint, nodeVars>>

\* recvfrom or sendto fails: newb::io_error runs the io_error_msg handler,
\* which mails quit_atom to the newb itself, and gives the operation up.
IoError(n, op) ==
  /\ n \in IoErrorNodes
  /\ Alive(n)
  /\ op \in open[n]
  /\ open' = [open EXCEPT ![n] = @ \ {op}]
  /\ mode' = [mode EXCEPT ![n] = "closing"]
  /\ UNCHANGED <<received, idWrite, unacked, timers, endpoint, net, driver, quits>>

\* What the quit_atom handler of newb n leaves behind.
NoQuitSent(n) == quits              \* fault: the responder is not told
QuitSent(n) == [quits EXCEPT ![ProcessOf(n)] = @ + 1]
GoesOn(n) == [mode EXCEPT ![n] = "closing"]     \* fault: quit() is missing
Terminates(n) == [mode EXCEPT ![n] = "down"]

\* The quit_atom handler: the newb terminates and closes its socket, and its
\* responder, the driver, gets a quit_atom.
Quit(n) ==
  /\ mode[n] = "closing"
  /\ Alive(n)
  /\ mode' = Terminates(n)
  /\ open' = [open EXCEPT ![n] = {}]
  /\ quits' = QuitSent(n)
  /\ net' = {d \in net : d.dst # n}
  /\ UNCHANGED <<received, idWrite, unacked, timers, endpoint, driver>>

\* await_done takes one quit_atom.  The client's driver prints the duration
\* and waits for a second one; the server's stops its acceptor; both end in
\* std::abort.
DriverReceives(p) ==
  /\ quits[p] > 0
  /\ quits' = [quits EXCEPT ![p] = @ - 1]
  /\ \/ /\ p = "client" /\ driver[p] = "await"
        /\ driver' = [driver EXCEPT ![p] = "printed"]
     \/ /\ p = "client" /\ driver[p] = "printed"
        /\ driver' = [driver EXCEPT ![p] = "aborted"]
     \/ /\ p = "server" /\ driver[p] = "await"
        /\ driver' = [driver EXCEPT ![p] = "aborted"]
  /\ UNCHANGED <<received, idWrite, unacked, timers, endpoint, net, mode, open>>

-----------------------------------------------------------------------------
Init ==
  /\ received = [n \in Newb |-> 0]
  /\ idWrite = [n \in Newb |-> 0]
  /\ unacked = [n \in Newb |-> {}]
  /\ timers = [n \in Newb |-> {}]
  /\ endpoint = Acceptor
  /\ net = {}
  /\ mode = [n \in Newb |-> "idle"]
  /\ open = [n \in Newb |-> {"read", "write"}]
  /\ driver = [p \in Process |-> "await"]
  /\ quits = [p \in Process |-> 0]

Next ==
  \/ Start
  \/ \E d \in net :
       \/ ClientReceives(d)
       \/ \E s \in Servers : ServerReceives(s, d) \/ Accept(s, d)
       \/ Lose(d)
  \/ \E n \in Newb :
       \/ \E i \in timers[n] : TimeoutFires(n, i)
       \/ \E op \in {"read", "write"} : IoError(n, op)
       \/ Quit(n)
  \/ \E p \in Process : DriverReceives(p)

Spec == Init /\ [][Next]_vars

\* The scheduler hands every message of a mailbox to its actor.  (Each of these
\* steps happens at most a few times, so fairness for their disjunction is
\* fairness for each.)
HandlesMail ==
  \/ Start
  \/ \E n \in Newb : Quit(n)
  \/ \E p \in Process : DriverReceives(p)

\* Newb n reads the data packet it waits for.
ReadsExpected(n) ==
  \E d \in net :
    /\ ~d.pkt.ack
    /\ d.pkt.counter = received[n]
    /\ IF n = Client THEN ClientReceives(d) ELSE ServerReceives(n, d)

\* Armed timeouts fire.  A datagram that is written again and again gets
\* through in the end: netem drops a share of the packets, never all of them.
Fairness ==
  /\ WF_vars(HandlesMail)
  /\ \A n \in Newb, i \in Ids : WF_vars(TimeoutFires(n, i))
  /\ \A n \in Newb : SF_vars(ReadsExpected(n))
  /\ SF_vars(\E d \in net, s \in Servers : Accept(s, d))

FairSpec == Spec /\ Fairness

-----------------------------------------------------------------------------
(***************************************************************************)
(* Properties                                                              *)
(***************************************************************************)

\* Type invariant of the newbs, the network and the drivers.
TypeOK ==
  /\ received \in [Newb -> Nat]
  /\ idWrite \in [Newb -> Ids]
  /\ unacked \in [Newb -> SUBSET Packet]
  /\ timers \in [Newb -> SUBSET Ids]
  /\ endpoint \in Newb \cup {Acceptor}
  /\ net \in SUBSET Datagram
  /\ mode \in [Newb -> {"idle", "running", "closing", "down"}]
  /\ open \in [Newb -> SUBSET {"read", "write"}]
  /\ driver \in [Process -> {"await", "printed", "aborted"}]
  /\ quits \in [Process -> Nat]

\* Every answer the client counts is an answer to a counter it has sent, and a
\* server never echoes a counter the client has not reached: whatever the
\* network loses, repeats or reorders, the server the client talks to is at
\* most one message ahead of it and never behind, and a server newb spawned by
\* a repeated first ping never gets past that ping.
Lockstep ==
  /\ received[Client] <= Target
  /\ \A s \in Servers :
       /\ received[s] <= received[Client] + 1
       /\ s # endpoint => received[s] <= 1
       /\ s = endpoint => received[Client] <= received[s]

\* A packet kept for resending always has a timeout on its way: the retry of a
\* lost packet cannot get lost itself, neither when a late acknowledgement
\* leaves stale timeouts behind nor when ids wrap around.
RetransmitArmed ==
  \A n \in Newb : \A p \in unacked[n] : p.id \in timers[n]

\* The packet the exchange waits for is still kept by its sender, so that it is
\* written again until it arrives: the client's ping while its server has not
\* echoed it, the server's echo while the client has not counted it.
Retained ==
  LET holds(n, c) == \E p \in unacked[n] : p.counter = c /\ p.id \in timers[n]
  IN  /\ endpoint # Acceptor =>
            IF received[endpoint] = received[Client]
              THEN received[Client] < Target => holds(Client, received[Client])
              ELSE holds(endpoint, received[Client])
      /\ endpoint = Acceptor /\ mode[Client] # "idle" =>
            \/ holds(Client, 0)
            \/ \E s \in Servers : received[s] = 1 /\ holds(s, 0)

\* caf_main prints the duration at the first quit_atom, whichever handler sent it.
\* That is the duration of the whole exchange: the quit handler is never first but
\* for an I/O error, and then its newb has terminated.
PrintedWhenDone ==
  driver["client"] # "await" =>
    \/ received[Client] = Target
    \/ Client \in IoErrorNodes /\ mode[Client] = "down"

\* The client's driver never waits for a quit_atom nobody sends any more: once
\* the client newb is down, the ones still awaited are in its mailbox.
Awaited == IF driver["client"] = "await" THEN 2 ELSE 1

DriverCanFinish ==
  mode[Client] = "down" /\ driver["client"] # "aborted" => quits["client"] >= Awaited

\* No quit_atom is lost or sent twice on the client's side, whatever fails in
\* whatever order: the driver has taken, or has in its mailbox, exactly one for
\* a complete exchange and one for the newb that went down.
QuitsAddUp ==
  LET one(b) == IF b THEN 1 ELSE 0
      taken == CASE driver["client"] = "await" -> 0
                 [] driver["client"] = "printed" -> 1
                 [] driver["client"] = "aborted" -> 2
  IN  taken + quits["client"] =
        one(received[Client] = Target) + one(mode[Client] = "down")

\* The exchange ends in spite of loss: the client's process gets to its abort.
ExchangeEnds == <>(driver["client"] = "aborted")

\* The exchange implements PingPong: echoed is what the client's server newb
\* has echoed, or, before the client has heard of any of them, whether one of
\* them has echoed the first ping.
Echoed ==
  IF endpoint \in Servers THEN received[endpoint]
  ELSE IF \E s \in Servers : received[s] > 0 THEN 1 ELSE 0

Abstract == INSTANCE PingPong WITH echoed <- Echoed, counted <- received[Client]

ImplementsPingPong == Abstract!Spec
ImplementsFairPingPong == Abstract!FairSpec

(***************************************************************************)
(* The inductive invariant behind Lockstep and ImplementsPingPong.         *)
(***************************************************************************)

\* A data packet of the client carries a counter it has reached, one of a
\* server a counter it has echoed, and neither ever the number of messages.
Plausible(n, p) ==
  ~p.ack =>
    /\ p.counter < Target
    /\ n = Client => p.counter <= received[Client]
    /\ n # Client => p.counter < received[n]

\* What is on its way is plausible, the client only ever writes to the acceptor
\* (and nothing but the first ping) or to its endpoint, servers only to the
\* client, and who has written anything has echoed the first ping.
Sound(d) ==
  /\ Plausible(d.src, d.pkt)
  /\ d.src = Client => d.dst \in {Acceptor, endpoint}
  /\ d.src # Client => d.dst = Client /\ received[d.src] > 0
  /\ d.dst = Acceptor => ~d.pkt.ack /\ d.pkt.counter = 0

KeptInv == \A n \in Newb : \A p \in unacked[n] : ~p.ack /\ Plausible(n, p)

EndpointInv ==
  /\ endpoint # Client
  /\ endpoint = Acceptor => received[Client] = 0
  /\ endpoint # Acceptor => received[endpoint] > 0

\* Lockstep as an induction hypothesis: Lockstep alone says nothing of the
\* packets that the next step may deliver or write again.
LockstepInv ==
  /\ TypeOK
  /\ Lockstep
  /\ EndpointInv
  /\ KeptInv
  /\ \A d \in net : Sound(d)
=============================================================================
