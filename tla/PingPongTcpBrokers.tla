------------------------- MODULE PingPongTcpBrokers -------------------------
(***************************************************************************)
(* pingpong_tcp with the option "--traditional": the same exchange between *)
(* classic brokers.  A broker reads nothing before it has asked for        *)
(* exactly a counter, so the model counts whole counters.  A process ends  *)
(* when caf_main has returned and ~actor_system has seen every actor end,  *)
(* the broker among them.                                                  *)
(*                                                                         *)
(* Operators marked "fault" are not part of the model: each is a plausible *)
(* bug in the operator below it, and some property must notice the swap.   *)
(***************************************************************************)
EXTENDS Naturals

CONSTANTS
  Messages,       \* the option "-m"
  MayCrash        \* the processes that may end prematurely

ASSUME MessagesAssumption == Messages \in Nat
ASSUME MayCrashAssumption == MayCrash \subseteq {"client", "server"}

VARIABLES
  received,       \* state::received_messages of the client
  responder,      \* whether state::responder of each broker is set
  stream,         \* counters on their way to each process
  broker,         \* life cycle of the broker of each process
  driver,         \* where main of each process stands
  quits           \* quit_atom messages in the mailbox of each driver

vars == <<received, responder, stream, broker, driver, quits>>

Process == {"client", "server"}
Other(p) == IF p = "client" THEN "server" ELSE "client"

Target == IF Messages = 0 THEN 1 ELSE Messages

-----------------------------------------------------------------------------
\* A quit_atom for the driver of p.  It is lost when the broker does not know
\* the driver, and nobody reads it once the driver has returned.
NoQuitSent(p) == quits              \* fault: the responder is not told
QuitSent(p) ==
  IF responder[p] /\ driver[p] = "await"
    THEN [quits EXCEPT ![p] = @ + 1]
    ELSE quits

\* spawn_server: from now on the broker's doorman listens.
Listen ==
  /\ driver["server"] = "start"
  /\ driver' = [driver EXCEPT !["server"] = "await"]
  /\ broker' = [broker EXCEPT !["server"] = "listening"]
  /\ UNCHANGED <<received, responder, stream, quits>>

\* tcp_server handles the message with which its driver introduces itself.  The
\* driver sends it after spawn_server, when connections may come in already.
Introduced ==
  /\ driver["server"] = "await"
  /\ broker["server"] # "down"
  /\ ~responder["server"]
  /\ responder' = [responder EXCEPT !["server"] = TRUE]
  /\ UNCHANGED <<received, stream, broker, driver, quits>>

\* spawn_client; when nobody listens the driver dereferences the error it gets.
Connect ==
  /\ driver["client"] = "start"
  /\ broker["server"] = "listening"
  /\ driver' = [driver EXCEPT !["client"] = "await"]
  /\ broker' = [broker EXCEPT !["client"] = "connected"]
  /\ UNCHANGED <<received, responder, stream, quits>>

ConnectFails ==
  /\ driver["client"] = "start"
  /\ broker["server"] # "listening"
  /\ driver' = [driver EXCEPT !["client"] = "crashed"]
  /\ UNCHANGED <<received, responder, stream, broker, quits>>

\* new_connection_msg: tcp_server starts to read.
Accept ==
  /\ broker["server"] = "listening"
  /\ broker["client"] # "idle"
  /\ broker' = [broker EXCEPT !["server"] = "reading"]
  /\ UNCHANGED <<received, responder, stream, driver, quits>>

\* start_atom: tcp_client learns its responder, starts to read and writes.
Start ==
  /\ broker["client"] = "connected"
  /\ broker' = [broker EXCEPT !["client"] = "reading"]
  /\ responder' = [responder EXCEPT !["client"] = TRUE]
  /\ stream' = [stream EXCEPT !["server"] = @ + 1]
  /\ UNCHANGED <<received, driver, quits>>

-----------------------------------------------------------------------------
\* new_data_msg: tcp_server sends back what it has read.
EchoesTwice == [stream EXCEPT !["server"] = @ - 1, !["client"] = @ + 2]  \* fault
Echoes == [stream EXCEPT !["server"] = @ - 1, !["client"] = @ + 1]

ServerReads ==
  /\ broker["server"] = "reading"
  /\ stream["server"] > 0
  /\ stream' = Echoes
  /\ UNCHANGED <<received, responder, broker, driver, quits>>

\* new_data_msg: tcp_client counts and answers, or tells its driver.  It does
\* not quit, and its connection stays open.
GotAll == received + 1 >= Messages

ClientReads ==
  /\ broker["client"] = "reading"
  /\ stream["client"] > 0
  /\ received' = received + 1
  /\ \/ /\ ~GotAll
        /\ stream' = [stream EXCEPT !["client"] = @ - 1, !["server"] = @ + 1]
        /\ UNCHANGED quits
     \/ /\ GotAll
        /\ stream' = [stream EXCEPT !["client"] = @ - 1]
        /\ quits' = QuitSent("client")
  /\ UNCHANGED <<responder, broker, driver>>

\* connection_closed_msg: the other process has closed its socket, with
\* everything it wrote read, or with a reset when it left something unread.
ConnectionClosed(p) ==
  /\ broker[p] = "reading"
  /\ broker[Other(p)] = "down"
  /\ stream[p] = 0 \/ stream[Other(p)] > 0
  /\ broker' = [broker EXCEPT ![p] = "down"]
  /\ quits' = QuitSent(p)
  /\ UNCHANGED <<received, responder, stream, driver>>

\* await_done takes a quit_atom and caf_main returns; the client prints.
DriverReceives(p) ==
  /\ driver[p] = "await"
  /\ quits[p] > 0
  /\ quits' = [quits EXCEPT ![p] = @ - 1]
  /\ driver' = [driver EXCEPT ![p] = "returned"]
  /\ UNCHANGED <<received, responder, stream, broker>>

\* ~actor_system: await_all_actors_done.
Exits(p) ==
  /\ driver[p] = "returned"
  /\ broker[p] = "down"
  /\ driver' = [driver EXCEPT ![p] = "exited"]
  /\ UNCHANGED <<received, responder, stream, broker, quits>>

\* A process is killed; its host closes its socket.
Crash(p) ==
  /\ p \in MayCrash
  /\ driver[p] \in {"await", "returned"}
  /\ driver' = [driver EXCEPT ![p] = "crashed"]
  /\ broker' = [broker EXCEPT ![p] = "down"]
  /\ UNCHANGED <<received, responder, stream, quits>>

-----------------------------------------------------------------------------
Init ==
  /\ received = 0
  /\ responder = [p \in Process |-> FALSE]
  /\ stream = [p \in Process |-> 0]
  /\ broker = [p \in Process |-> "idle"]
  /\ driver = [p \in Process |-> "start"]
  /\ quits = [p \in Process |-> 0]

Progress ==
  \/ Listen
  \/ Introduced
  \/ Connect
  \/ ConnectFails
  \/ Accept
  \/ Start
  \/ ServerReads
  \/ ClientReads
  \/ \E p \in Process : ConnectionClosed(p) \/ DriverReceives(p) \/ Exits(p)

Next == Progress \/ \E p \in Process : Crash(p)

Spec == Init /\ [][Next]_vars

\* Sockets that are ready are read and mail is handled; everything but a crash
\* happens only so often, so fairness for all of it is fairness for each.
FairSpec == Spec /\ WF_vars(Progress)

-----------------------------------------------------------------------------
(***************************************************************************)
(* Properties                                                              *)
(***************************************************************************)

\* Type invariant of the brokers, the connection and the drivers.
TypeOK ==
  /\ received \in 0 .. Target
  /\ responder \in [Process -> BOOLEAN]
  /\ stream \in [Process -> 0 .. 1]
  /\ broker \in [Process -> {"idle", "listening", "connected", "reading", "down"}]
  /\ driver \in [Process -> {"start", "await", "returned", "exited", "crashed"}]
  /\ quits \in [Process -> Nat]

\* Once its broker is down the client's driver has a quit_atom to take: a broker
\* that does not know its driver does not read and cannot be told of the end.
DriverCanFinish ==
  broker["client"] = "down" /\ driver["client"] = "await" => quits["client"] > 0

\* The client's driver always returns: whether the exchange completes or the
\* server goes away, even before start_atom, its broker has a quit_atom to send.
DriverReturns ==
  driver["client"] = "await" ~> driver["client"] \in {"returned", "crashed"}

\* The server ends with its client: what evaluation/mininet.py achieves by killing
\* both.  In one case its driver waits for ever instead: the broker has seen its
\* client come and go before it was told who its driver is.
Unintroduced == broker["server"] = "down" /\ ~responder["server"]

ServerFollows ==
  broker["client"] = "down" /\ driver["server"] = "await" ~>
    driver["server"] \in {"exited", "crashed"} \/ Unintroduced

\* Once connected, both processes end, as they do with newbs.
BothEnd ==
  broker["client"] = "connected" ~>
    \A p \in Process : driver[p] \in {"exited", "crashed"}

\* With brokers, too, pingpong_tcp implements PingPong.
Abstract == INSTANCE PingPong
  WITH echoed <- received + stream["client"], counted <- received

ImplementsPingPong == Abstract!Spec

(***************************************************************************)
(* The inductive invariant.                                                *)
(***************************************************************************)

\* One counter is on its way, and only while the client waits for another one.
OneInFlight ==
  /\ stream["client"] = 0 \/ stream["server"] = 0
  /\ stream["client"] > 0 \/ stream["server"] > 0 => received < Target
  /\ broker["client"] \in {"idle", "connected"} =>
       received = 0 /\ stream["client"] = 0 /\ stream["server"] = 0

\* A client that waits has either its broker or a quit_atom to wait for.
BrokersInv ==
  /\ TypeOK
  /\ OneInFlight
  /\ DriverCanFinish
  /\ broker["client"] = "reading" => responder["client"]
  /\ driver["client"] = "start" => broker["client"] = "idle"
=============================================================================
