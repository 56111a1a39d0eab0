---------------------------- MODULE PingPongTcp ----------------------------
(***************************************************************************)
(* pingpong_tcp with newbs: the client newb and the server newb exchange   *)
(* counters over tcp_protocol<raw>, and the two drivers (caf_main) wait    *)
(* for them.  TCP loses nothing, but a process may end at any time and a   *)
(* stream has no packets: what one side writes at once the other may read  *)
(* in pieces.  Neither handler looks at the counters, so the model counts  *)
(* bytes.                                                                  *)
(*                                                                         *)
(* Operators marked "fault" are not part of the model: each is a plausible *)
(* bug in the operator below it, and some property must notice the swap.   *)
(***************************************************************************)
EXTENDS Naturals

CONSTANTS
  Messages,       \* the option "-m"
  Size,           \* sizeof(uint32_t), the bytes of a counter
  MayCrash        \* the processes that may end prematurely

ASSUME MessagesAssumption == Messages \in Nat
ASSUME SizeAssumption == Size \in Nat \ {0}
ASSUME MayCrashAssumption == MayCrash \subseteq {"client", "server"}

VARIABLES
  whole,          \* whether every read returns all that was written
  received,       \* state::received_messages of the client
  responder,      \* whether state::responder of the client is set
  exact,          \* whether the client's "exactly(4)" is in effect
  stream,         \* bytes on their way to each process
  mode,           \* life cycle of the newb of each process
  driver,         \* where caf_main of each process stands
  quits           \* quit_atom messages in the mailbox of each driver

vars == <<whole, received, responder, exact, stream, mode, driver, quits>>

Process == {"client", "server"}
Other(p) == IF p = "client" THEN "server" ELSE "client"

Target == IF Messages = 0 THEN 1 ELSE Messages

-----------------------------------------------------------------------------
\* What a newb leaves that has ended after telling its driver to quit.
NoQuitSent(p) == quits              \* fault: the responder is not told
QuitSent(p) == [quits EXCEPT ![p] = @ + 1]

\* make_server: the server's acceptor listens from now on.
Listen ==
  /\ driver["server"] = "start"
  /\ driver' = [driver EXCEPT !["server"] = "await"]
  /\ UNCHANGED <<received, responder, exact, stream, mode, quits>>

\* spawn_client succeeds when somebody listens and fails otherwise.
Connect ==
  /\ driver["client"] = "start"
  /\ driver["server"] = "await"
  /\ driver' = [driver EXCEPT !["client"] = "await"]
  /\ mode' = [mode EXCEPT !["client"] = "connected"]
  /\ UNCHANGED <<received, responder, exact, stream, quits>>

ConnectFails ==
  /\ driver["client"] = "start"
  /\ driver["server"] # "await"
  /\ driver' = [driver EXCEPT !["client"] = "failed"]
  /\ UNCHANGED <<received, responder, exact, stream, mode, quits>>

\* newb_acceptor::read_event spawns the server newb.
Accept ==
  /\ driver["server"] = "await"
  /\ mode["server"] = "idle"
  /\ mode["client"] # "idle"
  /\ mode' = [mode EXCEPT !["server"] = "running"]
  /\ UNCHANGED <<received, responder, exact, stream, driver, quits>>

\* start_atom: raw_client learns its responder and writes the first counter.
Start ==
  /\ mode["client"] = "connected"
  /\ mode' = [mode EXCEPT !["client"] = "running"]
  /\ responder' = TRUE
  /\ stream' = [stream EXCEPT !["server"] = @ + Size]
  /\ UNCHANGED <<received, exact, driver, quits>>

-----------------------------------------------------------------------------
\* The sizes of the payload that the next read may deliver to the newb of p.
\* raw_server never configures its transport: anything will do.  raw_client asks
\* for exactly a counter, but the buffer of its first read is prepared before.
AtMost(n) == IF whole THEN {n} \ {0} ELSE 1 .. n
Exactly(n) == IF n >= Size THEN {Size} ELSE {}

ServerChunks == AtMost(stream["server"])
ClientChunks ==
  IF exact THEN Exactly(stream["client"]) ELSE AtMost(stream["client"])

\* raw_server answers every payload with a counter.
EchoesTwice(k) ==                   \* fault: the answer is written twice
  [stream EXCEPT !["server"] = @ - k, !["client"] = @ + Size + Size]
Echoes(k) == [stream EXCEPT !["server"] = @ - k, !["client"] = @ + Size]

ServerReads ==
  \E k \in ServerChunks :
    /\ mode["server"] = "running"
    /\ stream' = Echoes(k)
    /\ UNCHANGED <<received, responder, exact, mode, driver, quits>>

\* raw_client counts every payload and answers it, ...
OneLate == received >= Messages              \* fault: off by one
GotAll == received + 1 >= Messages

Continues(k) ==
  /\ ~GotAll
  /\ stream' = [stream EXCEPT !["client"] = @ - k, !["server"] = @ + Size]
  /\ UNCHANGED <<mode, quits>>

\* ... or ends and tells its driver.
Completes(k) ==
  /\ GotAll
  /\ stream' = [stream EXCEPT !["client"] = @ - k]
  /\ quits' = QuitSent("client")
  /\ mode' = [mode EXCEPT !["client"] = "down"]

ClientReads ==
  \E k \in ClientChunks :
    /\ mode["client"] = "running"
    /\ received' = received + 1
    /\ exact' = TRUE
    /\ Continues(k) \/ Completes(k)
    /\ UNCHANGED <<responder, driver>>

\* The other side has closed its socket, with everything it wrote read or, when
\* it left something unread itself, with a reset: recv or send fails, and the
\* io_error_msg handler ends the newb.  Its quit_atom gets nowhere when
\* raw_client has not yet learnt who its responder is.
IoError(p) ==
  /\ mode[p] \in {"connected", "running"}
  /\ mode[Other(p)] = "down"
  /\ stream[p] = 0 \/ stream[Other(p)] > 0
  /\ mode' = [mode EXCEPT ![p] = "down"]
  /\ quits' = IF p = "client" /\ ~responder THEN quits ELSE QuitSent(p)
  /\ UNCHANGED <<received, responder, exact, stream, driver>>

\* await_done takes a quit_atom.  The client's driver prints the duration, the
\* server's stops its acceptor; then caf_main returns.  "done" is the end of the
\* process as well: ~actor_system waits for newbs, but this one has quit.
DriverReceives(p) ==
  /\ driver[p] = "await"
  /\ quits[p] > 0
  /\ quits' = [quits EXCEPT ![p] = @ - 1]
  /\ driver' = [driver EXCEPT ![p] = "done"]
  /\ UNCHANGED <<received, responder, exact, stream, mode>>

\* A process is killed; its host closes its socket.
Crash(p) ==
  /\ p \in MayCrash
  /\ driver[p] = "await"
  /\ driver' = [driver EXCEPT ![p] = "crashed"]
  /\ mode' = [mode EXCEPT ![p] = "down"]
  /\ UNCHANGED <<received, responder, exact, stream, quits>>

-----------------------------------------------------------------------------
Init ==
  /\ whole \in BOOLEAN
  /\ received = 0
  /\ responder = FALSE
  /\ exact = FALSE
  /\ stream = [p \in Process |-> 0]
  /\ mode = [p \in Process |-> "idle"]
  /\ driver = [p \in Process |-> "start"]
  /\ quits = [p \in Process |-> 0]

Progress ==
  /\ UNCHANGED whole
  /\ \/ Listen
     \/ Connect
     \/ ConnectFails
     \/ Accept
     \/ Start
     \/ ServerReads
     \/ ClientReads
     \/ \E p \in Process : IoError(p) \/ DriverReceives(p)

Next == Progress \/ \E p \in Process : Crash(p) /\ UNCHANGED whole

Spec == Init /\ [][Next]_vars

\* Sockets that are ready are read and mail is handled; everything but a crash
\* happens only so often, so fairness for all of it is fairness for each.
FairSpec == Spec /\ WF_vars(Progress)

-----------------------------------------------------------------------------
(***************************************************************************)
(* Properties                                                              *)
(***************************************************************************)

\* Type invariant of the newbs, the connection and the drivers.
TypeOK ==
  /\ whole \in BOOLEAN
  /\ received \in 0 .. Target
  /\ responder \in BOOLEAN
  /\ exact \in BOOLEAN
  /\ stream \in [Process -> Nat]
  /\ mode \in [Process -> {"idle", "connected", "running", "down"}]
  /\ driver \in [Process -> {"start", "await", "failed", "done", "crashed"}]
  /\ quits \in [Process -> Nat]

\* Whichever of completion, end of stream and crash comes first, a newb tells its
\* driver exactly once that it has ended, and a driver returns only after its
\* newb.  The exceptions are a process that is gone and a client that ends before
\* start_atom told it who its driver is: that driver gets nothing.
QuitsAddUp ==
  \A p \in Process :
    driver[p] # "crashed" =>
      quits[p] + (IF driver[p] = "done" THEN 1 ELSE 0) =
        IF mode[p] = "down" /\ (p = "client" => responder) THEN 1 ELSE 0

\* Unless the server's process has gone, the duration caf_main prints is that of
\* "messages" answers; and while reads are whole these are the answers to all the
\* counters the client has written, none of which is left on its way.  (When they
\* are not, raw_server answers every piece of a counter and raw_client counts each
\* of these answers: it may then print with counters still on their way.)
PrintedWhenDone ==
  driver["client"] = "done" =>
    \/ driver["server"] = "crashed"
    \/ /\ received = Target
       /\ whole => \A p \in Process : stream[p] = 0

\* However the stream is cut up and whichever process ends first, both drivers
\* return: the server's once there is a connection, the client's in any case but
\* one, in which it waits for ever: its newb ended before start_atom told it whom
\* to tell.
Unannounced == mode["client"] = "down" /\ ~responder

BothEnd ==
  /\ driver["client"] = "await" ~>
       driver["client"] \in {"done", "crashed"} \/ Unannounced
  /\ mode["client"] = "connected" ~> driver["server"] \in {"done", "crashed"}

\* While reads are whole, pingpong_tcp implements PingPong, even if it is
\* interrupted: there is an echo per message the client has counted, and one
\* more while it is on its way.  (Nothing is claimed of reads that are not.)
Counted == IF whole THEN received ELSE 0
Echoed == IF stream["client"] > 0 /\ whole THEN received + 1 ELSE Counted

Abstract == INSTANCE PingPong WITH echoed <- Echoed, counted <- Counted

ImplementsPingPong == Abstract!Spec

(***************************************************************************)
(* The inductive invariant.                                                *)
(***************************************************************************)

\* While reads are whole one counter is on its way, and only while the client
\* waits for another one.
OneInFlight ==
  /\ stream["client"] \in {0, Size}
  /\ stream["server"] \in {0, Size}
  /\ stream["client"] = 0 \/ stream["server"] = 0
  /\ mode["client"] \in {"idle", "connected"} =>
       stream["client"] = 0 /\ stream["server"] = 0
  /\ stream["client"] > 0 \/ stream["server"] > 0 => received < Target

\* QuitsAddUp as an induction hypothesis: the newb of a client comes with its
\* connection, and while it runs it knows its responder and has not got all
\* messages.
TcpInv ==
  /\ TypeOK
  /\ QuitsAddUp
  /\ driver["client"] = "start" => mode["client"] = "idle"
  /\ mode["client"] = "running" => responder
  /\ mode["client"] # "down" => received < Target
  /\ whole => OneInFlight
=============================================================================
