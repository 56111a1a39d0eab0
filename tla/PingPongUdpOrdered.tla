------------------------- MODULE PingPongUdpOrdered -------------------------
(***************************************************************************)
(* pingpong_udp --ordered: the exchange of PingPongUdp with the ordering   *)
(* layer between the reliability layer and the handlers, and a client      *)
(* driver that aborts at the first quit_atom instead of the second one.    *)
(*                                                                         *)
(* The reliability layer and the network are taken as what they are for    *)
(* the layer above: any message that was ever written may arrive, again    *)
(* and again, until its writer is maxDelay messages further, and the last  *)
(* one arrives in the end because it is written again for ever.  "client"  *)
(* and "server" are the newb, and the driver, of each process; the server  *)
(* newb is the one the client has for its endpoint.                        *)
(*                                                                         *)
(* Operators marked "fault" are not part of the model: each is a plausible *)
(* bug in the operator below it.                                           *)
(***************************************************************************)
EXTENDS OrderingLayer, Sequences

CONSTANTS
  CounterMod,       \* 2^32 in the code: width of received_messages
  Options,          \* the values of "-m", a size_t
  Delays,           \* how many messages late a datagram may arrive
  MaxSent,          \* where the model stops an exchange that has no end
  LateOptions       \* the options with which it lets datagrams be late

ASSUME OrderedAssumption ==
  /\ CounterMod \in Nat /\ CounterMod > 2
  /\ Options \subseteq Nat
  /\ Delays \subseteq Nat
  /\ MaxSent \in Nat

VARIABLES
  messages,         \* the option "-m"
  maxDelay,         \* how late datagrams are this time
  newb,             \* the newb of each process with its ordering layer
  driver            \* where caf_main of each process stands

vars == <<messages, maxDelay, newb, driver>>

Process == {"client", "server"}
Other(n) == IF n = "client" THEN "server" ELSE "client"

Alive(n) == newb[n].mode \in {"running", "closing"} /\ driver[n] = "await"

-----------------------------------------------------------------------------
\* raw_server and raw_client, each for counter c.  (b is newb[n]; whatever it
\* writes gets the next sequence number.)
Inc(c) == (c + 1) % CounterMod

AnyCounter(b, c) == TRUE               \* fault: no counter is dropped
Expected(b, c) == c = b.received

SameCounter(c) == c                    \* fault: no "counter += 1"
NextCounter(c) == Inc(c)

OneEarly(b) == Inc(b.received) + 1 >= messages      \* fault: off by one
GotAll(b) == Inc(b.received) >= messages

Handle(n, b, c) ==
  LET counts == [b EXCEPT !.received = Inc(b.received)]
  IN  CASE ~Expected(b, c) -> b
        [] Expected(b, c) /\ n = "server" -> [counts EXCEPT !.sent = Append(@, c)]
        [] Expected(b, c) /\ n = "client" /\ ~GotAll(b) ->
             [counts EXCEPT !.sent = Append(@, NextCounter(c))]
        [] Expected(b, c) /\ n = "client" /\ GotAll(b) ->
             [counts EXCEPT !.told = @ + 1, !.mode = "closing"]

\* The ordering layer of b becomes l and hands up, of the counters it has, those
\* it no longer keeps: the ones before l.seqRead.
HandUp(n, b, counters, l) ==
  LET k == Cardinality(DOMAIN counters \ l.pending)
      run == [j \in 1 .. k |-> counters[Plus(l.seqRead, SeqMod - k + j - 1)]]
      handled[j \in 0 .. k] ==
        IF j = 0
          THEN [b EXCEPT !.layer = l, !.kept = [s \in l.pending |-> counters[s]]]
          ELSE Handle(n, handled[j - 1], run[j])
  IN  handled[k]

-----------------------------------------------------------------------------
\* start_atom reaches the client: it sends counter 0.
Start ==
  /\ newb["client"].mode = "idle"
  /\ newb' = [newb EXCEPT !["client"].mode = "running", !["client"].sent = <<0>>]
  /\ UNCHANGED driver

\* Message i of the other side arrives and the layer does not drop it.
Arrives(n, i) ==
  LET b == newb[n]
      s == (i - 1) % SeqMod
      counters == [t \in DOMAIN b.kept \cup {s} |->
                     IF t = s THEN newb[Other(n)].sent[i] ELSE b.kept[t]]
      armed == IF Keeps(b.layer, s) THEN b.timers \cup {s} ELSE b.timers
  IN  /\ Alive(n)
      /\ Len(b.sent) < MaxSent
      /\ Len(newb[Other(n)].sent) - i <= maxDelay
      /\ s = b.layer.seqRead \/ Keeps(b.layer, s)
      /\ \E l \in Reads(b.layer, s) :
           newb' = [newb EXCEPT ![n] = HandUp(n, [b EXCEPT !.timers = armed], counters, l)]
      /\ UNCHANGED driver

\* ordering::timeout: number s has waited long enough, and what is missing is
\* given up, unless it has arrived.
TimeoutFires(n, s) ==
  LET b == [newb[n] EXCEPT !.timers = @ \ {s}]
  IN  /\ Alive(n)
      /\ s \in newb[n].timers
      /\ Len(b.sent) < MaxSent
      /\ newb' = [newb EXCEPT ![n] =
           IF s \in b.layer.pending
             THEN HandUp(n, b, b.kept, DeliverPending(s, b.layer.pending))
             ELSE b]
      /\ UNCHANGED driver

\* recvfrom or sendto fails (which one is left open): the io_error_msg handler
\* mails quit_atom to the newb itself.
IoError(n) ==
  /\ Alive(n)
  /\ ~newb[n].failed
  /\ newb' = [newb EXCEPT ![n].failed = TRUE, ![n].mode = "closing"]
  /\ UNCHANGED driver

\* The quit_atom handler ends the newb and tells its driver.
StaysUp(b) == [b EXCEPT !.told = @ + 1]        \* fault: quit() is missing
NotTold(b) == [b EXCEPT !.mode = "down"]       \* fault: the driver is not told
Ended(b) == [b EXCEPT !.mode = "down", !.told = @ + 1]

Quit(n) ==
  /\ Alive(n)
  /\ newb[n].mode = "closing"
  /\ newb' = [newb EXCEPT ![n] = Ended(@)]
  /\ UNCHANGED driver

\* await_done takes a quit_atom, the client prints the duration, std::abort.
DriverReceives(n) ==
  /\ driver[n] = "await"
  /\ newb[n].told > 0
  /\ driver' = [driver EXCEPT ![n] = "aborted"]
  /\ UNCHANGED newb

-----------------------------------------------------------------------------
\* Sequence numbers are compared on a circle: a datagram is late when it is half
\* of it behind.
InTime == maxDelay < MaxDistance

Init ==
  /\ messages \in Options
  /\ maxDelay \in Delays
  /\ InTime \/ messages \in LateOptions
  /\ newb = [n \in Process |->
       [mode |-> IF n = "client" THEN "idle" ELSE "running",
        received |-> 0, sent |-> <<>>, told |-> 0, failed |-> FALSE,
        layer |-> InitLayer, kept |-> <<>>, timers |-> {}]]
  /\ driver = [n \in Process |-> "await"]

HandlesMail(n) == (n = "client" /\ Start) \/ Quit(n) \/ DriverReceives(n)

Receives(n) ==
  \/ \E i \in 1 .. Len(newb[Other(n)].sent) : Arrives(n, i)
  \/ \E s \in newb[n].timers : TimeoutFires(n, s)

Next ==
  /\ \E n \in Process : HandlesMail(n) \/ Receives(n) \/ IoError(n)
  /\ UNCHANGED <<messages, maxDelay>>

Spec == Init /\ [][Next]_vars

\* Mail is handled (there is little of it, so fairness for all of it is fairness
\* for each message).  The other side's last message arrives: it is written every
\* 40 ms until that is acknowledged.
LastArrives(n) ==
  LET i == Len(newb[Other(n)].sent)
  IN  i > 0 /\ Arrives(n, i) /\ UNCHANGED <<messages, maxDelay>>

FairSpec ==
  /\ Spec
  /\ WF_vars(UNCHANGED <<messages, maxDelay>> /\ \E n \in Process : HandlesMail(n))
  /\ \A n \in Process : WF_vars(LastArrives(n))

-----------------------------------------------------------------------------
(***************************************************************************)
(* Properties                                                              *)
(***************************************************************************)

\* Type invariant.
TypeOK ==
  /\ messages \in Options /\ maxDelay \in Delays
  /\ driver \in [Process -> {"await", "aborted"}]
  /\ \A n \in Process :
       /\ newb[n].mode \in {"idle", "running", "closing", "down"}
       /\ newb[n].received \in 0 .. CounterMod - 1
       /\ newb[n].sent \in Seq(0 .. CounterMod - 1)
       /\ newb[n].layer \in Layer
       /\ DOMAIN newb[n].kept = newb[n].layer.pending
       /\ newb[n].timers \subseteq SeqNr
       /\ newb[n].told \in 0 .. 2 /\ newb[n].failed \in BOOLEAN

\* How many answers the client has counted (received_messages wraps around): one
\* per message it has sent, but for the last one if the answer is still missing.
Counted ==
  LET b == newb["client"]
      n == Len(b.sent)
  IN  IF n = 0 THEN 0 ELSE IF b.received = Inc(b.sent[n]) THEN n ELSE n - 1

\* However late datagrams are, whatever the ordering layer keeps, gives up or
\* drops for it, and past the end of the 32-bit counter: what the handlers see
\* is an exchange as PingPong has it.
Abstract == INSTANCE PingPong
  WITH Target <- MaxSent + 1, echoed <- Len(newb["server"].sent), counted <- Counted

ImplementsPingPong == Abstract!Spec

\* While datagrams are in time the ordering layer never takes an old one for one
\* ahead of its turn, and layer and handler stay in step: a number the layer has
\* gone past is a counter the handler has answered.
InStep ==
  InTime =>
    /\ \A n \in Process : newb[n].layer.pending = {}
    /\ newb["server"].layer.seqRead = Len(newb["server"].sent) % SeqMod
    /\ newb["client"].layer.seqRead = Counted % SeqMod

\* A driver ends for a reason.  The client's has printed the duration of the
\* whole exchange (one message for "-m 0"; with 2^32 messages or more there is
\* no such end), unless its newb has failed.  The server's ends after a failure
\* only: the client has aborted, and the server waits until it is killed.
EndsForAReason ==
  /\ driver["client"] = "aborted" /\ ~newb["client"].failed =>
       Counted = IF messages = 0 THEN 1 ELSE messages
  /\ driver["server"] = "aborted" => newb["server"].failed

\* The client comes to its end as long as nothing fails and datagrams are in
\* time ...
ClientEnds ==
  InTime /\ messages < CounterMod =>
    <>(driver["client"] = "aborted" \/ \E n \in Process : newb[n].failed)

\* ... and a process ends when its newb has failed, on either side: with one
\* await_done less the client does not wait for a quit_atom nobody sends.
FailureEnds ==
  \A n \in Process : newb[n].failed ~> driver[n] = "aborted"
=============================================================================
