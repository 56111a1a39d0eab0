# Models of the newb benchmarks

The repository measures the "newb" network actors of a branch of CAF (the C++
actor framework, vendored as `caf.tar.gz`). Its programs are three ping-pong
programs, a set of micro benchmarks with built-in expectations, and the scripts
that run them under packet loss. This directory holds TLA+ models of the
programs, TLC configurations that check them, and TLAPS proofs about them.

Source paths are relative to the repository root; `pingpong_udp.cpp` and the
other programs are in `src/`. Parts of CAF are modelled as the programs use
them, read from the vendored archive; `PROJECT.json` marks those definitions as
external.

Contents: [Inventory](#inventory) · [Modules](#modules-and-how-they-correspond-to-the-code) ·
[Runs](#runs) · [Fairness](#fairness) · [Proofs](#proofs) · [Findings](#findings) ·
[Not modelled](#not-modelled) · [Plan](#plan)

## Inventory

### `pingpong_udp`: ping-pong over reliable UDP

*State.* Per newb: `received_messages`, `responder`; in CAF the `reliability`
layer's `id_write` (16 bit) and `unacked`, the timeouts at the actor clock, the
transport's `endpoint`, the operations registered at the multiplexer. Per
process: the point `caf_main` has reached and its mailbox.

*Operations.* Client: handlers for `start_atom`, `new_raw_msg`, timeouts,
`io_error_msg`, `quit_atom`. Server: the same without `start_atom`, spawned by
the acceptor for every datagram that reaches the acceptor's port. Drivers: spawn,
then `await_done` once (server) or twice (client), then `std::abort`. With `--ordered` an
`ordering` layer (`seq_read`, `pending`, timeouts of its own) sits between reliability
and the handlers, and the client awaits one `quit_atom` only.

*Interaction.* Datagrams between the newbs; `quit_atom` messages from a newb to
itself and to its driver; delayed messages for timeouts.

*Hard.* Loss, duplication and reordering; retransmissions that race with
acknowledgements; wrap-around of ids; several server newbs for one client; errors
of one operation while the other goes on; two handlers that send the driver the
messages it counts; with `--ordered`, datagrams so late that they look early, and
counters that wrap around.

*Correct when.* Client and server stay within one message of each other and count
each counter once; what the exchange waits for is still being resent; the exchange
ends; the driver prints when, and only when, the exchange is complete, and ends.

### `pingpong_tcp`: newbs over TCP

*State.* `received_messages`, `responder`, the read configuration, the bytes on
their way, the drivers and their mailboxes.

*Operations.* `make_server`, `spawn_client`, the acceptor, `start_atom`,
`new_raw_msg`, `io_error_msg`, `await_done`.

*Hard.* A stream has no message boundaries; the end of the stream is how the
server learns that the exchange is over, and it may come at any time, also before
the client newb knows its responder.

*Correct when.* Counters are read whole; each newb tells its driver exactly once
that it has ended; both processes end.

### `pingpong_tcp --traditional`: classic brokers

*State and operations.* As before with `tcp_client` and `tcp_server`; the server's
responder arrives as a message after the broker has begun to accept; a process
ends when `~actor_system` has seen all its actors end.

*Hard.* Both processes may wait for each other; a connection may be closed before
the broker knows its driver.

*Correct when.* As for newbs.

### `pp_tcp_pure`: blocking sockets, no actors

*State.* `received_messages` of the client, the connection the server serves, the
backlog, the bytes on their way.

*Operations.* connect, write, read, close; listen, accept, recv and send.

*Hard.* Short and empty reads; one server process for all clients.

*Correct when.* No read blocks for ever; clients are served one after the other
and all of them end; "got all messages!" means that.

### `layers`: ordering benchmarks

*State.* The script of instructions, `next_seq` (16 bit) and `skipped` of
`dummy_ordering_transport`; `seq_read` and `pending` of CAF's `ordering` layer; the
timeouts at a test clock.

*Operations.* One `read_event` per `msg_expected()` or `msg_unexpected()`, which
abort the process when the layer does not behave as scripted; `cancel_all` at the
end of an iteration.

*Hard.* Millions of iterations over a 16-bit number; the limit of five pending
messages; iterations must not influence each other.

*Correct when.* No iteration aborts, and each leaves the state in which it began.

### `layers`: sending and receiving benchmarks

*State.* Of `dummy_transport`: the offline buffer with the sizes of its chunks and their
sum, the send buffer with its sizes and what has been written, `writing`, the next
sequence number. Of the newb: the ordering layer, `stream_basp`'s `expecting_header`,
`dummy_state::received`.

*Operations.* A write handle (`wr_buf`, the message, `flush`), `write_event`; `read_event`
in a loop until the newb has received something.

*Hard.* The size of a chunk is recorded one call late, by `wr_buf` or by
`prepare_next_write`, while the other buffer is being sent; the read loop has no limit.

*Correct when.* Every message leaves as one packet, in order; the loop ends in every
iteration, over every protocol.

### The other parts

`evaluation/mininet.py` starts server and client under
netem, waits for the client and kills the server. The four `one_*` programs have
all their handlers commented out and an empty `caf_main`. The R and shell scripts
under `evaluation/` plot and merge text files.

## Modules and how they correspond to the code

| Module | Models | Composes |
| --- | --- | --- |
| `PingPong` | what all ping-pong programs promise | |
| `PingPongUdp` | `pingpong_udp.cpp` without `--ordered` | instantiates `PingPong` |
| `PingPongUdpOrdered` | `pingpong_udp.cpp --ordered` | extends `OrderingLayer`, instantiates `PingPong` |
| `PingPongTcp` | `pingpong_tcp.cpp`, newbs | instantiates `PingPong` |
| `PingPongTcpBrokers` | `pingpong_tcp.cpp --traditional` | instantiates `PingPong` |
| `PpTcpPure` | `pp_tcp_pure.cpp` | instantiates `PingPong` once per client |
| `OrderingLayer` | the receiving side of CAF's `ordering` | |
| `OrderingBenchmark` | the three `BM_receive_udp_raw_sequence_*` | extends `OrderingLayer` |
| `PacketQueue` | what a datagram transport promises | |
| `DummyTransport` | `BM_send`, `BM_receive_impl` over `dummy_transport` | extends `OrderingLayer`, instantiates `PacketQueue` |
| `MC...` | the instances TLC checks | extend the module of their name |
| `...Proofs` | theorems | extend the module of their name |

Operators marked `fault` are never used by a model. Each is a plausible bug in the
operator that follows it, and `PROJECT.json` ("mutants") says which property
notices when it is put in that operator's place.

**`PingPong`.** `echoed` and `counted` are the `received_messages` of server and
client. The server echoes when both are equal and the client wants more; the client
counts when the server is ahead. `Target` is `messages`, or 1 for `-m 0`, because
the handlers compare only after they have counted.

**`PingPongUdp`.** One action per handler: `Start`, `ClientReceives`,
`ServerReceives`, `TimeoutFires`, `IoError`, `Quit`, `DriverReceives`, and `Accept`
for the acceptor. A handler that reads a datagram runs through the layers as the
code does: an acknowledgement erases its packet from `unacked` and goes no further;
data is acknowledged first, then compared with `received_messages` and dropped,
echoed or counted, and what is written is kept for resending under the next id.
`net` is the set of datagrams on the wire or in a socket's queue: reading one may
leave it there (duplication), `Lose` takes it away, and a set has no order. The
payload is the counter.

**`PingPongUdpOrdered`.** The reliability layer and the network are taken as what they
are for the layer above: every message one side has ever written may arrive at the
other, again and again and in any order, until its writer is `maxDelay` messages
further, and the last one is written again until it arrives. `sent` is the sequence of
counters a newb has written; the index of a counter, modulo `SeqMod`, is its sequence
number. `Arrives` and `TimeoutFires` run through the ordering layer, and `HandUp` gives
what the layer delivers to the handler, in order, as `deliver_pending` does. The server
newb is the one the client has for its endpoint (`PingPongUdp` has the choice of it).
`received` wraps at `CounterMod`; "-m" is a `size_t` and does not.

**`PingPongTcp`.** The stream is a number of bytes per direction, because no handler
looks at the values of the counters. `whole`, chosen initially, says whether a read
returns all that was written; if it does not, the server may read any part
(`raw_server` never calls `configure_read`), the client any part until its first message
has been handled (its buffer for the first read is prepared before `start_atom` arrives)
and exactly a counter afterwards. `IoError` is the end of the stream or a reset.
`Crash` is the end of a process for any other reason, such as the `kill` of
`mininet.py`. A driver is `"done"` when its process ends: a newb that has told its driver
has quit before, so `~actor_system` has nothing left to wait for.

**`PingPongTcpBrokers`.** A scribe does not read before `configure_read`, so here
everything is read as whole counters, and nothing, not even the end of the stream,
is noticed before. `Introduced` is the message with the responder, `Exits` the end
of `~actor_system`.

**`PpTcpPure`.** Clients and server alternate between blocking calls; `pc` is the call a
client is at, `whole` is as in `PingPongTcp`. `Recv` and `Send` are the two halves of the
server's loop, `held` the bytes between them. `End` kills the server, whose loop has no end.
Its host resets the connections it has not accepted and one it has not read to the end;
only an accepted and fully read connection ends in order (`Closed`). There a read returns
what is left, then 0; on any other it fails (`Reset`).

**`OrderingLayer`, `OrderingBenchmark`.** The operators of `OrderingLayer` compute a layer's
state from the number it reads. Numbers spread over more than half the circle may each come
before the next all the way round, and `std::map` then begins with whichever it likes:
`Reads` is the set of all outcomes, one wherever the order is one. `Call` is one
`read_event`: the transport's `read_some` produces a number, the layer delivers, keeps or
drops it, and `phase` becomes `"aborted"` when that differs from what the loop's body
expects. `step` counts the calls of the body. The payload is left out.

**`PacketQueue`, `DummyTransport`.** A buffer is the number of its bytes. `Write` is the
life of a write handle and `WriteEvent` one `write_some` with its `prepare_next_write`;
the two alternate freely, where `BM_send` calls them in turn, as newbs use the same code
that way. `SetUpWrite` is the message `BM_receive_impl` writes before its loop and never
sends. `ReadEvent` is one pass of the read loop: `read_some`, the ordering layer, then
`raw`, `datagram_basp` or `stream_basp`. `Unsent`, the sizes of the chunks still to go,
implements the queue.

## Runs

Passing runs explore every reachable state of their instance and find no error;
`violation` runs check one property that the code does not have (see
[Findings](#findings)). Deadlock is not checked anywhere: all programs stop, or
wait for a client that never comes.

| Run | Bounds | Shows |
| --- | --- | --- |
| `udp_safety` | 3 messages, 2 server newbs, ids mod 1 | lockstep and refinement of `PingPong` under loss, duplication, reordering, a second server newb, and late acknowledgements that clear newer packets because every packet reuses an id |
| `udp_liveness` | 2 messages, 1 server newb, ids mod 2 | retention; the exchange ends; refinement of the fair `PingPong` |
| `udp_io_errors` | 2 messages, ids mod 1, both newbs may fail to read and to write | `quit_atom` messages add up, the first of them, from whichever handler, stands for a complete exchange or a terminated newb; armed timeouts although every packet reuses an id |
| `udp_error_hangs` | 2 messages, the client may fail (violation) | the driver waits for ever |
| `udp_ordered` | circle of 6 numbers, 1 pending, counters mod 12, `-m` 0, 4, 8 and 12, datagrams 1 or 2 messages late | `--ordered` past the end of numbers and counters: refinement, who ends and why |
| `tcp` | 5 messages of 3 bytes, whole reads and every way to cut up the stream, either process may end at any time | `quit_atom` messages add up, both drivers return (but for the one named by `Unannounced`), what is printed while the server stays is the time of `messages` answers and, with whole reads, of a complete exchange; refinement |
| `brokers` | 4 messages, either process may end at any time | refinement, the client's driver returns, the server follows its client (but for one named by `Unintroduced`) |
| `brokers_deadlock` | 2 messages (violation) | neither process ends |
| `pure` | 2 clients, 3 messages of 3 bytes, whole reads and every way to cut up the stream, the server may be killed | turns, "got all messages!", no read blocks for ever, every client ends, refinement |
| `pure_killed` | 1 client, 1 message, the server may be killed (violation) | "got all messages!" without them |
| `ordering_benchmarks` | full 16-bit circle, limit 5 | no iteration aborts, none leaves anything behind |
| `transport_benchmarks` | messages of 3 sizes, 5 unsent, circle of 256 numbers | one packet per message, in order; the read loop ends |

*Why these bounds are enough.* In the ping-pong programs one message is under way at a time
and the states before the first, between two, and after the last one differ: two messages
show all three. Two server newbs are the least number for which the client has one it must
not listen to. With ids mod 1 every packet reuses the id of the one before; larger widths
only make reuse rarer, and the theorems hold for all of them. `Retained`, and with it the
end of the exchange, needs ids that are not used twice, so `udp_liveness` has as many ids as
messages; what happens otherwise is under [Findings](#findings). Three bytes
cut into all possible pieces give every order of short reads between two sides. With a
circle of 6 numbers half of it is 2, so datagrams one message late are in time and those two
late are not; `-m 8` goes round the circle and ends; 12 counters and `-m 12` are the program
with 2^32 messages, `MaxSent` 14 goes
past both ends, and only `-m 4` is combined with datagrams that are too late
(`LateOptions`), which is long enough for a datagram half the circle old. Five unsent
packets fill both buffers of `DummyTransport` with more than two chunks each; its sequence
numbers have no history, so 256 of them wrap around as 65536 do, and its theorems hold for
all widths. The ordering benchmarks are checked at the code's own width and limit, once
round the circle and back to a state already seen; `SkippedBound` cuts the deque of skipped
numbers, which `read_some` only appends to in the benchmark without `recover` and never
reads there (`late` never holds more than one).

*Cuts.* `Servers` bounds the newbs an acceptor may spawn. `PpTcpPure` assumes no
more clients than the backlog of 5 holds. `MaxSent` and `MaxQueued` stop exchanges and
writers that would go on. The counters of the other ping-pong modules are as small as
`Messages`.

## Fairness

`PingPongUdp!FairSpec`: the scheduler handles mail and the actor clock delivers
timeouts (weak fairness). For the network: a newb that can read the packet it waits
for again and again does so in the end (strong fairness), and so does the acceptor.
netem drops each packet with a probability below one (`mininet.py`, `conf_host`), and
the reliability layer writes an unacknowledged packet again for ever, so an endless
series of losses has probability zero. Acknowledgements need no fairness.

`PingPongTcp!FairSpec` and `PingPongTcpBrokers!FairSpec`: weak fairness for everything but
crashes, as a whole. Every behaviour has finitely many such steps, so none of them is
left out for ever. TCP delivers, and the multiplexer reports what it delivers.

`PingPongUdpOrdered!FairSpec`: mail is handled, and the other side's last message arrives
(weak fairness for its arrival while it can arrive): the reliability layer writes it again
every 40 ms until it is acknowledged, and `PingPongUdp` shows what that takes. Timeouts of
the ordering layer and everything older need no fairness.

`DummyTransport!Spec`: the loops of the benchmarks call `write_event` and `read_event`
themselves.

`PpTcpPure!FairSpec`: weak fairness per process. A blocking call returns once it can.

## Proofs

All theorems hold for every value of the constants that the named assumptions of the
module allow: any number of messages, any pool of server newbs, any id width, any width of
the sequence number, any limit of the ordering layer, any set of newbs that fail or
processes that end. Some have a hypothesis of their own:

- `Client \notin IoErrorNodes` (`PingPongUdp`'s `DriverCanAlwaysFinish`): what happens
  otherwise is a finding.
- `Target <= IdMod` (`RetainedAlways`): the exchange uses no id of the reliability layer
  twice. `mininet.py` asks for 2000 messages and there are 65536 ids. Without it the
  property is false (TLC finds a counterexample with 3 messages and 2 ids): the network of
  the model may deliver an acknowledgement as late as it likes, and it then erases the
  packet that has its id now.
- `MaxPending = 5` (`NeverAbortsTheorem`, `FreshIterationTheorem`): the option that
  `layers.cpp:164` sets, and the limit for which the script of
  `BM_receive_udp_raw_sequence_dropped` is written.
- `\A m \in LateOptions : m < CounterMod` (`PingPongUdpOrderedProofs`): datagrams may
  be later than half the circle in exchanges of fewer than 2^32 messages only. A counter
  that is 2^32 messages old would be the expected one again.

| Module | Theorem | Says |
| --- | --- | --- |
| `PingPongUdpProofs` | `TypeCorrect` | `TypeOK` |
| | `RetransmitArmedAlways` | a kept packet has its timeout under way |
| | `LockstepInvAlways`, `LockstepAlways` | client and server stay in lockstep |
| | `Implementation` | `PingPongUdp` implements `PingPong` |
| | `QuitsAddUpAlways` | the client's driver gets its `quit_atom` messages, whatever fails |
| | `RetainedAlways` | the packet the exchange waits for is kept, with a timeout under way |
| | `PrintedOnlyWhenDone` | a duration is that of the whole exchange, or the client's newb has terminated after an error |
| | `DriverCanAlwaysFinish` | without errors at the client's socket the driver comes to its end |
| `PingPongUdpOrderedProofs` | `TypeCorrect` | `TypeOK` |
| | `InStepAlways` | layer and handlers stay in step while datagrams are in time |
| | `EveryEndHasAReason` | a driver ends after its last message or a failure |
| | `ImplementsAbstract` | `PingPongUdpOrdered` implements `PingPong` |
| `PingPongTcpProofs` | `TcpTypeCorrect`, `TcpInvAlways` | `TypeOK`, the inductive invariant |
| | `QuitsAlwaysAddUp` | each newb tells its driver once |
| | `TcpPrintedWhenDone` | while the server stays, a duration is that of `messages` answers, and with whole reads nothing is left on its way |
| | `TcpImplementation` | implements `PingPong` (whole reads) |
| `PingPongTcpBrokersProofs` | `BrokersTypeCorrect`, `BrokersInvAlways` | `TypeOK`, the inductive invariant |
| | `DriverCanAlwaysFinish` | the client's driver is never left without broker and message |
| | `BrokersImplementation` | implements `PingPong` |
| `PpTcpPureProofs` | `PureTypeCorrect` | `TypeOK` |
| | `NeverStuckAlways` | no read blocks for ever, however the streams are cut up |
| | `OneAtATimeAlways` | every connected client waits for its turn or has it, alone |
| | `GotAllAlwaysWhileServed` | "got all messages!" (whole reads, a server that stays) |
| | `PureImplementation` | each client's exchange implements `PingPong` (likewise) |
| `OrderingLayerProofs` | `ReadKeepsAhead` | what reading a number leaves behind is ahead, and bounded |
| `OrderingBenchmarkProofs` | `TypeCorrect`, `PendingIsAhead` | `TypeOK`; the layer keeps what is ahead of it |
| | `NeverAbortsTheorem` | no benchmark aborts |
| | `FreshIterationTheorem` | no iteration leaves anything behind |
| `DummyTransportProofs` | `TypeCorrect`, `InStepAlways` | `TypeOK`; the newb waits for what the transport makes up next |
| | `SizesAlwaysAddUp`, `NothingIsStranded` | the sizes on record cut up both buffers; nothing is left unsent unnoticed |
| | `RefinesPacketQueue` | the send half implements the queue of `PacketQueue` |

*Lockstep.* `Lockstep` speaks of the newbs only, so it says nothing of the packets the
next step may deliver. `LockstepInv` adds that everything on the wire (`Sound`) and
everything kept for resending (`KeptInv`) carries a counter its sender has reached, that
only the first ping can reach the acceptor, and that the endpoint a client has chosen
has echoed something (`EndpointInv`). With it a handler's comparison of the counter
with `received_messages` decides: an expected counter is the next one, everything else is a
copy. Ids play no role in it, which is why it holds for any width. `RetransmitArmed`
is inductive given `TypeOK`: a timeout leaves `timers` only when nothing is kept under
its id.

*Retained.* An acknowledgement erases what has its id, so one has to know what an id on
its way stands for. While no id is used twice, ids are counters (`NumberedInv`): the
server's next id is the number of counters it has echoed, the client's is one more than
what it has counted. Then a data packet has its counter for its id, and whoever acknowledges
an id has gone past it (`Proper`). So an acknowledgement never names the counter its sender
still waits for, and what is kept for that counter stays (`HeldInv`). Which of the two
sides holds it follows from `Lockstep`; `RetransmitArmed` adds the timeout.

*The ordering layer.* `OrderingLayerProofs` does the arithmetic of the circle once: `Plus`
and `IsGreater` on a window of half the circle, and the run of pending numbers that a layer
hands up. The length of that run is the least number that is not pending, so where others
use induction these proofs take a least element (`LeastNat`, from the well-foundedness of
finite subsets; the library's induction theorems are out of reach). `KeptAhead` survives any
number that arrives (`ReadKeepsAhead`). `IterationInv` of the benchmarks says how many
numbers have arrived since the script left one out (`Gap`), and that exactly those are
pending; that the sixth makes the layer give the missing one up, at the call where the script
expects it, is then arithmetic.

*Sending.* `SendInv` says that the sizes recorded in a buffer, the chunk being
recorded and what is written so far add up to the buffer (`Recorded`), for sums over
sequences given as folds: appending a size and taking the first one are the two lemmas
they need. `Unsent` then grows by one size in `Write`, loses its head in `WriteEvent`, or stays.

*`--ordered`.* The inductive invariant is `Exchange`: both sides have sent counters in
order, a handler has counted as many as it has answered, its layer keeps numbers that index
counters sent to it (`KeptInv`), and the drivers have been told what their newbs have done.
It rests on one observation: of all the counters a process may be handed, old and kept ones
included, none is the counter that the other side has not sent yet. Either datagrams are in
time, and the layer hands up the next number only, or the counters have not wrapped around,
and whatever was sent is smaller. So the exchange stays right even where the layer does not.

*Quits.* `QuitsAddUp` of `PingPongTcp` is inductive once one knows that a running client
newb has its responder and has not got all messages, and that there is no newb before
the connection; `TcpInv` says that and, for whole reads, that one counter is on its way
(`OneInFlight`), from which the refinement follows. (Where reads are split the mapping is
constant: nothing is claimed of them.) `BrokersInv` is the same for brokers. `QuitsAddUp` of
`PingPongUdp` is inductive given `LockstepInv`, which says that no counter the client still
accepts comes after its last one; that a newb ends only after its last message, unless its
socket failed (`EndsComplete`, in both modules), then gives what the drivers print.

*Clients of one server.* `NeverStuck` is inductive: what the server takes off one stream it
puts on the other. `OneAtATime` needs that a client in the backlog has connected, and only
once (`TurnInv`); "got all messages!" and the refinement need that a client waiting for an
answer has exactly one counter under way, any other client none (`WholeInv`).

*Refinements.* The initial states map to initial states, and under the inductive
invariant every step is an `Echo`, a `Count`, or leaves both counters alone.

*Only model-checked.* Every invariant that a passing run checks is a theorem. What remains
is liveness, which is out of the prover's reach: `ExchangeEnds`, `BothEnd`, `DriverReturns`,
`ServerFollows`, `EveryClientEnds`, `ClientEnds`, `FailureEnds`, `EveryLoopEnds`, and the
fairness of `ImplementsFairPingPong` and `ImplementsPacketQueue`, whose safety is proved
(`Implementation`, `RefinesPacketQueue`). `Retained` and `ExchangeEnds` where an id is used
twice are neither proved nor claimed.

## Findings

Each has a run that shows it:

- `udp_error_hangs`: after an I/O error the client's driver waits for a second
  `quit_atom` that nobody sends.
- `brokers_deadlock`: after a complete exchange neither process of the traditional
  variant ends.
- `pure_killed`: when the server is killed after it has accepted a client and read all that
  came in, the connection ends in order; the client counts the empty read as an answer and
  reports success.

The models also have the following in them, as the code does; no run asks about it:

- `-m 0` exchanges one message (`Target`).
- After 65536 packets ids are used again. An acknowledgement that is late enough is taken for
  that of the newer packet, which is then never written again: the exchange can stall, though
  it never goes wrong (`Lockstep` and `ImplementsPingPong` are checked with nothing but
  reused ids). `Retained` and `ExchangeEnds` are about exchanges within one round.
- After an I/O error of the UDP client, or when the TCP server has gone, the client's
  driver prints a duration like that of a complete exchange (the exceptions in
  `PrintedWhenDone` of both modules). With `--ordered` likewise; there the driver
  does end, because it awaits one `quit_atom` less (`FailureEnds`).
- With more than 2^32 messages `received_messages` wraps around and the exchange never ends
  (`ClientEnds` has that as a precondition).
- With `--ordered` a datagram that is half the circle of sequence numbers late is taken for
  an early one, and the layer may then pass over the number it waits for: the exchange can
  stall, though it never goes wrong (`ImplementsPingPong`). With 16-bit numbers and 40 ms
  timeouts that takes a very old datagram (`InTime` is the precondition of `InStep` and
  `ClientEnds`).
- With `--ordered` the server never ends of its own accord: the client aborts before the
  last echo is acknowledged, and `mininet.py` kills the server (`EndsForAReason`).
- A TCP connection that breaks before `start_atom` is handled leaves the client's driver
  waiting, because the newb does not know its responder yet (`Unannounced`, the exception in
  `BothEnd`). Likewise for a traditional server
  whose client goes away before the broker has been introduced to its driver
  (`Unintroduced`, the exception in `ServerFollows`).
- `raw_server` handles payloads shorter than a counter and answers each (`ServerChunks`), and
  `raw_client` counts each answer: the exchange still ends (`BothEnd`), but perhaps with
  counters still on their way (the second half of `PrintedWhenDone` is about whole reads).
  `pp_tcp_pure` counts every read likewise (`GotAllMessages`).

## Not modelled

- The sequence of steps in `mininet.py`: one after the other, with nothing kept from one run
  to the next. What it does to the programs is in their models (loss, kill, a client that is
  started before the server listens); that `p2.wait()` has no timeout is why the programs'
  own end matters.
- The write half of `dummy_ordering_transport`, a copy of `dummy_transport`'s that no
  benchmark calls.
- Under `PingPongUdpOrdered`, what `PingPongUdp` already has: acknowledgements, ids, further
  server newbs, and which of its operations fails in an I/O error.
- The server's call of `server->stop()` from the driver's thread while the multiplexer
  may use the acceptor: the acceptor takes no more part in the exchange, so the model
  lets the driver return.
- The cap of a first TCP read at 1024 bytes and the 256 bytes of `pp_tcp_pure`'s
  buffers: at most one counter is under way and never fills them.
- `SIGPIPE`, which ends a `pp_tcp_pure` client that writes to a reset connection: it is
  one way to fail.
- Failing `socket`, `bind`, `gethostbyname`, `make_server`, `spawn_server`: the process
  ends, or dereferences the error, before anything else happens.
- The `one_*` programs, which do nothing, and the plotting scripts.

## Plan

Modelled, in this order: `PingPong`, `PingPongUdp` (the program with the most behaviour),
`OrderingLayer` and `OrderingBenchmark`, `PingPongTcp`, `PpTcpPure`, `PingPongTcpBrokers`,
`DummyTransport`, `PingPongUdpOrdered`; then theorems for every invariant the runs check. What
remains is to prove the safety that the liveness properties rest on, the states in which
nobody has anything left to do:

1. `PingPongTcp` (`BothEnd`): while a process has not ended, a byte or the end of the
   stream is on its way, or a message is in a mailbox; a driver that waits for ever is one
   whose newb did not know its responder.
2. `PingPongTcpBrokers` (`ServerFollows`): likewise for a server that knows its driver.
3. `PpTcpPure` (`EveryClientEnds`): a client that waits for its turn waits for one that is
   being served.
4. `DummyTransport` (`EveryLoopEnds`): a measure that every pass of the read loop decreases.
