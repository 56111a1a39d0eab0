------------------------- MODULE OrderingBenchmark -------------------------
(***************************************************************************)
(* The three ordering benchmarks of layers.cpp: a newb reads, one datagram *)
(* per read_event, what dummy_ordering_transport makes up from a cyclic    *)
(* list of instructions, and the loop aborts the process when a message    *)
(* reaches the newb that it did not expect, or fails to reach it.  The     *)
(* loop runs for millions of iterations, so that the 16-bit sequence       *)
(* number wraps around in the middle of every instruction sooner or later. *)
(***************************************************************************)
EXTENDS OrderingLayer, Sequences

CONSTANT
  SkippedBound    \* where the model cuts the deque of skipped numbers

ASSUME SkippedBoundAssumption == SkippedBound \in Nat \ {0}

VARIABLES
  script,         \* which of the three benchmarks runs
  index,          \* dummy_ordering_transport::index
  nextSeq,        \* dummy_ordering_transport::next_seq
  skipped,        \* dummy_ordering_transport::skipped
  layer,          \* the ordering layer of the newb
  clock,          \* number of timeouts scheduled at the actor clock
  step,           \* the call of the loop's body that comes next
  phase           \* of the process: "running", "stopped" or "aborted"

vars == <<script, index, nextSeq, skipped, layer, clock, step, phase>>

Script == {"inorder", "dropped", "late"}

\* What the transport is told to do, ...
Instructions(s) ==
  CASE s = "inorder" -> [i \in 1 .. 10 |-> "next"]
    [] s = "dropped" -> [i \in 1 .. 10 |-> IF i = 2 THEN "skip" ELSE "next"]
    [] s = "late" -> [i \in 1 .. 10 |-> IF i = 2 THEN "skip"
                                        ELSE IF i = 3 THEN "recover" ELSE "next"]

\* ... and which calls of the loop's body are msg_expected().
MsgExpected(s) ==
  CASE s = "inorder" -> 1 .. 10
    [] s = "dropped" -> {1} \cup 7 .. 10
    [] s = "late" -> {1} \cup 3 .. 10

-----------------------------------------------------------------------------
\* dummy_ordering_transport::read_some: the number it writes into the receive
\* buffer ("skip" leaves one out and falls through to "next"), ...
Instruction == Instructions(script)[index]

Number ==
  CASE Instruction = "next" -> nextSeq
    [] Instruction = "skip" -> Plus(nextSeq, 1)
    [] Instruction = "recover" -> Head(skipped)

\* ... and what it does to its own state.
ReadSome ==
  /\ \/ Instruction = "recover" /\ UNCHANGED nextSeq
     \/ Instruction # "recover" /\ nextSeq' = Plus(Number, 1)
  /\ \/ Instruction = "next" /\ UNCHANGED skipped
     \/ Instruction = "recover" /\ skipped' = Tail(skipped)
     \/ /\ Instruction = "skip"
        /\ skipped' = IF Len(skipped) < SkippedBound
                        THEN Append(skipped, nextSeq) ELSE skipped
  /\ index' = IF index = Len(Instructions(script)) THEN 1 ELSE index + 1

\* The clock when the body of the loop comes to its end.
NotCancelled(n) == n                        \* fault: no cancel_all
CancelAll(n) == 0

\* One msg_expected or msg_unexpected: read_event hands one datagram to the
\* ordering layer, and a surprise ends in std::abort.  The last call is followed
\* by cancel_all.
AsExpected == Delivers(layer, Number) <=> step \in MsgExpected(script)

Call ==
  LET scheduled == IF Keeps(layer, Number) THEN clock + 1 ELSE clock
  IN  /\ phase = "running"
      /\ ReadSome
      /\ layer' = ReadLayer(layer, Number)
      /\ step' = IF step = 10 THEN 1 ELSE step + 1
      /\ clock' = IF step = 10 /\ AsExpected THEN CancelAll(scheduled) ELSE scheduled
      /\ phase' = IF AsExpected THEN phase ELSE "aborted"
      /\ UNCHANGED script

\* The benchmark library has seen enough iterations: ref.stop().
Stop ==
  /\ phase = "running"
  /\ step = 1
  /\ phase' = "stopped"
  /\ UNCHANGED <<script, index, nextSeq, skipped, layer, clock, step>>

Init ==
  /\ script \in Script
  /\ index = 1
  /\ nextSeq = 0
  /\ skipped = <<>>
  /\ layer = InitLayer
  /\ clock = 0
  /\ step = 1
  /\ phase = "running"

Next == Call \/ Stop

Spec == Init /\ [][Next]_vars

-----------------------------------------------------------------------------
(***************************************************************************)
(* Properties                                                              *)
(***************************************************************************)

\* Type invariant.
TypeOK ==
  /\ script \in Script
  /\ index \in 1 .. 10
  /\ nextSeq \in SeqNr
  /\ skipped \in Seq(SeqNr)
  /\ layer \in Layer
  /\ clock \in Nat
  /\ step \in 1 .. 10
  /\ phase \in {"running", "stopped", "aborted"}

\* No benchmark aborts: in every iteration, wherever the sequence number wraps
\* around, exactly the calls of msg_expected see a message arrive.
NeverAborts == phase # "aborted"

\* What the layer keeps comes after the number it waits for, lies within the
\* half circle where that means anything, and is never more than MaxPending.
PendingAhead ==
  /\ \A s \in layer.pending : IsGreater(s, layer.seqRead)
  /\ Cardinality(layer.pending) <= MaxPending

\* Every iteration starts from where the one before started, only further round
\* the circle: nothing is kept, the layer waits for the number the transport
\* sends next, and no timeout is left at the clock.
FreshIteration ==
  step = 1 /\ phase # "aborted" =>
    /\ layer = [seqRead |-> nextSeq, pending |-> {}]
    /\ index = 1
    /\ clock = 0
=============================================================================
