--------------------------- MODULE OrderingLayer ---------------------------
(***************************************************************************)
(* The receiving side of the policy ordering<Next> of the vendored CAF, as *)
(* layers.cpp and pingpong_udp.cpp stack it: sequence numbers are compared *)
(* on a circle, what arrives ahead of its turn is kept until the gap       *)
(* closes, and when too much is kept the gap is given up.                  *)
(***************************************************************************)
EXTENDS Naturals, FiniteSets

CONSTANTS
  SeqMod,         \* 2^16 in the code: width of sequence_type
  MaxPending      \* "middleman.max-pending-messages"

\* A missing number and as many as may wait for it lie within half a circle:
\* only there does the order of sequence numbers mean anything.
ASSUME SeqModAssumption == SeqMod \in Nat \ {0}
ASSUME MaxPendingAssumption == MaxPending \in Nat /\ 2 * MaxPending + 2 < SeqMod

SeqNr == 0 .. SeqMod - 1
PlusNoWrap(s, k) == s + k                   \* fault: wider than sequence_type
Plus(s, k) == (s + k) % SeqMod

MaxDistance == (SeqMod - 1) \div 2

IsLarger(lhs, rhs) == lhs > rhs             \* fault: no wrap-around
\* is_greater: lhs comes after rhs, the shorter way round.
IsGreater(lhs, rhs) ==
  \/ lhs > rhs /\ lhs - rhs <= MaxDistance
  \/ lhs < rhs /\ rhs - lhs > MaxDistance

\* The state of a layer: the number it reads next and those it keeps.
Layer == [seqRead : SeqNr, pending : SUBSET SeqNr]
InitLayer == [seqRead |-> 0, pending |-> {}]

\* pending.begin().  Numbers spread over more than half of the circle may come
\* after one another all round: std::map then begins with any of them.
Latest(pending) == {s \in pending : \A t \in pending \ {s} : IsGreater(s, t)}   \* fault: rbegin()
Earliest(pending) == {s \in pending : \A t \in pending \ {s} : IsGreater(t, s)}
First(pending) == IF Earliest(pending) = {} THEN pending ELSE Earliest(pending)

\* deliver_pending: hand over what is kept from number s on without a gap.
RunLength(s, pending) ==
  CHOOSE k \in 0 .. Cardinality(pending) :
    /\ Plus(s, k) \notin pending
    /\ \A j \in 0 .. k - 1 : Plus(s, j) \in pending

DeliverPending(s, pending) ==
  LET k == RunLength(s, pending)
  IN  [seqRead |-> Plus(s, k),
       pending |-> pending \ {Plus(s, j) : j \in 0 .. k - 1}]

\* add_pending: number s waits; one number too many and the gap is given up.
TooManyEarly(pending) == Cardinality(pending) >= MaxPending   \* fault: off by one
TooMany(pending) == Cardinality(pending) > MaxPending

AddPending(l, s) ==
  LET kept == l.pending \cup {s}
  IN  IF TooMany(kept)
        THEN {DeliverPending(f, kept) : f \in First(kept)}
        ELSE {[l EXCEPT !.pending = kept]}

\* ordering::read: what becomes of a layer, and what does where that is defined.
Reads(l, s) ==
  CASE s = l.seqRead -> {DeliverPending(Plus(s, 1), l.pending)}
    [] s # l.seqRead /\ IsGreater(s, l.seqRead) -> AddPending(l, s)
    [] OTHER -> {l}

ReadLayer(l, s) == CHOOSE r \in Reads(l, s) : TRUE

\* How the layer treats number s: whether add_pending arms a timeout for it, and
\* whether a message goes up to the handler.
Keeps(l, s) == s # l.seqRead /\ IsGreater(s, l.seqRead)
Delivers(l, s) == ReadLayer(l, s).seqRead # l.seqRead
=============================================================================
