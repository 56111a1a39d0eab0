---------------------- MODULE OrderingBenchmarkProofs ----------------------
(***************************************************************************)
(* The ordering benchmarks never abort, however wide the sequence number   *)
(* is and wherever it wraps around.                                        *)
(***************************************************************************)
EXTENDS OrderingBenchmark, OrderingLayerProofs

-----------------------------------------------------------------------------
(***************************************************************************)
(* The types, and what the layer keeps, for every limit of the layer.      *)
(*                                                                         *)
(* "recover" takes a number off the deque: there is always one, since the  *)
(* instructions and the calls of the loop advance together.                *)
(***************************************************************************)
TypeInv ==
  /\ TypeOK
  /\ KeptAhead(layer)
  /\ index = step
  /\ script = "late" => Len(skipped) = IF step = 3 THEN 1 ELSE 0

LEMMA FunctionIsSequence ==
  ASSUME NEW S, NEW n \in Nat, NEW f \in [1 .. n -> S]
  PROVE  f \in Seq(S) /\ Len(f) = n
OBVIOUS

LEMMA InstructionCount ==
  ASSUME NEW s \in Script
  PROVE  /\ Len(Instructions(s)) = 10
         /\ \A i \in 1 .. 10 :
              Instructions(s)[i] = CASE s # "inorder" /\ i = 2 -> "skip"
                                     [] s = "late" /\ i = 3 -> "recover"
                                     [] OTHER -> "next"
<1>1. CASE s = "inorder"
  BY <1>1 DEF Instructions
<1>2. CASE s = "dropped"
  <2> DEFINE f == [i \in 1 .. 10 |-> IF i = 2 THEN "skip" ELSE "next"]
  <2>1. f \in [1 .. 10 -> {"next", "skip", "recover"}] /\ 10 \in Nat
    OBVIOUS
  <2>2. Len(f) = 10
    <3> HIDE DEF f
    <3> QED  BY <2>1, FunctionIsSequence
  <2>3. Instructions(s) = f
    BY <1>2 DEF Instructions
  <2> QED  BY <1>2, <2>2, <2>3
<1>3. CASE s = "late"
  <2> DEFINE f == [i \in 1 .. 10 |-> IF i = 2 THEN "skip"
                                     ELSE IF i = 3 THEN "recover" ELSE "next"]
  <2>1. f \in [1 .. 10 -> {"next", "skip", "recover"}] /\ 10 \in Nat
    OBVIOUS
  <2>2. Len(f) = 10
    <3> HIDE DEF f
    <3> QED  BY <2>1, FunctionIsSequence
  <2>3. Instructions(s) = f
    BY <1>3 DEF Instructions
  <2> QED  BY <1>3, <2>2, <2>3
<1> QED  BY <1>1, <1>2, <1>3 DEF Script

LEMMA InitLayerKeptAhead == KeptAhead(InitLayer)
<1>1. 0 \in SeqNr
  BY SeqModAssumption DEF SeqNr
<1>2. Cardinality({}) = 0
  BY FS_EmptySet
<1> QED  BY <1>1, <1>2, MaxPendingAssumption DEF KeptAhead, InitLayer, Layer

LEMMA TypeInvInit == Init => TypeInv
<1>1. 0 \in SeqNr
  BY SeqModAssumption DEF SeqNr
<1> QED  BY <1>1, InitLayerKeptAhead DEF Init, TypeInv, TypeOK, KeptAhead

LEMMA TypeInvNext == TypeInv /\ [Next]_vars => TypeInv'
<1> SUFFICES ASSUME TypeInv, [Next]_vars
             PROVE  TypeInv'
  OBVIOUS
<1> USE DEF TypeInv
<1>1. CASE Call
  <2>1. /\ script \in Script /\ script' = script /\ step \in 1 .. 10 /\ index = step
        /\ nextSeq \in SeqNr /\ skipped \in Seq(SeqNr) /\ clock \in Nat
        /\ phase \in {"running", "stopped", "aborted"}
    BY <1>1 DEF Call, TypeOK
  <2>2. /\ Instruction = "skip" <=> script # "inorder" /\ step = 2
        /\ Instruction = "recover" <=> script = "late" /\ step = 3
        /\ Instruction = "next" <=> Instruction \notin {"skip", "recover"}
    BY <2>1, InstructionCount DEF Instruction, Script
  <2>3. Plus(nextSeq, 1) \in SeqNr
    BY <2>1, SeqModAssumption, PlusType
  <2>4. Instruction = "recover" => skipped # <<>> /\ Len(skipped) = 1
    BY <2>1, <2>2
  <2>5. Number \in SeqNr
    BY <2>1, <2>2, <2>3, <2>4 DEF Number
  <2>6. nextSeq' \in SeqNr
    <3>1. Plus(Number, 1) \in SeqNr
      BY <2>5, SeqModAssumption, PlusType
    <3> QED  BY <1>1, <2>1, <3>1 DEF Call, ReadSome
  <2>7. /\ skipped' \in Seq(SeqNr)
        /\ script = "late" => Len(skipped') = IF step = 2 THEN 1 ELSE 0
    <3>1. CASE Instruction = "next"
      BY <1>1, <2>1, <2>2, <3>1 DEF Call, ReadSome, Script
    <3>2. CASE Instruction = "recover"
      <4>1. skipped' = Tail(skipped)
        BY <1>1, <3>2 DEF Call, ReadSome
      <4> QED  BY <2>1, <2>2, <2>4, <3>2, <4>1
    <3>3. CASE Instruction = "skip"
      <4>1. skipped' = IF Len(skipped) < SkippedBound THEN Append(skipped, nextSeq)
                       ELSE skipped
        BY <1>1, <3>3 DEF Call, ReadSome
      <4>2. script = "late" => Len(skipped) = 0
        BY <2>1, <2>2, <3>3
      <4> QED  BY <2>1, <2>2, <3>3, <4>1, <4>2, SkippedBoundAssumption
    <3> QED  BY <2>2, <3>1, <3>2, <3>3
  <2>8. KeptAhead(layer') /\ layer' \in Layer
    <3>1. layer' = ReadLayer(layer, Number)
      BY <1>1 DEF Call
    <3>2. KeptAhead(ReadLayer(layer, Number))
      BY <2>5, ReadKeepsAhead
    <3> QED  BY <3>1, <3>2 DEF KeptAhead
  <2>9. /\ step' = IF step = 10 THEN 1 ELSE step + 1
        /\ index' = IF index = 10 THEN 1 ELSE index + 1
    BY <1>1, <2>1, InstructionCount DEF Call, ReadSome
  <2>10. clock' \in Nat /\ phase' \in {"running", "stopped", "aborted"}
    BY <1>1, <2>1 DEF Call, CancelAll
  <2>11. TypeOK' /\ KeptAhead(layer)'
    BY <2>1, <2>6, <2>7, <2>8, <2>9, <2>10 DEF TypeOK, KeptAhead
  <2> QED  BY <2>1, <2>7, <2>9, <2>11
<1>2. CASE Stop
  BY <1>2 DEF Stop, TypeOK, KeptAhead
<1>3. CASE UNCHANGED vars
  BY <1>3 DEF vars, TypeOK, KeptAhead
<1> QED  BY <1>1, <1>2, <1>3 DEF Next

\* Whatever MaxPending is and however wide the sequence number: all variables
\* have their types, so that the transport never takes a skipped number from an
\* empty deque.
THEOREM TypeCorrect == Spec => []TypeOK
<1>1. TypeInv => TypeOK
  BY DEF TypeInv
<1> QED  BY <1>1, TypeInvInit, TypeInvNext, PTL DEF Spec

\* All that the layer of the newb keeps is ahead of the number it waits for, on
\* the half circle where that means anything, and never more than MaxPending.
THEOREM PendingIsAhead == Spec => []PendingAhead
<1>1. TypeInv => PendingAhead
  BY DEF TypeInv, KeptAhead, PendingAhead
<1> QED  BY <1>1, TypeInvInit, TypeInvNext, PTL DEF Spec

-----------------------------------------------------------------------------
(***************************************************************************)
(* With five messages pending, what layers.cpp configures and the calls of *)
(* msg_unexpected in the second benchmark count on, no loop aborts.        *)
(***************************************************************************)

\* How many numbers the layer keeps when the loop comes to the call "step": those
\* that have arrived since one was left out.
Gap ==
  CASE script = "dropped" /\ step \in 3 .. 7 -> step - 2
    [] script = "late" /\ step = 3 -> 1
    [] OTHER -> 0

\* The inductive invariant: layer and transport are in step, call by call.
IterationInv ==
  /\ TypeInv
  /\ phase # "aborted"
  /\ layer = KeepsRun(layer.seqRead, Gap)
  /\ nextSeq = IF Gap = 0 THEN layer.seqRead ELSE Plus(layer.seqRead, Gap + 1)
  /\ script = "late" /\ step = 3 => skipped = <<layer.seqRead>>
  /\ step = 1 => clock = 0

LEMMA IterationInvInit == MaxPending = 5 /\ Init => IterationInv
<1> SUFFICES ASSUME Init
             PROVE  IterationInv
  OBVIOUS
<1>1. layer = KeepsRun(layer.seqRead, 0) /\ nextSeq = layer.seqRead
  BY RunEmpty DEF Init, InitLayer, KeepsRun
<1>2. Gap = 0 /\ step = 1 /\ clock = 0 /\ phase = "running"
  BY DEF Init, Gap
<1> QED  BY <1>1, <1>2, TypeInvInit DEF IterationInv

LEMMA IterationInvNext == MaxPending = 5 /\ IterationInv /\ [Next]_vars => IterationInv'
<1> SUFFICES ASSUME MaxPending = 5, IterationInv, [Next]_vars
             PROVE  IterationInv'
  OBVIOUS
<1> DEFINE r == layer.seqRead
           g == Gap
<1>1. TypeInv'
  BY TypeInvNext DEF IterationInv
<1>2. CASE Call
  <2>1. /\ script \in Script /\ script' = script /\ step \in 1 .. 10 /\ index = step
        /\ r \in SeqNr /\ nextSeq \in SeqNr
        /\ layer' = ReadLayer(layer, Number)
        /\ step' = IF step = 10 THEN 1 ELSE step + 1
    BY <1>2 DEF Call, IterationInv, TypeInv, TypeOK, Layer
  <2>2. /\ Instruction = "skip" <=> script # "inorder" /\ step = 2
        /\ Instruction = "recover" <=> script = "late" /\ step = 3
        /\ Instruction = "next" <=> Instruction \notin {"skip", "recover"}
    BY <2>1, InstructionCount DEF Instruction, Script
  <2>3. layer = KeepsRun(r, g)
    BY DEF IterationInv
  <2>4. /\ SeqMod \in Nat /\ SeqMod > 12 /\ g \in 0 .. MaxPending
        /\ \A k \in 0 .. 12 : k \in 0 .. SeqMod
    BY SeqModAssumption, MaxPendingAssumption, <2>1 DEF Gap
  <2>5. /\ Plus(r, 1) # r /\ Plus(r, 2) # r /\ Plus(r, 7) # r
        /\ \A k \in 0 .. 11 : Plus(Plus(r, k), 1) = Plus(r, k + 1)
    <3>1. \A k \in 1 .. 7 : Plus(r, k) # r
      BY <2>1, <2>4, PlusOther
    <3>2. \A k \in 0 .. 11 : k + 1 <= SeqMod /\ k \in Nat
      BY <2>4
    <3> QED  BY <2>1, <3>1, <3>2, PlusPlus
  \* A call after which the layer is what it should be, and that saw what the
  \* loop expected, keeps the invariant.
  <2>6. ASSUME AsExpected, NEW q \in SeqNr, layer' = KeepsRun(q, Gap'),
               nextSeq' = IF Gap' = 0 THEN q ELSE Plus(q, Gap' + 1),
               script = "late" /\ step' = 3 => skipped' = <<q>>
        PROVE  IterationInv'
    <3>1. phase' = phase /\ (step' = 1 => clock' = 0)
      BY <2>1, <2>6, <1>2 DEF Call, CancelAll
    <3>2. layer'.seqRead = q
      BY <2>6 DEF KeepsRun
    <3> QED  BY <1>1, <2>1, <2>6, <3>1, <3>2 DEF IterationInv
  \* In turn: nothing is kept.
  <2>7. CASE Instruction = "next" /\ g = 0
    <3>1. Number = r /\ nextSeq' = Plus(r, 1)
      BY <2>7, <1>2 DEF Number, IterationInv, Call, ReadSome
    <3>2. layer' = KeepsRun(Plus(r, 1), 0)
      BY <2>1, <2>3, <2>4, <2>7, <3>1, GapCloses
    <3>3. Delivers(layer, Number)
      <4>1. ReadLayer(layer, Number).seqRead = Plus(r, 1)
        BY <2>1, <3>2 DEF KeepsRun
      <4> QED  BY <2>5, <4>1 DEF Delivers
    <3>4. AsExpected
      BY <2>1, <2>2, <2>7, <3>3 DEF AsExpected, MsgExpected, Gap, Script
    <3>5. Gap' = 0 /\ ~ (script = "late" /\ step' = 3)
      BY <2>1, <2>2, <2>7 DEF Gap, Script
    <3>6. Plus(r, 1) \in SeqNr
      BY <2>1, <2>4, PlusType
    <3> QED  BY <2>6, <3>1, <3>2, <3>4, <3>5, <3>6
  \* A number is left out.
  <2>8. CASE Instruction = "skip"
    <3>1. g = 0 /\ nextSeq = r
      BY <2>2, <2>8 DEF Gap, IterationInv
    <3>2. Number = Plus(r, 1) /\ nextSeq' = Plus(r, 2)
      <4>1. Number = Plus(r, 1) /\ nextSeq' = Plus(Number, 1)
        BY <2>8, <1>2, <3>1 DEF Number, Call, ReadSome
      <4> QED  BY <2>5, <4>1
    <3>3. layer' = KeepsRun(r, 1)
      BY <2>1, <2>3, <2>4, <3>1, <3>2, RunKeepsGrowing
    <3>4. AsExpected
      <4>1. ~ Delivers(layer, Number)
        BY <2>1, <3>3 DEF Delivers, KeepsRun
      <4> QED  BY <2>1, <2>2, <2>8, <4>1 DEF AsExpected, MsgExpected, Script
    <3>5. Gap' = 1
      BY <2>1, <2>2, <2>8 DEF Gap, Script
    <3>6. script = "late" => skipped' = <<r>>
      <4>1. skipped' = IF Len(skipped) < SkippedBound THEN Append(skipped, nextSeq)
                       ELSE skipped
        BY <2>8, <1>2 DEF Call, ReadSome
      <4>2. script = "late" => Len(skipped) = 0 /\ skipped \in Seq(SeqNr)
        BY <2>2, <2>8 DEF IterationInv, TypeInv, TypeOK
      <4> QED  BY <3>1, <4>1, <4>2, SkippedBoundAssumption
    <3> QED  BY <2>1, <2>6, <3>2, <3>3, <3>4, <3>5, <3>6
  \* While it is missing what comes after it waits, ...
  <2>9. CASE Instruction = "next" /\ g # 0 /\ g < MaxPending
    <3>1. script = "dropped" /\ step \in 3 .. 6 /\ g = step - 2
      BY <2>1, <2>2, <2>9 DEF Gap
    <3>2. Number = Plus(r, g + 1) /\ nextSeq' = Plus(r, g + 2)
      <4>1. Number = Plus(r, g + 1) /\ nextSeq' = Plus(Number, 1)
        BY <2>9, <1>2 DEF Number, Call, ReadSome, IterationInv
      <4>2. g + 1 \in 0 .. 11 /\ (g + 1) + 1 = g + 2
        BY <3>1
      <4> QED  BY <2>5, <4>1, <4>2
    <3>3. layer' = KeepsRun(r, g + 1)
      BY <2>1, <2>3, <2>4, <2>9, <3>2, RunKeepsGrowing
    <3>4. AsExpected
      <4>1. ~ Delivers(layer, Number)
        BY <2>1, <3>3 DEF Delivers, KeepsRun
      <4> QED  BY <3>1, <4>1 DEF AsExpected, MsgExpected
    <3>5. Gap' = g + 1 /\ g + 1 # 0 /\ (g + 1) + 1 = g + 2
      BY <2>1, <3>1 DEF Gap
    <3> QED  BY <2>1, <2>6, <3>1, <3>2, <3>3, <3>4, <3>5
  \* ... until it is given up ...
  <2>10. CASE Instruction = "next" /\ g = MaxPending
    <3>1. script = "dropped" /\ step = 7 /\ g = 5
      BY <2>1, <2>2, <2>10 DEF Gap
    <3>2. Number = Plus(r, 6) /\ nextSeq' = Plus(r, 7)
      <4>1. Number = Plus(r, 6) /\ nextSeq' = Plus(Number, 1)
        BY <2>10, <1>2, <3>1 DEF Number, Call, ReadSome, IterationInv
      <4> QED  BY <2>5, <4>1
    <3>3. layer' = KeepsRun(Plus(r, 7), 0)
      <4>1. MaxPending + 1 = 6 /\ MaxPending + 2 = 7 /\ layer = KeepsRun(r, MaxPending)
        BY <2>3, <2>10
      <4> QED  BY <2>1, <3>2, <4>1, GapGivenUp
    <3>4. AsExpected
      <4>1. ReadLayer(layer, Number).seqRead = Plus(r, 7)
        BY <2>1, <3>3 DEF KeepsRun
      <4> QED  BY <2>5, <3>1, <4>1 DEF Delivers, AsExpected, MsgExpected
    <3>5. Gap' = 0
      BY <2>1, <3>1 DEF Gap
    <3>6. Plus(r, 7) \in SeqNr
      BY <2>1, <2>4, PlusType
    <3> QED  BY <2>1, <2>6, <3>1, <3>2, <3>3, <3>4, <3>5, <3>6
  \* ... or arrives late.
  <2>11. CASE Instruction = "recover"
    <3>1. script = "late" /\ step = 3 /\ g = 1 /\ skipped = <<r>> /\ nextSeq = Plus(r, 2)
      BY <2>2, <2>11 DEF Gap, IterationInv
    <3>2. Number = r /\ nextSeq' = Plus(r, 2)
      BY <2>11, <3>1, <1>2 DEF Number, Call, ReadSome
    <3>3. layer' = KeepsRun(Plus(r, 2), 0)
      BY <2>1, <2>3, <2>4, <3>1, <3>2, GapCloses
    <3>4. AsExpected
      <4>1. ReadLayer(layer, Number).seqRead = Plus(r, 2)
        BY <2>1, <3>3 DEF KeepsRun
      <4> QED  BY <2>5, <3>1, <4>1 DEF Delivers, AsExpected, MsgExpected
    <3>5. Gap' = 0 /\ step' # 3
      BY <2>1, <3>1 DEF Gap
    <3>6. Plus(r, 2) \in SeqNr
      BY <2>1, <2>4, PlusType
    <3> QED  BY <2>1, <2>6, <3>2, <3>3, <3>4, <3>5, <3>6
  <2>12. g \in Nat /\ g <= MaxPending
    BY <2>4, MaxPendingAssumption
  <2> QED  BY <2>2, <2>7, <2>8, <2>9, <2>10, <2>11, <2>12, MaxPendingAssumption
<1>3. CASE Stop
  <2>1. Gap' = Gap /\ layer' = layer /\ nextSeq' = nextSeq /\ skipped' = skipped
        /\ clock' = clock /\ step' = step /\ script' = script /\ phase' = "stopped"
    BY <1>3 DEF Stop, Gap
  <2> QED  BY <1>1, <2>1 DEF IterationInv
<1>4. CASE UNCHANGED vars
  <2>1. Gap' = Gap
    BY <1>4 DEF vars, Gap
  <2> QED  BY <1>1, <1>4, <2>1 DEF vars, IterationInv
<1> QED  BY <1>2, <1>3, <1>4 DEF Next

\* No benchmark aborts, in any of its iterations and for every width of the
\* sequence number: the calls of msg_expected and msg_unexpected are right about
\* what the ordering layer does wherever it wraps around.
THEOREM NeverAbortsTheorem ==
  ASSUME MaxPending = 5
  PROVE  Spec => []NeverAborts
<1>1. Init => IterationInv
  BY IterationInvInit
<1>2. IterationInv /\ [Next]_vars => IterationInv'
  BY IterationInvNext
<1>3. IterationInv => NeverAborts
  BY DEF IterationInv, NeverAborts
<1> QED  BY <1>1, <1>2, <1>3, PTL DEF Spec

\* Every iteration finds the layer in step with the transport, nothing kept, and
\* no timeout left over from the iteration before.
THEOREM FreshIterationTheorem ==
  ASSUME MaxPending = 5
  PROVE  Spec => []FreshIteration
<1>1. Init => IterationInv
  BY IterationInvInit
<1>2. IterationInv /\ [Next]_vars => IterationInv'
  BY IterationInvNext
<1>3. IterationInv => FreshIteration
  <2> SUFFICES ASSUME IterationInv, step = 1
               PROVE  /\ layer = [seqRead |-> nextSeq, pending |-> {}]
                      /\ index = 1 /\ clock = 0
    BY DEF FreshIteration
  <2>1. Gap = 0 /\ index = 1 /\ clock = 0
    BY DEF Gap, IterationInv, TypeInv
  <2>2. layer = KeepsRun(nextSeq, 0)
    BY <2>1 DEF IterationInv
  <2> QED  BY <2>1, <2>2, RunEmpty DEF KeepsRun
<1> QED  BY <1>1, <1>2, <1>3, PTL DEF Spec

=============================================================================
