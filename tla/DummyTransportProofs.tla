----------------------- MODULE DummyTransportProofs ------------------------
(***************************************************************************)
(* Proofs about DummyTransport for every width of the sequence number,     *)
(* every limit of the ordering layer and every size of the messages: the   *)
(* read loop of BM_receive_impl never loses step with the transport it     *)
(* reads from, the sizes on record always cut up the buffers, and the      *)
(* buffers are a queue of packets.                                         *)
(***************************************************************************)
EXTENDS DummyTransport, OrderingLayerProofs

-----------------------------------------------------------------------------
(***************************************************************************)
(* Receiving.                                                              *)
(***************************************************************************)

\* A layer that keeps nothing delivers the number it waits for and moves on.
LEMMA NothingKept ==
  ASSUME NEW s \in SeqNr
  PROVE  /\ ReadLayer([seqRead |-> s, pending |-> {}], s)
              = [seqRead |-> Plus(s, 1), pending |-> {}]
         /\ Plus(s, 1) \in SeqNr
<1>1. 0 \in 0 .. MaxPending /\ 1 \in 0 .. SeqMod
  BY SeqModAssumption, MaxPendingAssumption
<1>2. \A r : KeepsRun(r, 0) = [seqRead |-> r, pending |-> {}]
  BY RunEmpty DEF KeepsRun
<1> QED  BY <1>1, <1>2, GapCloses, PlusType

\* The induction hypothesis: InStep says nothing of a number that is none, and
\* nothing of the layer where no protocol is ordered.
StepInv ==
  /\ bench \in Bench
  /\ next \in SeqNr
  /\ expectingHeader \in BOOLEAN
  /\ received \in BOOLEAN
  /\ layer \in Layer
  /\ InStep

LEMMA StepInvInit == Init => StepInv
<1>1. 0 \in SeqNr
  BY SeqModAssumption DEF SeqNr
<1>2. InitLayer = [seqRead |-> 0, pending |-> {}] /\ InitLayer \in Layer
  BY <1>1 DEF InitLayer, Layer
<1> QED  BY <1>1, <1>2 DEF Init, StepInv, InStep

LEMMA StepInvNext == StepInv /\ [Next]_vars => StepInv'
<1> SUFFICES ASSUME StepInv, [Next]_vars
             PROVE  StepInv'
  OBVIOUS
<1> USE DEF StepInv
<1>1. ASSUME NEW n \in Sizes, Write(n)
      PROVE  StepInv'
  BY <1>1 DEF Write, readHalf, InStep
<1>2. CASE WriteEvent
  BY <1>2 DEF WriteEvent, readHalf, InStep
<1>3. CASE ReadEvent
  <2>1. bench' = bench /\ bench.protocol.ordered \in BOOLEAN
    BY <1>3 DEF ReadEvent, Bench, Protocol
  <2>2. next' \in SeqNr
    BY <1>3, NothingKept DEF ReadEvent, NextSeq
  <2>3. (bench.protocol.ordered => layer = [seqRead |-> next, pending |-> {}])'
    BY <1>3, <2>1, NothingKept DEF ReadEvent, NextSeq, InStep
  <2>4. received' \in BOOLEAN /\ expectingHeader' \in BOOLEAN
    BY <1>3 DEF ReadEvent
  <2>5. received' => expectingHeader'
    <3>1. received' => HoldsMessage
      BY <1>3 DEF ReadEvent
    <3>2. HoldsMessage => ~HoldsHeader
      BY DEF HoldsMessage, HoldsHeader
    <3>3. expectingHeader' = IF Through /\ HoldsHeader THEN FALSE
                             ELSE expectingHeader \/ received'
      BY <1>3 DEF ReadEvent
    <3> QED  BY <3>1, <3>2, <3>3
  <2>6. layer' \in Layer
    <3>1. CASE bench.protocol.ordered
      BY <2>1, <2>2, <2>3, <3>1 DEF Layer
    <3>2. CASE ~ bench.protocol.ordered
      BY <1>3, <3>2 DEF ReadEvent
    <3> QED  BY <3>1, <3>2
  <2> QED  BY <2>1, <2>2, <2>3, <2>4, <2>5, <2>6 DEF InStep
<1>4. CASE NextIteration
  BY <1>4 DEF NextIteration, InStep
<1>5. CASE UNCHANGED vars
  BY <1>5 DEF vars, InStep
<1> QED  BY <1>1, <1>2, <1>3, <1>4, <1>5 DEF Next

\* Whatever the width of the sequence number, the newb of the receiving
\* benchmarks waits for what the transport makes up next: BM_receive_impl's
\* loop cannot end up with every packet dropped or kept.
THEOREM InStepAlways == Spec => []InStep
<1>1. Spec => []StepInv
  BY StepInvInit, StepInvNext, PTL DEF Spec
<1>2. StepInv => InStep
  BY DEF StepInv
<1> QED  BY <1>1, <1>2, PTL

-----------------------------------------------------------------------------
(***************************************************************************)
(* Sums.  FoldFunction(+, 0, f) adds up what f is on its domain, in an     *)
(* order it does not tell; these lemmas say that there is such a sum, and  *)
(* that it is the same in every order.                                     *)
(***************************************************************************)
Total(f, A) == FoldFunctionOnSet(+, 0, f, A)

Chosen(s) == CHOOSE x \in s : TRUE

\* The recursive function MapThenFoldSet defines.
AddsUp(f, A, g) ==
  g = [s \in SUBSET A |-> IF s = {} THEN 0 ELSE f[Chosen(s)] + g[s \ {Chosen(s)}]]

LEMMA ChosenIn ==
  ASSUME NEW s, s # {}
  PROVE  Chosen(s) \in s
BY DEF Chosen

\* Induction over the subsets of a finite set: there is a smallest counterexample.
LEMMA SmallestSubset ==
  ASSUME NEW A, IsFiniteSet(A), NEW C, C \subseteq SUBSET A, C # {}
  PROVE  \E T \in C : \A U \in C : U \subseteq T => U = T
<1>1. C \subseteq FiniteSubsetsOf(A)
  BY FS_FiniteSubsetsOfFinite
<1>2. PICK T \in C : \A U \in C : <<U, T>> \notin StrictSubsetOrdering(A)
  BY <1>1, FS_StrictSubsetOrderingWellFounded, WFMin
<1>3. ASSUME NEW U \in C, U \subseteq T, U # T
      PROVE  FALSE
  <2>1. <<U, T>> \in StrictSubsetOrdering(A)
    BY <1>3 DEF StrictSubsetOrdering
  <2> QED  BY <1>2, <2>1
<1> QED  BY <1>3

LEMMA SumsAgree ==
  ASSUME NEW A, IsFiniteSet(A), NEW B, NEW f, NEW h, NEW g, NEW k,
         AddsUp(f, A, g), AddsUp(h, B, k),
         NEW T, T \subseteq A, T \subseteq B, \A x \in T : f[x] = h[x]
  PROVE  g[T] = k[T]
<1> DEFINE C == {U \in SUBSET T : g[U] # k[U]}
<1> SUFFICES ASSUME g[T] # k[T]
             PROVE  FALSE
  OBVIOUS
<1>1. C # {} /\ C \subseteq SUBSET A
  OBVIOUS
<1>2. PICK U \in C : \A V \in C : V \subseteq U => V = U
  <2> HIDE DEF C
  <2> QED  BY <1>1, SmallestSubset
<1>3. CASE U = {}
  <2>1. g[U] = 0 /\ k[U] = 0
    BY <1>3 DEF AddsUp
  <2> QED  BY <2>1
<1>4. CASE U # {}
  <2> DEFINE c == Chosen(U)
  <2>1. c \in U /\ f[c] = h[c]
    BY <1>4, ChosenIn
  <2>2. U \ {c} \in SUBSET T /\ U \ {c} # U
    BY <2>1
  <2>3. g[U \ {c}] = k[U \ {c}]
    BY <1>2, <2>2
  <2>4. g[U] = f[c] + g[U \ {c}] /\ k[U] = h[c] + k[U \ {c}]
    <3>1. U \in SUBSET A /\ U \in SUBSET B
      BY <2>2
    <3> QED  BY <1>4, <3>1 DEF AddsUp
  <2> QED  BY <2>1, <2>3, <2>4
<1> QED  BY <1>3, <1>4

LEMMA SumExists ==
  ASSUME NEW A, IsFiniteSet(A), NEW f, \A x \in A : f[x] \in Nat
  PROVE  \E g \in [SUBSET A -> Nat] : AddsUp(f, A, g)
<1> DEFINE Sums(T) == {g \in [SUBSET T -> Nat] : AddsUp(f, T, g)}
           C == {T \in SUBSET A : Sums(T) = {}}
<1> SUFFICES ASSUME Sums(A) = {}
             PROVE  FALSE
  OBVIOUS
<1>1. C # {} /\ C \subseteq SUBSET A
  OBVIOUS
<1>2. PICK T \in C : \A U \in C : U \subseteq T => U = T
  <2> HIDE DEF C
  <2> QED  BY <1>1, SmallestSubset
<1>3. CASE T = {}
  <2> DEFINE g == [s \in SUBSET T |-> 0]
  <2>1. g \in [SUBSET T -> Nat] /\ AddsUp(f, T, g)
    BY <1>3 DEF AddsUp
  <2> QED  BY <1>2, <2>1
<1>4. CASE T # {}
  <2> DEFINE G(s) == CHOOSE h : h \in Sums(s)
             g == [s \in SUBSET T |->
                     IF s = T THEN f[Chosen(T)] + G(T \ {Chosen(T)})[T \ {Chosen(T)}]
                     ELSE G(s)[s]]
  <2>1. ASSUME NEW s \in SUBSET T, s # T
        PROVE  /\ AddsUp(f, s, G(s)) /\ G(s) \in [SUBSET s -> Nat]
               /\ g[s] = G(s)[s] /\ g[s] \in Nat
    <3>1. Sums(s) # {}
      BY <1>2, <2>1
    <3>2. G(s) \in Sums(s)
      <4> HIDE DEF Sums
      <4> QED  BY <3>1
    <3>3. AddsUp(f, s, G(s)) /\ G(s) \in [SUBSET s -> Nat]
      BY <3>2
    <3>4. g[s] = G(s)[s]
      <4> HIDE DEF G
      <4> QED  BY <2>1
    <3> HIDE DEF g, G, Sums
    <3> QED  BY <3>3, <3>4
  <2>2. Chosen(T) \in T /\ T \ {Chosen(T)} \in SUBSET T /\ T \ {Chosen(T)} # T
    BY <1>4, ChosenIn
  <2>3. g[T] = f[Chosen(T)] + g[T \ {Chosen(T)}] /\ g[T] \in Nat
    <3>1. g[T \ {Chosen(T)}] = G(T \ {Chosen(T)})[T \ {Chosen(T)}]
          /\ g[T \ {Chosen(T)}] \in Nat
      <4> HIDE DEF G, g
      <4> QED  BY <2>1, <2>2
    <3>2. g[T] = f[Chosen(T)] + G(T \ {Chosen(T)})[T \ {Chosen(T)}]
      <4> HIDE DEF G
      <4> QED  OBVIOUS
    <3>3. f[Chosen(T)] \in Nat
      BY <1>2, <2>2
    <3> HIDE DEF g, G
    <3> QED  BY <3>1, <3>2, <3>3
  <2>4. ASSUME NEW s \in SUBSET T, s # T
        PROVE  g[s] = IF s = {} THEN 0 ELSE f[Chosen(s)] + g[s \ {Chosen(s)}]
    <3> DEFINE c == Chosen(s)
    <3>1. AddsUp(f, s, G(s)) /\ g[s] = G(s)[s] /\ s \in SUBSET s
      <4> HIDE DEF G, g
      <4> QED  BY <2>1, <2>4
    <3>2. G(s)[s] = IF s = {} THEN 0 ELSE f[c] + G(s)[s \ {c}]
      <4> HIDE DEF G, g
      <4> QED  BY <3>1 DEF AddsUp
    <3>3. s # {} => g[s \ {c}] = G(s)[s \ {c}]
      <4> SUFFICES ASSUME s # {}
                   PROVE  g[s \ {c}] = G(s)[s \ {c}]
        OBVIOUS
      <4>1. c \in s /\ s \ {c} \in SUBSET T /\ s \ {c} # T /\ s \ {c} \in SUBSET s
        BY <2>4, ChosenIn
      <4>2. AddsUp(f, s \ {c}, G(s \ {c})) /\ g[s \ {c}] = G(s \ {c})[s \ {c}]
        <5> HIDE DEF G, g, c
        <5> QED  BY <2>1, <4>1
      <4>3. IsFiniteSet(s)
        BY FS_Subset
      <4>4. G(s)[s \ {c}] = G(s \ {c})[s \ {c}]
        <5> HIDE DEF G, g, c
        <5> QED  BY <3>1, <4>1, <4>2, <4>3, SumsAgree
      <4> HIDE DEF G, g, c
      <4> QED  BY <4>2, <4>4
    <3> HIDE DEF G, g, c
    <3> QED  BY <3>1, <3>2, <3>3 DEF c
  <2>5. AddsUp(f, T, g) /\ g \in [SUBSET T -> Nat]
    <3>1. DOMAIN g = SUBSET T /\ g = [s \in SUBSET T |-> g[s]]
      <4> HIDE DEF G
      <4> QED  OBVIOUS
    <3>2. \A s \in SUBSET T :
            /\ g[s] = IF s = {} THEN 0 ELSE f[Chosen(s)] + g[s \ {Chosen(s)}]
            /\ g[s] \in Nat
      <4> HIDE DEF G, g
      <4> QED  BY <1>4, <2>1, <2>3, <2>4
    <3> HIDE DEF G, g
    <3> QED  BY <3>1, <3>2 DEF AddsUp
  <2> HIDE DEF g, G
  <2> QED  BY <1>2, <2>5
<1> QED  BY <1>3, <1>4

\* The sum of nothing, and the sum of something.
LEMMA TotalIs ==
  ASSUME NEW A, IsFiniteSet(A), NEW f, \A x \in A : f[x] \in Nat
  PROVE  /\ Total(f, A) \in Nat
         /\ Total(f, {}) = 0
         /\ A # {} => Total(f, A) = f[Chosen(A)] + Total(f, A \ {Chosen(A)})
<1> DEFINE It(S) == CHOOSE g : AddsUp(f, S, g)
<1>1. ASSUME NEW S
      PROVE  Total(f, S) = It(S)[S]
  BY DEF Total, FoldFunctionOnSet, MapThenFoldSet, AddsUp, Chosen
<1>2. ASSUME NEW S \in SUBSET A
      PROVE  AddsUp(f, S, It(S)) /\ It(S)[S] \in Nat
  <2>1. IsFiniteSet(S)
    BY FS_Subset
  <2>2. PICK g \in [SUBSET S -> Nat] : AddsUp(f, S, g)
    BY <2>1, SumExists
  <2>3. AddsUp(f, S, It(S))
    BY <2>2
  <2>4. It(S)[S] = g[S]
    <3> HIDE DEF It
    <3> QED  BY <2>1, <2>2, <2>3, SumsAgree
  <2> HIDE DEF It
  <2> QED  BY <2>2, <2>3, <2>4
<1> HIDE DEF It
<1>3. Total(f, A) \in Nat
  BY <1>1, <1>2
<1>4. Total(f, {}) = 0
  BY <1>1, <1>2 DEF AddsUp
<1>5. ASSUME A # {}
      PROVE  Total(f, A) = f[Chosen(A)] + Total(f, A \ {Chosen(A)})
  <2> DEFINE B == A \ {Chosen(A)}
  <2>1. It(A)[A] = f[Chosen(A)] + It(A)[B]
    BY <1>2, <1>5 DEF AddsUp
  <2>2. B \in SUBSET A /\ B \subseteq B
    OBVIOUS
  <2> HIDE DEF B
  <2>3. It(A)[B] = It(B)[B]
    BY <1>2, <2>2, SumsAgree
  <2> QED  BY <1>1, <2>1, <2>3 DEF B
<1> QED  BY <1>3, <1>4, <1>5

\* The sum is the same whichever summand is taken first, ...
LEMMA TotalTakeAny ==
  ASSUME NEW A, IsFiniteSet(A), NEW f, \A x \in A : f[x] \in Nat, NEW a \in A
  PROVE  Total(f, A) = f[a] + Total(f, A \ {a})
<1> DEFINE Bad(T) == \E x \in T : Total(f, T) # f[x] + Total(f, T \ {x})
           C == {T \in SUBSET A : Bad(T)}
<1> SUFFICES ASSUME C # {}
             PROVE  FALSE
  OBVIOUS
<1>1. PICK T \in C : \A U \in C : U \subseteq T => U = T
  <2>1. C \subseteq SUBSET A
    OBVIOUS
  <2> HIDE DEF C
  <2> QED  BY <2>1, SmallestSubset
<1>2. PICK x \in T : Total(f, T) # f[x] + Total(f, T \ {x})
  OBVIOUS
<1> DEFINE c == Chosen(T)
<1>3. c \in T /\ T \in SUBSET A
  BY ChosenIn
<1>4. \A U \in SUBSET T : /\ U \in SUBSET A /\ IsFiniteSet(U)
                          /\ \A y \in U : f[y] \in Nat
  BY FS_Subset
<1>5. Total(f, T) = f[c] + Total(f, T \ {c})
  BY <1>3, <1>4, TotalIs
<1>6. x # c
  BY <1>2, <1>5
<1>7. ~ Bad(T \ {c}) /\ ~ Bad(T \ {x})
  <2>1. T \ {c} \in SUBSET A /\ T \ {x} \in SUBSET A /\ T \ {c} # T /\ T \ {x} # T
    BY <1>3
  <2> HIDE DEF Bad, c
  <2> QED  BY <1>1, <2>1
<1>8. /\ Total(f, T \ {c}) = f[x] + Total(f, (T \ {c}) \ {x})
      /\ Total(f, T \ {x}) = f[c] + Total(f, (T \ {x}) \ {c})
  BY <1>3, <1>6, <1>7
<1>9. (T \ {c}) \ {x} = (T \ {x}) \ {c}
  OBVIOUS
<1>10. /\ f[x] \in Nat /\ f[c] \in Nat
       /\ Total(f, (T \ {c}) \ {x}) \in Nat
  <2>1. (T \ {c}) \ {x} \in SUBSET T /\ T \in SUBSET T
    OBVIOUS
  <2> QED  BY <1>3, <1>4, <2>1, TotalIs
<1> HIDE DEF c, C
<1> QED  BY <1>2, <1>5, <1>8, <1>9, <1>10

\* ... and it depends on the summands only.
LEMMA TotalAgrees ==
  ASSUME NEW A, IsFiniteSet(A), NEW f, NEW h, \A x \in A : f[x] \in Nat /\ f[x] = h[x]
  PROVE  Total(f, A) = Total(h, A)
<1> DEFINE It(k) == CHOOSE g : AddsUp(k, A, g)
<1>1. Total(f, A) = It(f)[A] /\ Total(h, A) = It(h)[A]
  BY DEF Total, FoldFunctionOnSet, MapThenFoldSet, AddsUp, Chosen
<1>2. AddsUp(f, A, It(f)) /\ AddsUp(h, A, It(h))
  BY SumExists
<1> HIDE DEF It
<1> QED  BY <1>1, <1>2, SumsAgree

-----------------------------------------------------------------------------
(***************************************************************************)
(* The sum of a sequence: nothing, one more at the end, one less at the    *)
(* beginning.                                                              *)
(***************************************************************************)
Sum(s) == FoldFunction(+, 0, s)

LEMMA SumIsTotal ==
  ASSUME NEW s \in Seq(Nat)
  PROVE  /\ IsFiniteSet(1 .. Len(s)) /\ \A i \in 1 .. Len(s) : s[i] \in Nat
         /\ Sum(s) = Total(s, 1 .. Len(s)) /\ Sum(s) \in Nat
<1>1. IsFiniteSet(1 .. Len(s)) /\ DOMAIN s = 1 .. Len(s)
  BY FS_Interval
<1>2. \A i \in 1 .. Len(s) : s[i] \in Nat
  OBVIOUS
<1>3. Sum(s) = Total(s, 1 .. Len(s))
  BY <1>1 DEF Sum, FoldFunction, Total
<1> QED  BY <1>1, <1>2, <1>3, TotalIs

LEMMA SumEmpty == Sum(<<>>) = 0
<1>1. <<>> \in Seq(Nat) /\ Len(<<>>) = 0 /\ 1 .. 0 = {}
  OBVIOUS
<1>2. Sum(<<>>) = Total(<<>>, {})
  BY <1>1, SumIsTotal
<1>3. Total(<<>>, {}) = 0
  BY FS_EmptySet, TotalIs
<1> QED  BY <1>2, <1>3

LEMMA SumAppend ==
  ASSUME NEW s \in Seq(Nat), NEW n \in Nat
  PROVE  Sum(Append(s, n)) = Sum(s) + n
<1> DEFINE t == Append(s, n)
           m == Len(s)
<1>1. /\ t \in Seq(Nat) /\ Len(t) = m + 1 /\ m \in Nat /\ t[m + 1] = n
      /\ \A i \in 1 .. m : t[i] = s[i] /\ s[i] \in Nat
  OBVIOUS
<1>2. Total(t, 1 .. m + 1) = t[m + 1] + Total(t, (1 .. m + 1) \ {m + 1})
  <2> HIDE DEF t, m
  <2>1. m + 1 \in 1 .. m + 1
    BY <1>1
  <2> QED  BY <1>1, <2>1, SumIsTotal, TotalTakeAny
<1>3. (1 .. m + 1) \ {m + 1} = 1 .. m
  BY <1>1
<1>4. Total(s, 1 .. m) = Total(t, 1 .. m)
  <2> HIDE DEF t
  <2> QED  BY <1>1, SumIsTotal, TotalAgrees
<1>5. Sum(s) = Total(s, 1 .. m) /\ Sum(s) \in Nat
  BY SumIsTotal
<1>6. Sum(t) = Total(t, 1 .. m + 1)
  <2> HIDE DEF t
  <2> QED  BY <1>1, SumIsTotal
<1>7. Sum(t) = n + Sum(s)
  <2> HIDE DEF t
  <2> QED  BY <1>1, <1>2, <1>3, <1>4, <1>5, <1>6
<1> QED  BY <1>5, <1>7

LEMMA SumTail ==
  ASSUME NEW s \in Seq(Nat), s # <<>>
  PROVE  Sum(s) = Head(s) + Sum(Tail(s))
<1> DEFINE t == Tail(s)
           m == Len(s)
           C == {k \in 0 .. m - 1 : Total(s, 2 .. k + 1) # Total(t, 1 .. k)}
<1>1. /\ t \in Seq(Nat) /\ m \in Nat \ {0} /\ Len(t) = m - 1 /\ Head(s) = s[1]
      /\ \A i \in 1 .. m - 1 : t[i] = s[i + 1] /\ t[i] \in Nat
      /\ \A i \in 1 .. m : s[i] \in Nat
  OBVIOUS
<1>2. C = {}
  <2> SUFFICES ASSUME C # {}
               PROVE  FALSE
    OBVIOUS
  <2>1. PICK k \in C : \A j \in C : k <= j
    <3>1. C \subseteq Nat
      BY <1>1
    <3> HIDE DEF C
    <3> QED  BY <3>1, LeastNat
  <2>2. k \in Nat /\ k <= m - 1 /\ Total(s, 2 .. k + 1) # Total(t, 1 .. k)
    BY <1>1
  <2>3. CASE k = 0
    <3>1. 2 .. k + 1 = {} /\ 1 .. k = {}
      BY <2>3
    <3>2. Total(s, {}) = 0 /\ Total(t, {}) = 0
      BY FS_EmptySet, TotalIs
    <3> QED  BY <2>2, <3>1, <3>2
  <2>4. CASE k # 0
    <3>1. k - 1 \notin C /\ k - 1 \in 0 .. m - 1 /\ (k - 1) + 1 = k
      BY <1>1, <2>1, <2>2, <2>4
    <3>2. Total(s, 2 .. k) = Total(t, 1 .. k - 1)
      BY <3>1
    <3> HIDE DEF C, t, m
    <3>3. Total(s, 2 .. k + 1) = s[k + 1] + Total(s, (2 .. k + 1) \ {k + 1})
      <4>1. IsFiniteSet(2 .. k + 1)
        BY <2>2, FS_Interval
      <4>2. k + 1 \in 2 .. k + 1 /\ \A i \in 2 .. k + 1 : s[i] \in Nat
        BY <1>1, <2>2, <2>4
      <4> QED  BY <4>1, <4>2, TotalTakeAny
    <3>4. Total(t, 1 .. k) = t[k] + Total(t, (1 .. k) \ {k})
      <4>1. IsFiniteSet(1 .. k)
        BY <2>2, FS_Interval
      <4>2. k \in 1 .. k /\ \A i \in 1 .. k : t[i] \in Nat
        BY <1>1, <2>2, <2>4
      <4> QED  BY <4>1, <4>2, TotalTakeAny
    <3>5. (2 .. k + 1) \ {k + 1} = 2 .. k /\ (1 .. k) \ {k} = 1 .. k - 1
      BY <2>2
    <3>6. t[k] = s[k + 1]
      BY <1>1, <2>2, <2>4
    <3> QED  BY <2>2, <3>2, <3>3, <3>4, <3>5, <3>6
  <2> QED  BY <2>3, <2>4
<1>3. Total(s, 2 .. m) = Total(t, 1 .. m - 1)
  <2>1. m - 1 \in 0 .. m - 1 /\ (m - 1) + 1 = m
    BY <1>1
  <2> QED  BY <1>2, <2>1
<1>4. Total(s, 1 .. m) = s[1] + Total(s, (1 .. m) \ {1})
  <2>1. 1 \in 1 .. m
    BY <1>1
  <2> QED  BY <2>1, SumIsTotal, TotalTakeAny
<1>5. (1 .. m) \ {1} = 2 .. m
  BY <1>1
<1> HIDE DEF t
<1> QED  BY <1>1, <1>3, <1>4, <1>5, SumIsTotal DEF t

LEMMA SumNotZero ==
  ASSUME NEW s \in Seq(Nat \ {0}), s # <<>>
  PROVE  Sum(s) # 0
<1>1. /\ s \in Seq(Nat) /\ Tail(s) \in Seq(Nat) /\ Head(s) \in Nat \ {0}
  OBVIOUS
<1>2. Sum(s) = Head(s) + Sum(Tail(s))
  BY <1>1, SumTail
<1>3. Sum(Tail(s)) \in Nat
  BY <1>1, SumIsTotal
<1> QED  BY <1>1, <1>2, <1>3

-----------------------------------------------------------------------------
(***************************************************************************)
(* Sending.  The sizes on record are positive: a recorded size of 0 would  *)
(* be a packet that write_some never sends, since it stops at the end of   *)
(* the buffer.                                                             *)
(***************************************************************************)
Half == [buffer : Nat, sizes : Seq(Nat \ {0}), sum : Nat]

Recorded(o) ==
  /\ o \in Half
  /\ o.sum = Sum(o.sizes)
  /\ o.sum < o.buffer \/ o = Empty

SendInv ==
  /\ writing \in BOOLEAN
  /\ send \in Half
  /\ send.sum + Sum(send.sizes) = send.buffer
  /\ Recorded(offline)
  /\ NothingStranded

LEMMA EmptyRecorded == Empty \in Half /\ Recorded(Empty)
<1>1. <<>> \in Seq(Nat \ {0})
  OBVIOUS
<1>2. Empty \in Half /\ Empty.sum = 0 /\ Empty.sizes = <<>>
  BY <1>1 DEF Empty, Half
<1> QED  BY <1>2, SumEmpty DEF Recorded

\* The chunk written last gets a size.
LEMMA AllSizesAddUp ==
  ASSUME NEW o, Recorded(o), o.buffer > 0
  PROVE  /\ AllSizes(o) \in Seq(Nat \ {0}) /\ AllSizes(o) # <<>>
         /\ Sum(AllSizes(o)) = o.buffer
         /\ Head(AllSizes(o)) = IF o.sizes = <<>> THEN o.buffer - o.sum ELSE Head(o.sizes)
<1>1. /\ o.sum \in Nat /\ o.buffer \in Nat /\ o.sum < o.buffer
      /\ o.sizes \in Seq(Nat \ {0}) /\ o.sizes \in Seq(Nat)
      /\ o.sum = Sum(o.sizes)
  BY DEF Recorded, Half, Empty
<1>2. o.buffer - o.sum \in Nat \ {0} /\ o.buffer - o.sum \in Nat
  BY <1>1
<1>3. Sum(AllSizes(o)) = o.buffer
  <2>1. Sum(AllSizes(o)) = Sum(o.sizes) + (o.buffer - o.sum)
    BY <1>1, <1>2, SumAppend DEF AllSizes
  <2> QED  BY <1>1, <2>1
<1> DEFINE d == o.buffer - o.sum
<1>4. Append(o.sizes, d) \in Seq(Nat \ {0}) /\ Append(o.sizes, d) # <<>>
  <2> HIDE DEF d
  <2> QED  BY <1>1, <1>2 DEF d
<1>5. Head(Append(o.sizes, d)) = IF o.sizes = <<>> THEN d ELSE Head(o.sizes)
  <2> HIDE DEF d
  <2> QED  BY <1>1
<1> QED  BY <1>3, <1>4, <1>5 DEF AllSizes

\* The offline buffer o after a message of n bytes.
Written(o, n) == [WrBuf(o) EXCEPT !.buffer = @ + n]

LEMMA WrittenIsRecorded ==
  ASSUME NEW o, Recorded(o), NEW n \in Nat \ {0}
  PROVE  /\ Recorded(Written(o, n)) /\ Written(o, n).buffer > 0
         /\ Written(o, n).sizes = IF o.buffer = 0 THEN <<>> ELSE AllSizes(o)
         /\ Written(o, n).buffer - Written(o, n).sum = n
<1> DEFINE w == Written(o, n)
<1>1. CASE o.buffer = 0
  <2>1. o = Empty
    BY <1>1 DEF Recorded, Half
  <2>2. w = [buffer |-> n, sizes |-> <<>>, sum |-> 0]
    BY <2>1 DEF Written, WrBuf, Empty
  <2>3. w \in Half
    BY <2>2 DEF Half
  <2> HIDE DEF w
  <2> QED  BY <1>1, <2>2, <2>3, SumEmpty DEF Recorded, w
<1>2. CASE o.buffer # 0
  <2>1. o.buffer > 0 /\ o.buffer \in Nat /\ o \in Half
    BY <1>2 DEF Recorded, Half
  <2>2. w = [buffer |-> o.buffer + n, sizes |-> AllSizes(o), sum |-> o.buffer]
    <3>1. WrBuf(o) = [buffer |-> o.buffer, sizes |-> AllSizes(o), sum |-> o.buffer]
      BY <1>2, <2>1 DEF WrBuf, AllSizes, Half
    <3> QED  BY <3>1 DEF Written
  <2>3. AllSizes(o) \in Seq(Nat \ {0}) /\ Sum(AllSizes(o)) = o.buffer
    BY <2>1, AllSizesAddUp
  <2>4. w \in Half
    BY <2>1, <2>2, <2>3 DEF Half
  <2> HIDE DEF w
  <2> QED  BY <1>2, <2>1, <2>2, <2>3, <2>4 DEF Recorded, w
<1> QED  BY <1>1, <1>2

LEMMA PrepareNextWriteAddsUp ==
  ASSUME NEW o, Recorded(o), PrepareNextWrite(o)
  PROVE  SendInv'
<1>1. CASE o.buffer = 0
  <2>1. o = Empty
    BY <1>1 DEF Recorded, Half
  <2>2. writing' = FALSE /\ send' = Empty /\ offline' = Empty
    BY <1>1, <2>1 DEF PrepareNextWrite
  <2>3. /\ Empty \in Half /\ Recorded(Empty)
        /\ Empty.sum + Sum(Empty.sizes) = Empty.buffer
        /\ Empty.sizes = <<>> /\ Empty.buffer = 0
    BY EmptyRecorded, SumEmpty DEF Empty
  <2>4. /\ send' \in Half /\ send'.sum + Sum(send'.sizes) = send'.buffer
        /\ writing' \in BOOLEAN /\ Recorded(offline')
    BY <2>2, <2>3
  <2>5. NothingStranded'
    BY <2>2, <2>3 DEF NothingStranded
  <2> QED  BY <2>4, <2>5 DEF SendInv, Recorded
<1>2. CASE o.buffer > 0
  <2> DEFINE all == AllSizes(o)
  <2>1. writing' = TRUE /\ send' = [buffer |-> o.buffer, sizes |-> all, sum |-> 0]
        /\ offline' = Empty
    BY <1>2 DEF PrepareNextWrite, Reset, Recorded, Half
  <2>2. all \in Seq(Nat \ {0}) /\ all # <<>> /\ Sum(all) = o.buffer /\ o.buffer \in Nat
    BY <1>2, AllSizesAddUp DEF Recorded, Half
  <2>3. Recorded(Empty) /\ Empty.buffer = 0
    BY EmptyRecorded DEF Empty
  <2> HIDE DEF all
  <2>4. send' \in Half /\ send'.sum + Sum(send'.sizes) = send'.buffer /\ send'.sizes # <<>>
    BY <2>1, <2>2 DEF Half
  <2> QED  BY <2>1, <2>3, <2>4 DEF SendInv, NothingStranded, Recorded
<1> QED  BY <1>1, <1>2 DEF PrepareNextWrite

LEMMA SendInvInit == Init => SendInv
<1> SUFFICES ASSUME Init
             PROVE  SendInv
  OBVIOUS
<1>1. /\ Empty \in Half /\ Recorded(Empty)
      /\ Empty.sum + Sum(Empty.sizes) = Empty.buffer
      /\ Empty.sizes = <<>> /\ Empty.buffer = 0
  BY EmptyRecorded, SumEmpty DEF Empty
<1>2. Recorded(offline) /\ ~ (offline.buffer > 0)
  BY <1>1 DEF Init
<1>3. CASE NothingWritten
  <2>1. writing = FALSE /\ send = Empty /\ send.sizes = <<>>
    BY <1>1, <1>3 DEF NothingWritten
  <2>2. NothingStranded
    BY <1>2, <2>1, Zenon DEF NothingStranded
  <2> QED  BY <1>1, <1>2, <2>1, <2>2 DEF SendInv
<1>4. ASSUME NEW n \in Sizes, SetUpWrite(n)
      PROVE  SendInv
  <2>1. n \in Nat \ {0} /\ <<n>> \in Seq(Nat \ {0}) /\ <<n>> # <<>>
    BY SizesAssumption
  <2>2. Sum(<<n>>) = n
    <3>1. <<>> \in Seq(Nat) /\ Append(<<>>, n) = <<n>> /\ n \in Nat /\ 0 + n = n
      BY <2>1
    <3>2. Sum(Append(<<>>, n)) = Sum(<<>>) + n
      BY <3>1, SumAppend
    <3>3. Sum(<<n>>) = Sum(<<>>) + n
      BY <3>1, <3>2, Zenon
    <3> QED  BY <3>1, <3>3, SumEmpty, Zenon
  <2>3. writing = TRUE /\ send = [buffer |-> n, sizes |-> <<n>>, sum |-> 0]
    BY <1>4 DEF SetUpWrite
  <2>4. send \in Half /\ send.sum + Sum(send.sizes) = send.buffer
    BY <2>1, <2>2, <2>3 DEF Half
  <2>5. NothingStranded
    BY <1>2, <2>1, <2>3 DEF NothingStranded
  <2> QED  BY <1>2, <2>3, <2>4, <2>5 DEF SendInv
<1> QED  BY <1>3, <1>4 DEF Init

LEMMA SendInvNext == SendInv /\ [Next]_vars => SendInv'
<1> SUFFICES ASSUME SendInv, [Next]_vars
             PROVE  SendInv'
  OBVIOUS
<1>1. Recorded(offline)
  BY DEF SendInv
<1>2. ASSUME NEW n \in Sizes, Write(n)
      PROVE  SendInv'
  <2> DEFINE o == Written(offline, n)
  <2>1. Recorded(o) /\ o.buffer > 0
    BY <1>1, SizesAssumption, WrittenIsRecorded
  <2>2. CASE Idle /\ PrepareNextWrite(o)
    <3> HIDE DEF o
    <3> QED  BY <2>1, <2>2, PrepareNextWriteAddsUp
  <2>3. CASE ~Idle /\ offline' = o /\ UNCHANGED <<writing, send>>
    <3> HIDE DEF o
    <3> QED  BY <2>1, <2>3 DEF Idle, SendInv, NothingStranded, Recorded
  <2> QED  BY <1>2, <2>2, <2>3 DEF Write, Written
<1>3. CASE WriteEvent
  <2> DEFINE written == send.sum + Head(send.sizes)
  <2>1. writing /\ send.sizes # <<>> /\ send \in Half
    BY <1>3 DEF WriteEvent, SendInv, NothingStranded
  <2>2. /\ send.sizes \in Seq(Nat) /\ Head(send.sizes) \in Nat /\ send.sum \in Nat
        /\ Tail(send.sizes) \in Seq(Nat \ {0}) /\ Tail(send.sizes) \in Seq(Nat)
    BY <2>1 DEF Half
  <2>3. written + Sum(Tail(send.sizes)) = send.buffer /\ written \in Nat
    <3>1. Sum(send.sizes) = Head(send.sizes) + Sum(Tail(send.sizes))
      BY <2>1, <2>2, SumTail
    <3>2. send.sum + Sum(send.sizes) = send.buffer
      BY DEF SendInv
    <3>3. Sum(Tail(send.sizes)) \in Nat
      BY <2>2, SumIsTotal
    <3> QED  BY <2>2, <3>1, <3>2, <3>3
  <2>4. CASE written = send.buffer /\ PrepareNextWrite(offline)
    BY <1>1, <2>4, PrepareNextWriteAddsUp
  <2>5. CASE /\ written # send.buffer
             /\ send' = [send EXCEPT !.sum = written, !.sizes = Tail(@)]
             /\ UNCHANGED <<writing, offline>>
    <3>1. Tail(send.sizes) # <<>>
      <4> SUFFICES ASSUME Tail(send.sizes) = <<>>
                   PROVE  FALSE
        OBVIOUS
      <4>1. Sum(Tail(send.sizes)) = 0
        BY SumEmpty
      <4> HIDE DEF written
      <4> QED  BY <2>3, <2>5, <4>1
    <3>2. /\ send' = [buffer |-> send.buffer, sizes |-> Tail(send.sizes), sum |-> written]
          /\ send' \in Half
      BY <2>1, <2>2, <2>3, <2>5 DEF Half
    <3> HIDE DEF written
    <3> QED  BY <2>1, <2>3, <2>5, <3>1, <3>2 DEF SendInv, NothingStranded, Recorded
  <2> QED  BY <1>3, <2>4, <2>5 DEF WriteEvent
<1>4. CASE ReadEvent \/ NextIteration \/ UNCHANGED vars
  <2>1. writing' = writing /\ send' = send /\ offline' = offline
    BY <1>4 DEF ReadEvent, NextIteration, vars, writeHalf
  <2>2. NothingStranded' = NothingStranded /\ Recorded(offline)' = Recorded(offline)
    BY <2>1 DEF NothingStranded, Recorded
  <2> QED  BY <2>1, <2>2 DEF SendInv
<1> QED  BY <1>2, <1>3, <1>4 DEF Next

\* The sizes on record cut the send buffer and the offline buffer up without a
\* gap or an overlap, whatever the messages of a newb measure and however its
\* writes and the write events of the loop alternate.
THEOREM SizesAlwaysAddUp == Spec => []SizesAddUp
<1>1. SendInv => SizesAddUp
  BY DEF SendInv, Recorded, SizesAddUp, Sum
<1> QED  BY <1>1, SendInvInit, SendInvNext, PTL DEF Spec

\* As long as anything is left to send a write event will find it, and when
\* nothing is the next flush starts over.
THEOREM NothingIsStranded == Spec => []NothingStranded
<1>1. SendInv => NothingStranded
  BY DEF SendInv
<1> QED  BY <1>1, SendInvInit, SendInvNext, PTL DEF Spec

\* Type correctness of both benchmarks.
THEOREM TypeCorrect == Spec => []TypeOK
<1>1. SendInv /\ StepInv => TypeOK
  <2> SUFFICES ASSUME SendInv, StepInv
               PROVE  TypeOK
    OBVIOUS
  <2>1. \A h \in Half : h \in [buffer : Nat, sizes : Seq(Nat), sum : Nat]
    BY DEF Half
  <2>2. {send, offline} \subseteq [buffer : Nat, sizes : Seq(Nat), sum : Nat]
    BY <2>1 DEF SendInv, Recorded
  <2> QED  BY <2>2 DEF SendInv, StepInv, TypeOK
<1> QED  BY <1>1, SendInvInit, SendInvNext, StepInvInit, StepInvNext, PTL DEF Spec

-----------------------------------------------------------------------------
(***************************************************************************)
(* The two buffers are one queue of packets.                               *)
(***************************************************************************)
LEMMA AppendAtTheEnd ==
  ASSUME NEW s \in Seq(Nat \ {0}), NEW t \in Seq(Nat \ {0}), NEW n \in Nat \ {0}
  PROVE  s \o Append(t, n) = Append(s \o t, n)
OBVIOUS

LEMMA TakeFromTheFront ==
  ASSUME NEW S, NEW s \in Seq(S), NEW t \in Seq(S), s # <<>>
  PROVE  s \o t # <<>> /\ Tail(s \o t) = Tail(s) \o t
OBVIOUS

LEMMA NothingToAdd ==
  ASSUME NEW S, NEW s \in Seq(S)
  PROVE  s \o <<>> = s /\ <<>> \o s = s
OBVIOUS

\* What an offline buffer has recorded, and the chunk written last.
Waiting(o) == IF o.buffer = 0 THEN o.sizes ELSE AllSizes(o)

LEMMA WaitingIs ==
  ASSUME NEW o, Recorded(o)
  PROVE  /\ Waiting(o) \in Seq(Nat \ {0})
         /\ o.buffer = 0 => Waiting(o) = <<>>
         /\ o.buffer > 0 => Waiting(o) = AllSizes(o)
         /\ o.buffer \in Nat
<1>1. o.buffer \in Nat
  BY DEF Recorded, Half
<1>2. CASE o.buffer = 0
  BY <1>1, <1>2 DEF Recorded, Half, Waiting, Empty
<1>3. CASE o.buffer > 0
  BY <1>1, <1>3, AllSizesAddUp DEF Waiting
<1> QED  BY <1>1, <1>2, <1>3

LEMMA WriteWaits ==
  ASSUME NEW o, Recorded(o), NEW n \in Nat \ {0}
  PROVE  Waiting(Written(o, n)) = Append(Waiting(o), n)
<1>1. /\ Written(o, n).buffer > 0 /\ Written(o, n).buffer - Written(o, n).sum = n
      /\ Written(o, n).sizes = IF o.buffer = 0 THEN <<>> ELSE AllSizes(o)
      /\ Recorded(Written(o, n))
  BY WrittenIsRecorded
<1>2. Waiting(Written(o, n)) = Append(Written(o, n).sizes, n)
  BY <1>1, WaitingIs DEF AllSizes
<1>3. Written(o, n).sizes = Waiting(o)
  BY <1>1, WaitingIs DEF Waiting
<1> QED  BY <1>2, <1>3

LEMMA EmptyWaits == Waiting(Empty) = <<>>
BY DEF Waiting, Empty

LEMMA UnsentIs == bench.kind = "send" => Unsent = send.sizes \o Waiting(offline)
BY DEF Unsent, Waiting

LEMMA PacketsInit == Init => Packets!Init
<1> SUFFICES ASSUME Init
             PROVE  Unsent = <<>>
  BY DEF Packets!Init
<1>1. CASE bench.kind = "send"
  <2>1. send.sizes = <<>> /\ offline = Empty
    BY <1>1 DEF Init, NothingWritten, Empty
  <2>2. <<>> \o <<>> = <<>>
    BY NothingToAdd
  <2> QED  BY <1>1, <2>1, <2>2, UnsentIs, EmptyWaits
<1>2. CASE bench.kind # "send"
  BY <1>2 DEF Unsent
<1> QED  BY <1>1, <1>2

\* No step changes the benchmark, and only one that sends writes.
LEMMA SameBench ==
  ASSUME [Next]_vars
  PROVE  /\ bench' = bench
         /\ bench.kind # "send" => ReadEvent \/ NextIteration \/ UNCHANGED vars
BY DEF Next, Write, WriteEvent, ReadEvent, NextIteration, vars

LEMMA PacketsNextSending ==
  SendInv /\ bench.kind = "send" /\ [Next]_vars => [Packets!Next]_Unsent
<1> SUFFICES ASSUME SendInv, bench.kind = "send", [Next]_vars
             PROVE  [Packets!Next]_Unsent
  OBVIOUS
<1>1. /\ Unsent = send.sizes \o Waiting(offline)
      /\ Unsent' = send'.sizes \o Waiting(offline')
  BY SameBench DEF Unsent, Waiting
<1>2. /\ Recorded(offline) /\ send \in Half /\ send.sizes \in Seq(Nat \ {0})
      /\ send.sizes \in Seq(Nat)
      /\ Waiting(offline) \in Seq(Nat \ {0})
      /\ writing \in BOOLEAN /\ (writing <=> send.sizes # <<>>)
      /\ offline.buffer \in Nat /\ (offline.buffer > 0 => writing)
  <2>1. Recorded(offline) /\ send \in Half
    BY DEF SendInv
  <2> QED  BY <2>1, WaitingIs DEF SendInv, Half, NothingStranded
<1>3. ASSUME NEW n \in Sizes, Write(n)
      PROVE  Packets!Put
  <2> DEFINE o == Written(offline, n)
  <2> SUFFICES Unsent' = Append(Unsent, n)
    BY DEF Packets!Put
  <2>1. n \in Nat \ {0}
    BY SizesAssumption
  <2>2. Recorded(o) /\ o.buffer > 0 /\ Waiting(o) = Append(Waiting(offline), n)
    BY <1>2, <2>1, WrittenIsRecorded, WriteWaits
  <2>3. CASE Idle /\ PrepareNextWrite(o)
    <3>1. send.sizes = <<>> /\ Waiting(offline) = <<>>
      BY <1>2, <2>3, WaitingIs DEF Idle
    <3>2. send'.sizes = Waiting(o) /\ offline' = Empty
      <4> HIDE DEF o
      <4> QED  BY <2>2, <2>3, WaitingIs DEF PrepareNextWrite, Reset
    <3>3. Waiting(o) = <<n>>
      BY <2>2, <3>1
    <3>4. Unsent' = <<n>>
      BY <1>1, <3>2, <3>3, EmptyWaits, NothingToAdd
    <3>5. Unsent = <<>>
      BY <1>1, <3>1
    <3> QED  BY <3>4, <3>5
  <2>4. CASE ~Idle /\ offline' = o /\ UNCHANGED <<writing, send>>
    <3>1. Unsent' = send.sizes \o Append(Waiting(offline), n)
      BY <1>1, <2>2, <2>4
    <3>2. send.sizes \o Append(Waiting(offline), n) = Append(Unsent, n)
      <4>1. send.sizes \o Append(Waiting(offline), n)
              = Append(send.sizes \o Waiting(offline), n)
        BY <1>2, <2>1, AppendAtTheEnd
      <4> QED  BY <1>1, <4>1
    <3> QED  BY <3>1, <3>2
  <2>5. \/ Idle /\ PrepareNextWrite(o)
        \/ ~Idle /\ offline' = o /\ UNCHANGED <<writing, send>>
    BY <1>3 DEF Write, Written
  <2> QED  BY <2>3, <2>4, <2>5
<1>4. CASE WriteEvent
  <2> DEFINE written == send.sum + Head(send.sizes)
  <2> SUFFICES Unsent # <<>> /\ Unsent' = Tail(Unsent)
    BY DEF Packets!Next, Packets!Send
  <2>1. writing /\ send.sizes # <<>>
    BY <1>2, <1>4 DEF WriteEvent
  <2>2. Unsent # <<>> /\ Tail(Unsent) = Tail(send.sizes) \o Waiting(offline)
    BY <1>1, <1>2, <2>1, TakeFromTheFront
  <2>3. /\ written + Sum(Tail(send.sizes)) = send.buffer /\ written \in Nat
        /\ Sum(Tail(send.sizes)) \in Nat /\ Tail(send.sizes) \in Seq(Nat \ {0})
    <3>1. Head(send.sizes) \in Nat /\ Tail(send.sizes) \in Seq(Nat)
          /\ Tail(send.sizes) \in Seq(Nat \ {0}) /\ send.sum \in Nat
      BY <1>2, <2>1 DEF Half
    <3>2. Sum(send.sizes) = Head(send.sizes) + Sum(Tail(send.sizes))
      BY <1>2, <2>1, SumTail
    <3>3. send.sum + Sum(send.sizes) = send.buffer
      BY DEF SendInv
    <3>4. Sum(Tail(send.sizes)) \in Nat
      BY <3>1, SumIsTotal
    <3> DEFINE h == Head(send.sizes)
               total == Sum(Tail(send.sizes))
    <3>5. /\ written = send.sum + h /\ send.sum + (h + total) = send.buffer
          /\ h \in Nat /\ total \in Nat /\ send.sum \in Nat
      BY <3>1, <3>2, <3>3, <3>4
    <3>6. written + total = send.buffer /\ written \in Nat
      <4> HIDE DEF h, total, written
      <4> QED  BY <3>5
    <3> QED  BY <3>1, <3>4, <3>6
  <2>4. CASE written = send.buffer /\ PrepareNextWrite(offline)
    <3>1. Tail(send.sizes) = <<>>
      <4>1. Sum(Tail(send.sizes)) = 0
        <5> HIDE DEF written
        <5> QED  BY <2>3, <2>4
      <4> QED  BY <2>3, <4>1, SumNotZero
    <3>2. Tail(Unsent) = Waiting(offline)
      BY <1>2, <2>2, <3>1, NothingToAdd
    <3>3. send'.sizes = Waiting(offline) /\ Waiting(offline') = <<>>
      <4>1. CASE offline.buffer = 0
        <5>1. send' = Empty /\ offline' = offline
          BY <2>4, <4>1 DEF PrepareNextWrite
        <5> QED  BY <1>2, <4>1, <5>1, WaitingIs DEF Empty
      <4>2. CASE offline.buffer > 0
        <5>1. send'.sizes = AllSizes(offline) /\ offline' = Empty
          BY <2>4, <4>2 DEF PrepareNextWrite, Reset
        <5> QED  BY <1>2, <4>2, <5>1, WaitingIs, EmptyWaits
      <4> QED  BY <1>2, <4>1, <4>2
    <3> QED  BY <1>1, <1>2, <2>2, <3>2, <3>3, NothingToAdd
  <2>5. CASE /\ written # send.buffer
             /\ send' = [send EXCEPT !.sum = written, !.sizes = Tail(@)]
             /\ UNCHANGED <<writing, offline>>
    <3>1. send'.sizes = Tail(send.sizes) /\ offline' = offline
      BY <1>2, <2>5 DEF Half
    <3> QED  BY <1>1, <2>2, <3>1
  <2> QED  BY <1>4, <2>4, <2>5 DEF WriteEvent
<1>5. CASE ReadEvent \/ NextIteration \/ UNCHANGED vars
  <2>1. send' = send /\ offline' = offline
    BY <1>5 DEF ReadEvent, NextIteration, vars, writeHalf
  <2> QED  BY <1>1, <2>1
<1> QED  BY <1>3, <1>4, <1>5 DEF Next, Packets!Next

LEMMA PacketsNext == SendInv /\ [Next]_vars => [Packets!Next]_Unsent
<1> SUFFICES ASSUME bench.kind # "send", [Next]_vars
             PROVE  Unsent' = Unsent
  BY PacketsNextSending
<1> QED  BY SameBench DEF Unsent

\* Whatever the sizes of the messages and however writes and write events
\* alternate, what dummy_transport does to its buffers is what a queue of packets
\* does: every message leaves as one packet of its own, with its size, in the
\* order of the writes, and nothing else leaves.
THEOREM RefinesPacketQueue == Spec => Packets!Spec
<1>1. Init => Packets!Init
  BY PacketsInit
<1>2. SendInv /\ [Next]_vars => [Packets!Next]_Unsent
  BY PacketsNext
<1>3. Spec => []SendInv
  BY SendInvInit, SendInvNext, PTL DEF Spec
<1> QED  BY <1>1, <1>2, <1>3, PTL DEF Spec, Packets!Spec

=============================================================================
