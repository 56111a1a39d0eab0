------------------------ MODULE OrderingLayerProofs ------------------------
(***************************************************************************)
(* What the ordering layer does with a number, for every width of the      *)
(* sequence number and every limit of what may wait: arithmetic on the     *)
(* circle, runs without a gap, and that nothing is ever kept that the      *)
(* layer has gone past.                                                    *)
(***************************************************************************)
EXTENDS OrderingLayer, Integers, FiniteSetTheorems, WellFoundedInduction, TLAPS

-----------------------------------------------------------------------------
(***************************************************************************)
(* Induction.  The library's induction theorems take an operator; the      *)
(* least element of a set of natural numbers is as good.                   *)
(***************************************************************************)
LEMMA LeastNat ==
  ASSUME NEW T, T \subseteq Nat, T # {}
  PROVE  \E x \in T : \A y \in T : x <= y
<1> DEFINE Upto(m) == T \cap 0 .. m
           U == {Upto(m) : m \in T}
<1>1. U \subseteq FiniteSubsetsOf(Nat) /\ U # {}
  <2>1. \A m \in T : IsFiniteSet(0 .. m)
    BY FS_Interval
  <2>2. ASSUME NEW m \in T
        PROVE  Upto(m) \in FiniteSubsetsOf(Nat)
    <3>1. IsFiniteSet(Upto(m))
      BY <2>1, FS_Subset
    <3> QED  BY <3>1 DEF FiniteSubsetsOf
  <2> QED  BY <2>2
<1>2. PICK I \in U : \A J \in U : <<J, I>> \notin StrictSubsetOrdering(Nat)
  <2> HIDE DEF U
  <2> QED  BY <1>1, FS_StrictSubsetOrderingWellFounded, WFMin
<1>3. PICK m \in T : I = Upto(m)
  OBVIOUS
<1>4. ASSUME NEW k \in T, k < m
      PROVE  FALSE
  <2>1. Upto(k) \subseteq Upto(m) /\ m \in Upto(m) /\ m \notin Upto(k)
    BY <1>4
  <2>2. <<Upto(k), Upto(m)>> \in StrictSubsetOrdering(Nat)
    BY <2>1 DEF StrictSubsetOrdering
  <2> QED  BY <1>2, <1>3, <2>2
<1> QED  BY <1>4

-----------------------------------------------------------------------------
(***************************************************************************)
(* The circle.                                                             *)
(***************************************************************************)

\* Not more than once around there is no remainder to take.
LEMMA PlusForm ==
  ASSUME NEW s \in SeqNr, NEW k \in 0 .. SeqMod
  PROVE  Plus(s, k) = IF s + k < SeqMod THEN s + k ELSE s + k - SeqMod
<1>1. SeqMod \in Nat \ {0} /\ s \in Nat /\ s < SeqMod /\ k \in Nat /\ k <= SeqMod
  BY SeqModAssumption DEF SeqNr
<1>2. CASE s + k < SeqMod
  <2>1. (s + k) % SeqMod = s + k
    BY <1>1, <1>2, SMT
  <2> QED  BY <2>1, <1>2 DEF Plus
<1>3. CASE s + k >= SeqMod
  <2>1. (s + k) % SeqMod = s + k - SeqMod
    BY <1>1, <1>3, SMT
  <2> QED  BY <2>1, <1>1, <1>3 DEF Plus
<1> QED  BY <1>1, <1>2, <1>3

LEMMA PlusType ==
  ASSUME NEW s \in SeqNr, NEW k \in 0 .. SeqMod
  PROVE  Plus(s, k) \in SeqNr
BY PlusForm, SeqModAssumption DEF SeqNr

LEMMA PlusPlus ==
  ASSUME NEW s \in SeqNr, NEW i \in Nat, NEW j \in Nat, i + j <= SeqMod
  PROVE  Plus(Plus(s, i), j) = Plus(s, i + j)
<1>1. SeqMod \in Nat \ {0} /\ i \in 0 .. SeqMod /\ j \in 0 .. SeqMod
      /\ i + j \in 0 .. SeqMod /\ s \in Nat /\ s < SeqMod
  BY SeqModAssumption DEF SeqNr
<1>2. Plus(s, i) \in SeqNr
  BY <1>1, PlusType
<1>3. /\ Plus(s, i) = IF s + i < SeqMod THEN s + i ELSE s + i - SeqMod
      /\ Plus(Plus(s, i), j) = IF Plus(s, i) + j < SeqMod THEN Plus(s, i) + j
                               ELSE Plus(s, i) + j - SeqMod
      /\ Plus(s, i + j) = IF s + (i + j) < SeqMod THEN s + (i + j)
                          ELSE s + (i + j) - SeqMod
  BY <1>1, <1>2, PlusForm
<1> QED  BY <1>1, <1>3

\* How far t lies ahead of s, going up.
Ahead(t, s) == IF t >= s THEN t - s ELSE t + SeqMod - s

LEMMA AheadIs ==
  ASSUME NEW s \in SeqNr, NEW t \in SeqNr
  PROVE  /\ Ahead(t, s) \in 0 .. SeqMod - 1
         /\ Plus(s, Ahead(t, s)) = t
         /\ \A k \in 0 .. SeqMod - 1 : Plus(s, k) = t => k = Ahead(t, s)
<1>1. SeqMod \in Nat \ {0} /\ s \in Nat /\ s < SeqMod /\ t \in Nat /\ t < SeqMod
  BY SeqModAssumption DEF SeqNr
<1>2. Ahead(t, s) \in 0 .. SeqMod - 1
  BY <1>1 DEF Ahead
<1>3. \A k \in 0 .. SeqMod - 1 :
        Plus(s, k) = IF s + k < SeqMod THEN s + k ELSE s + k - SeqMod
  BY <1>1, PlusForm
<1>4. Plus(s, Ahead(t, s)) = t
  BY <1>1, <1>2, <1>3 DEF Ahead
<1>5. \A k \in 0 .. SeqMod - 1 : Plus(s, k) = t => k = Ahead(t, s)
  BY <1>1, <1>3 DEF Ahead
<1> QED  BY <1>2, <1>4, <1>5

\* The half circle: is_greater looks no further than the numbers that lie less
\* than half of it ahead, or exactly half of it when that is beyond the top.
LEMMA HalfCircle ==
  /\ MaxDistance \in Nat
  /\ SeqMod = 2 * MaxDistance + 1 \/ SeqMod = 2 * MaxDistance + 2
<1>1. SeqMod \in Nat \ {0}
  BY SeqModAssumption
<1> QED  BY <1>1, SMT DEF MaxDistance

LEMMA IsGreaterAhead ==
  ASSUME NEW s \in SeqNr, NEW t \in SeqNr
  PROVE  /\ IsGreater(t, s) => Ahead(t, s) \in 1 .. SeqMod - 1 - MaxDistance
         /\ Ahead(t, s) \in 1 .. MaxDistance => IsGreater(t, s)
<1>1. SeqMod \in Nat \ {0} /\ s \in Nat /\ s < SeqMod /\ t \in Nat /\ t < SeqMod
  BY SeqModAssumption DEF SeqNr
<1> QED  BY <1>1, HalfCircle, SMT DEF Ahead, IsGreater


-----------------------------------------------------------------------------
(***************************************************************************)
(* Runs: the numbers from s on without a gap, k of them.                   *)
(***************************************************************************)
Run(s, k) == {Plus(s, j) : j \in 0 .. k - 1}

LEMMA RunCardinality ==
  ASSUME NEW s \in SeqNr, NEW k \in 0 .. SeqMod
  PROVE  /\ Run(s, k) \subseteq SeqNr
         /\ IsFiniteSet(Run(s, k))
         /\ Cardinality(Run(s, k)) = k
<1> DEFINE f == [j \in 0 .. k - 1 |-> Plus(s, j)]
<1>1. SeqMod \in Nat \ {0} /\ k \in Nat /\ k <= SeqMod
  BY SeqModAssumption
<1>2. \A j \in 0 .. k - 1 : j \in 0 .. SeqMod - 1 /\ j \in 0 .. SeqMod
  BY <1>1
<1>3. Run(s, k) \subseteq SeqNr
  BY <1>2, PlusType DEF Run
<1>4. \A i, j \in 0 .. k - 1 : Plus(s, i) = Plus(s, j) => i = j
  <2> SUFFICES ASSUME NEW i \in 0 .. k - 1, NEW j \in 0 .. k - 1, Plus(s, i) = Plus(s, j)
               PROVE  i = j
    OBVIOUS
  <2>1. Plus(s, i) \in SeqNr
    BY <1>2, PlusType
  <2> QED  BY <1>2, <2>1, AheadIs
<1>5. f \in Bijection(0 .. k - 1, Run(s, k))
  <2>1. f \in [0 .. k - 1 -> Run(s, k)]
    BY DEF Run
  <2>2. \A t \in Run(s, k) : \E j \in 0 .. k - 1 : f[j] = t
    BY DEF Run
  <2> QED  BY <1>4, <2>1, <2>2 DEF Bijection, Injection, Surjection, IsInjective
<1>6. IsFiniteSet(0 .. k - 1) /\ Cardinality(0 .. k - 1) = k
  BY <1>1, FS_Interval
<1> QED  BY <1>3, <1>5, <1>6, FS_Bijection DEF ExistsBijection

LEMMA RunLengthIs ==
  ASSUME NEW s, NEW pending, NEW k \in 0 .. Cardinality(pending),
         Cardinality(pending) \in Nat,
         Plus(s, k) \notin pending, \A j \in 0 .. k - 1 : Plus(s, j) \in pending
  PROVE  RunLength(s, pending) = k
<1> DEFINE Gap(m) == /\ Plus(s, m) \notin pending
                     /\ \A j \in 0 .. m - 1 : Plus(s, j) \in pending
<1>1. ASSUME NEW m \in 0 .. Cardinality(pending), Gap(m)
      PROVE  m = k
  <2>1. CASE m < k
    BY <2>1, <1>1
  <2>2. CASE k < m
    BY <2>2, <1>1
  <2> QED  BY <2>1, <2>2
<1> QED  BY <1>1 DEF RunLength

\* Unless it goes all the way round, a run comes to an end.
LEMMA RunEnds ==
  ASSUME NEW s \in SeqNr, NEW pending \in SUBSET SeqNr, Cardinality(pending) < SeqMod
  PROVE  \E k \in 0 .. Cardinality(pending) :
           Plus(s, k) \notin pending /\ Run(s, k) \subseteq pending
<1> DEFINE T == {k \in 0 .. SeqMod - 1 : Plus(s, k) \notin pending}
<1>1. /\ SeqMod \in Nat \ {0}
      /\ IsFiniteSet(SeqNr) /\ Cardinality(SeqNr) = SeqMod
      /\ IsFiniteSet(pending) /\ Cardinality(pending) \in Nat
  <2>1. IsFiniteSet(SeqNr) /\ Cardinality(SeqNr) = SeqMod
    BY SeqModAssumption, FS_Interval DEF SeqNr
  <2>2. IsFiniteSet(pending)
    BY <2>1, FS_Subset
  <2> QED  BY <2>1, <2>2, SeqModAssumption, FS_CardinalityType
<1>2. T # {}
  <2>1. PICK t \in SeqNr : t \notin pending
    BY <1>1
  <2>2. Ahead(t, s) \in T
    BY <2>1, AheadIs
  <2> QED  BY <2>2
<1>3. T \subseteq Nat
  BY <1>1
<1>4. PICK k \in T : \A m \in T : k <= m
  <2> HIDE DEF T
  <2> QED  BY <1>2, <1>3, LeastNat
<1>5. k \in Nat /\ k < SeqMod /\ Plus(s, k) \notin pending
  BY <1>1
<1>6. Run(s, k) \subseteq pending
  <2>1. ASSUME NEW j \in 0 .. k - 1
        PROVE  Plus(s, j) \in pending
    <3>1. j \in 0 .. SeqMod - 1 /\ j < k
      BY <1>1, <1>5
    <3>2. j \notin T
      BY <1>4, <1>5, <3>1
    <3> QED  BY <3>1, <3>2
  <2> QED  BY <2>1 DEF Run
<1>7. k <= Cardinality(pending)
  <2>1. k \in 0 .. SeqMod
    BY <1>1, <1>5
  <2> QED  BY <2>1, <1>1, <1>6, RunCardinality, FS_Subset
<1> QED  BY <1>1, <1>5, <1>6, <1>7

\* What deliver_pending does: it takes a run off, and goes to where it ended.
LEMMA DeliverPendingIs ==
  ASSUME NEW s \in SeqNr, NEW pending \in SUBSET SeqNr, Cardinality(pending) < SeqMod
  PROVE  \E k \in 0 .. Cardinality(pending) :
           /\ Plus(s, k) \notin pending
           /\ Run(s, k) \subseteq pending
           /\ DeliverPending(s, pending)
                = [seqRead |-> Plus(s, k), pending |-> pending \ Run(s, k)]
<1>1. PICK k \in 0 .. Cardinality(pending) :
        Plus(s, k) \notin pending /\ Run(s, k) \subseteq pending
  BY RunEnds
<1>2. Cardinality(pending) \in Nat
  <2>1. IsFiniteSet(SeqNr)
    BY SeqModAssumption, FS_Interval DEF SeqNr
  <2> QED  BY <2>1, FS_Subset, FS_CardinalityType
<1>3. RunLength(s, pending) = k
  <2>1. \A j \in 0 .. k - 1 : Plus(s, j) \in pending
    BY <1>1 DEF Run
  <2> QED  BY <1>1, <1>2, <2>1, RunLengthIs
<1> QED  BY <1>1, <1>3 DEF DeliverPending, Run

-----------------------------------------------------------------------------
(***************************************************************************)
(* What is kept is ahead.                                                  *)
(***************************************************************************)

\* What can be relied on between two reads.
KeptAhead(l) ==
  /\ l \in Layer
  /\ \A t \in l.pending : IsGreater(t, l.seqRead)
  /\ Cardinality(l.pending) <= MaxPending

LEMMA AheadDifference ==
  ASSUME NEW r \in SeqNr, NEW f \in SeqNr, NEW t \in SeqNr, Ahead(f, r) <= Ahead(t, r)
  PROVE  Ahead(t, f) = Ahead(t, r) - Ahead(f, r)
<1>1. SeqMod \in Nat \ {0} /\ r \in Nat /\ f \in Nat /\ t \in Nat
      /\ r < SeqMod /\ f < SeqMod /\ t < SeqMod
  BY SeqModAssumption DEF SeqNr
<1> QED  BY <1>1 DEF Ahead

\* Where all numbers lie ahead of one, the map that keeps them has a first: the
\* next one.
LEMMA FirstIsNext ==
  ASSUME NEW r \in SeqNr, NEW pending \in SUBSET SeqNr, pending # {},
         \A t \in pending : IsGreater(t, r)
  PROVE  \E f \in pending :
           First(pending) = {f} /\ \A t \in pending : Ahead(f, r) <= Ahead(t, r)
<1> DEFINE T == {Ahead(t, r) : t \in pending}
<1>1. SeqMod \in Nat \ {0} /\ MaxDistance \in Nat
      /\ (SeqMod = 2 * MaxDistance + 1 \/ SeqMod = 2 * MaxDistance + 2)
  BY SeqModAssumption, HalfCircle
<1>2. \A t \in pending : /\ Ahead(t, r) \in 1 .. SeqMod - 1 - MaxDistance
                         /\ Plus(r, Ahead(t, r)) = t
  BY IsGreaterAhead, AheadIs
<1>3. T \subseteq Nat /\ T # {}
  BY <1>1, <1>2
<1>4. PICK d \in T : \A e \in T : d <= e
  <2> HIDE DEF T
  <2> QED  BY <1>3, LeastNat
<1>5. PICK f \in pending : d = Ahead(f, r)
  OBVIOUS
<1>6. \A t \in pending : Ahead(f, r) <= Ahead(t, r)
  BY <1>4, <1>5
<1>7. ASSUME NEW t \in pending \ {f}
      PROVE  IsGreater(t, f) /\ ~ IsGreater(f, t)
  <2>1. Ahead(t, f) = Ahead(t, r) - Ahead(f, r)
    BY <1>6, AheadDifference
  <2>2. Ahead(t, r) # Ahead(f, r)
    BY <1>2
  <2>3. Ahead(t, f) \in 1 .. MaxDistance
    BY <1>1, <1>2, <1>6, <2>1, <2>2
  <2>4. Ahead(f, t) = SeqMod - Ahead(t, f)
    <3>1. f \in Nat /\ t \in Nat /\ f < SeqMod /\ t < SeqMod /\ f # t
      BY <1>1 DEF SeqNr
    <3> QED  BY <3>1, <1>1 DEF Ahead
  <2>5. CASE IsGreater(f, t)
    <3>1. Ahead(f, t) \in 1 .. SeqMod - 1 - MaxDistance
      BY <2>5, IsGreaterAhead
    <3> QED  BY <3>1, <2>3, <2>4, <1>1
  <2> QED  BY <2>3, <2>5, IsGreaterAhead
<1>8. Earliest(pending) = {f}
  BY <1>7 DEF Earliest
<1> QED  BY <1>6, <1>8 DEF First

\* Once the layer has moved on to number n, past which no number it keeps has
\* fallen behind, what it keeps is still ahead.
LEMMA StillAhead ==
  ASSUME NEW r \in SeqNr, NEW n \in SeqNr, NEW t \in SeqNr,
         IsGreater(t, r), Ahead(n, r) \in 1 .. Ahead(t, r) - 1
  PROVE  IsGreater(t, n)
<1>1. SeqMod \in Nat \ {0} /\ MaxDistance \in Nat
      /\ (SeqMod = 2 * MaxDistance + 1 \/ SeqMod = 2 * MaxDistance + 2)
  BY SeqModAssumption, HalfCircle
<1>2. Ahead(t, r) \in 1 .. SeqMod - 1 - MaxDistance
  BY IsGreaterAhead
<1>3. Ahead(t, n) = Ahead(t, r) - Ahead(n, r)
  BY <1>2, AheadDifference
<1>4. Ahead(t, n) \in 1 .. MaxDistance
  BY <1>1, <1>2, <1>3
<1> QED  BY <1>4, IsGreaterAhead

\* deliver_pending from a number s that nothing kept comes before: what stays is
\* ahead of where the layer ends up.
LEMMA DeliverPendingKeepsAhead ==
  ASSUME NEW r \in SeqNr, NEW s \in SeqNr, NEW pending \in SUBSET SeqNr,
         Cardinality(pending) < SeqMod,
         \A t \in pending : IsGreater(t, r) /\ Ahead(s, r) <= Ahead(t, r),
         Ahead(s, r) \in Nat \ {0}
  PROVE  LET l == DeliverPending(s, pending)
         IN  /\ l.seqRead \in SeqNr /\ l.pending \subseteq pending
             /\ \A t \in l.pending : IsGreater(t, l.seqRead)
             /\ s \in pending => s \notin l.pending
<1> DEFINE l == DeliverPending(s, pending)
<1>1. PICK k \in 0 .. Cardinality(pending) :
        /\ Plus(s, k) \notin pending
        /\ Run(s, k) \subseteq pending
        /\ l = [seqRead |-> Plus(s, k), pending |-> pending \ Run(s, k)]
  BY DeliverPendingIs
<1>2. SeqMod \in Nat \ {0} /\ Cardinality(pending) \in Nat /\ IsFiniteSet(pending)
  <2>1. IsFiniteSet(SeqNr)
    BY SeqModAssumption, FS_Interval DEF SeqNr
  <2> QED  BY <2>1, SeqModAssumption, FS_Subset, FS_CardinalityType
<1>3. k \in Nat /\ k < SeqMod /\ k \in 0 .. SeqMod
  BY <1>1, <1>2
<1>4. Plus(s, k) \in SeqNr /\ Plus(s, 0) = s
  <2>1. Plus(s, 0) = s
    BY <1>2, PlusForm DEF SeqNr
  <2> QED  BY <1>3, <2>1, PlusType
<1>5. ASSUME NEW t \in pending \ Run(s, k)
      PROVE  IsGreater(t, Plus(s, k))
  <2>1. Ahead(t, s) = Ahead(t, r) - Ahead(s, r)
    BY AheadDifference
  <2>2. Ahead(t, s) \in 0 .. SeqMod - 1 /\ Plus(s, Ahead(t, s)) = t
    BY AheadIs
  <2>3. Ahead(t, s) # k /\ Ahead(t, s) \notin 0 .. k - 1
    BY <1>1, <2>2 DEF Run
  <2>4. k < Ahead(t, s)
    BY <1>3, <2>2, <2>3
  <2>5. Ahead(t, r) \in 0 .. SeqMod - 1 /\ Ahead(s, r) \in 0 .. SeqMod - 1
    BY AheadIs
  <2>6. Ahead(s, r) + k \in 1 .. SeqMod - 1
    BY <1>2, <1>3, <2>1, <2>4, <2>5
  <2>7. Plus(r, Ahead(s, r) + k) = Plus(s, k)
    <3>1. Plus(r, Ahead(s, r)) = s
      BY AheadIs
    <3> QED  BY <3>1, <1>2, <1>3, <2>5, <2>6, PlusPlus
  <2>8. Ahead(Plus(s, k), r) = Ahead(s, r) + k
    BY <1>2, <1>4, <2>6, <2>7, AheadIs
  <2>9. Ahead(Plus(s, k), r) \in 1 .. Ahead(t, r) - 1
    BY <1>3, <2>1, <2>4, <2>5, <2>6, <2>8
  <2> QED  BY <1>4, <2>9, StillAhead
<1>6. ASSUME s \in pending
      PROVE  s \in Run(s, k)
  <2>1. k # 0
    BY <1>1, <1>4, <1>6
  <2>2. 0 \in 0 .. k - 1
    BY <1>3, <2>1
  <2> QED  BY <1>4, <2>2 DEF Run
<1> QED  BY <1>1, <1>4, <1>5, <1>6

\* However many numbers a layer keeps, and wherever the circle begins: reading one
\* more is defined, leaves one layer only, and all that layer keeps is ahead of
\* the number it waits for, at most MaxPending.
THEOREM ReadKeepsAhead ==
  ASSUME NEW l, KeptAhead(l), NEW s \in SeqNr
  PROVE  Reads(l, s) = {ReadLayer(l, s)} /\ KeptAhead(ReadLayer(l, s))
<1> DEFINE r == l.seqRead
           kept == l.pending \cup {s}
<1>1. /\ r \in SeqNr /\ l.pending \in SUBSET SeqNr /\ l \in Layer
      /\ l = [seqRead |-> r, pending |-> l.pending]
      /\ \A t \in l.pending : IsGreater(t, r)
  BY DEF KeptAhead, Layer
<1>2. /\ SeqMod \in Nat \ {0} /\ MaxPending \in Nat /\ 2 * MaxPending + 2 < SeqMod
      /\ IsFiniteSet(l.pending) /\ Cardinality(l.pending) \in Nat
      /\ Cardinality(l.pending) <= MaxPending
  <2>1. IsFiniteSet(SeqNr)
    BY SeqModAssumption, FS_Interval DEF SeqNr
  <2> QED  BY <1>1, <2>1, SeqModAssumption, MaxPendingAssumption, FS_Subset,
              FS_CardinalityType DEF KeptAhead
<1>3. CASE s = r
  <2> DEFINE m == DeliverPending(Plus(s, 1), l.pending)
  <2>1. Reads(l, s) = {m}
    BY <1>3 DEF Reads
  <2>2. Plus(s, 1) \in SeqNr /\ Ahead(Plus(s, 1), r) = 1
    <3>1. 1 \in 0 .. SeqMod - 1 /\ 1 \in 0 .. SeqMod
      BY <1>2
    <3>2. Plus(s, 1) \in SeqNr
      BY <3>1, PlusType
    <3> QED  BY <1>1, <1>3, <3>1, <3>2, AheadIs
  <2>3. \A t \in l.pending : IsGreater(t, r) /\ Ahead(Plus(s, 1), r) <= Ahead(t, r)
    BY <1>1, <2>2, HalfCircle, <1>2, IsGreaterAhead
  <2>4. /\ m.seqRead \in SeqNr /\ m.pending \subseteq l.pending
        /\ \A t \in m.pending : IsGreater(t, m.seqRead)
    <3> HIDE DEF m
    <3>1. Ahead(Plus(s, 1), r) \in Nat \ {0} /\ Cardinality(l.pending) < SeqMod
      BY <1>2, <2>2
    <3> QED  BY <1>1, <2>2, <2>3, <3>1, DeliverPendingKeepsAhead DEF m
  <2>5. Cardinality(m.pending) <= MaxPending
    <3>1. Cardinality(m.pending) <= Cardinality(l.pending) /\ IsFiniteSet(m.pending)
      BY <1>2, <2>4, FS_Subset
    <3> QED  BY <1>2, <3>1, FS_CardinalityType
  <2>6. m \in Layer
    BY <1>1, <2>4 DEF DeliverPending, Layer
  <2> QED  BY <2>1, <2>4, <2>5, <2>6 DEF ReadLayer, KeptAhead
<1>4. CASE s # r /\ IsGreater(s, r)
  <2>1. Reads(l, s) = AddPending(l, s)
    BY <1>4 DEF Reads
  <2>2. /\ kept \in SUBSET SeqNr /\ kept # {}
        /\ \A t \in kept : IsGreater(t, r)
        /\ IsFiniteSet(kept) /\ Cardinality(kept) \in Nat
        /\ Cardinality(kept) <= MaxPending + 1
    <3>1. IsFiniteSet(kept) /\ Cardinality(kept) <= Cardinality(l.pending) + 1
      BY <1>2, FS_AddElement
    <3> QED  BY <1>1, <1>2, <1>4, <3>1, FS_CardinalityType
  <2>3. CASE TooMany(kept)
    <3>1. PICK f \in kept : First(kept) = {f} /\ \A t \in kept : Ahead(f, r) <= Ahead(t, r)
      <4> HIDE DEF kept, r
      <4>1. r \in SeqNr
        BY <1>1
      <4> QED  BY <4>1, <2>2, FirstIsNext
    <3> DEFINE m == DeliverPending(f, kept)
    <3>2. AddPending(l, s) = {m}
      BY <2>3, <3>1 DEF AddPending
    <3>3. /\ m.seqRead \in SeqNr /\ m.pending \subseteq kept \ {f}
          /\ \A t \in m.pending : IsGreater(t, m.seqRead)
      <4> HIDE DEF m, kept, r
      <4>1. f \in SeqNr /\ r \in SeqNr
        BY <1>1, <2>2
      <4>2. Ahead(f, r) \in Nat \ {0} /\ Cardinality(kept) < SeqMod
        BY <1>2, <2>2, <4>1, IsGreaterAhead, HalfCircle
      <4> QED  BY <2>2, <3>1, <4>1, <4>2, DeliverPendingKeepsAhead DEF m
    <3>4. Cardinality(m.pending) <= MaxPending
      <4>1. /\ IsFiniteSet(kept \ {f})
            /\ Cardinality(kept \ {f}) = Cardinality(kept) - 1
        <5>1. IsFiniteSet(kept) /\ f \in kept
          BY <2>2, <3>1
        <5> HIDE DEF kept
        <5> QED  BY <5>1, FS_RemoveElement
      <4>2. IsFiniteSet(m.pending) /\ Cardinality(m.pending) <= Cardinality(kept \ {f})
        BY <3>3, <4>1, FS_Subset
      <4> QED  BY <1>2, <2>2, <4>1, <4>2, FS_CardinalityType
    <3>5. m \in Layer
      BY <2>2, <3>3 DEF DeliverPending, Layer
    <3> QED  BY <2>1, <3>2, <3>3, <3>4, <3>5 DEF ReadLayer, KeptAhead
  <2>4. CASE ~ TooMany(kept)
    <3> DEFINE m == [l EXCEPT !.pending = kept]
    <3>1. AddPending(l, s) = {m}
      BY <2>4 DEF AddPending
    <3>2. m \in Layer /\ m.seqRead = r /\ m.pending = kept
      BY <1>1, <2>2 DEF Layer
    <3>3. Cardinality(kept) <= MaxPending
      BY <2>4, <2>2, <1>2 DEF TooMany
    <3> QED  BY <2>1, <2>2, <3>1, <3>2, <3>3 DEF ReadLayer, KeptAhead
  <2> QED  BY <2>3, <2>4
<1>5. CASE s # r /\ ~ IsGreater(s, r)
  <2>1. Reads(l, s) = {l}
    BY <1>5 DEF Reads
  <2> QED  BY <2>1 DEF ReadLayer
<1> QED  BY <1>3, <1>4, <1>5

-----------------------------------------------------------------------------
(***************************************************************************)
(* What becomes of a layer that keeps a run of g numbers, all those after  *)
(* the missing one.                                                        *)
(***************************************************************************)
KeepsRun(r, g) == [seqRead |-> r, pending |-> Run(Plus(r, 1), g)]

LEMMA RunEmpty ==
  ASSUME NEW s
  PROVE  Run(s, 0) = {}
BY DEF Run

LEMMA PlusOther ==
  ASSUME NEW s \in SeqNr, NEW k \in 1 .. SeqMod - 1
  PROVE  Plus(s, k) # s /\ Ahead(Plus(s, k), s) = k
<1>1. SeqMod \in Nat \ {0} /\ s \in Nat /\ s < SeqMod /\ k \in 0 .. SeqMod
  BY SeqModAssumption DEF SeqNr
<1> QED  BY <1>1, PlusForm DEF Ahead

LEMMA DeliverRun ==
  ASSUME NEW s \in SeqNr, NEW g \in 0 .. SeqMod - 1
  PROVE  DeliverPending(s, Run(s, g)) = [seqRead |-> Plus(s, g), pending |-> {}]
<1>1. SeqMod \in Nat \ {0} /\ g \in Nat /\ g \in 0 .. SeqMod
  BY SeqModAssumption
<1>2. Cardinality(Run(s, g)) = g
  BY <1>1, RunCardinality
<1>3. Plus(s, g) \notin Run(s, g)
  <2> SUFFICES ASSUME NEW j \in 0 .. g - 1, Plus(s, j) = Plus(s, g)
               PROVE  FALSE
    BY DEF Run
  <2>1. Plus(s, g) \in SeqNr
    BY <1>1, PlusType
  <2>2. j \in 0 .. SeqMod - 1 /\ j # g
    BY <1>1
  <2> QED  BY <2>1, <2>2, AheadIs
<1>4. RunLength(s, Run(s, g)) = g
  <2> DEFINE pending == Run(s, g)
  <2>1. g \in 0 .. Cardinality(pending) /\ Cardinality(pending) \in Nat
    BY <1>1, <1>2
  <2>2. \A j \in 0 .. g - 1 : Plus(s, j) \in pending
    BY DEF Run
  <2> HIDE DEF pending
  <2>3. RunLength(s, pending) = g
    BY <2>1, <2>2, <1>3, RunLengthIs DEF pending
  <2> QED  BY <2>3 DEF pending
<1> QED  BY <1>4 DEF DeliverPending, Run

\* The missing number arrives: all that waited for it goes up with it.
LEMMA GapCloses ==
  ASSUME NEW r \in SeqNr, NEW g \in 0 .. MaxPending
  PROVE  ReadLayer(KeepsRun(r, g), r) = KeepsRun(Plus(r, g + 1), 0)
<1>1. /\ SeqMod \in Nat \ {0} /\ g \in Nat /\ 1 + g \in 0 .. SeqMod /\ 1 \in 0 .. SeqMod
      /\ g \in 0 .. SeqMod - 1 /\ 1 + g = g + 1
  BY SeqModAssumption, MaxPendingAssumption
<1>2. Plus(r, 1) \in SeqNr /\ Plus(Plus(r, 1), g) = Plus(r, g + 1)
  BY <1>1, PlusType, PlusPlus
<1>3. Reads(KeepsRun(r, g), r) = {DeliverPending(Plus(r, 1), Run(Plus(r, 1), g))}
  BY DEF Reads, KeepsRun
<1>4. DeliverPending(Plus(r, 1), Run(Plus(r, 1), g)) = KeepsRun(Plus(r, g + 1), 0)
  BY <1>1, <1>2, DeliverRun, RunEmpty DEF KeepsRun
<1> QED  BY <1>3, <1>4 DEF ReadLayer

\* The number after the run: it joins the run, ...
LEMMA RunGrows ==
  ASSUME NEW r \in SeqNr, NEW g \in 0 .. MaxPending
  PROVE  /\ Plus(r, g + 1) # r /\ IsGreater(Plus(r, g + 1), r)
         /\ Run(Plus(r, 1), g) \cup {Plus(r, g + 1)} = Run(Plus(r, 1), g + 1)
         /\ Cardinality(Run(Plus(r, 1), g + 1)) = g + 1
<1>1. /\ SeqMod \in Nat \ {0} /\ g \in Nat /\ MaxDistance \in Nat
      /\ g + 1 \in 1 .. MaxDistance /\ g + 1 \in 1 .. SeqMod - 1 /\ g + 1 \in 0 .. SeqMod
      /\ 1 + g = g + 1 /\ 1 \in 0 .. SeqMod
  BY SeqModAssumption, MaxPendingAssumption, HalfCircle
<1>2. Plus(r, 1) \in SeqNr /\ Plus(r, g + 1) \in SeqNr /\ Plus(Plus(r, 1), g) = Plus(r, g + 1)
  BY <1>1, PlusType, PlusPlus
<1>3. Plus(r, g + 1) # r /\ IsGreater(Plus(r, g + 1), r)
  BY <1>1, <1>2, PlusOther, IsGreaterAhead
<1>4. 0 .. (g + 1) - 1 = (0 .. g - 1) \cup {g}
  BY <1>1
<1>5. Run(Plus(r, 1), g) \cup {Plus(r, g + 1)} = Run(Plus(r, 1), g + 1)
  BY <1>2, <1>4 DEF Run
<1> QED  BY <1>1, <1>2, <1>3, <1>5, RunCardinality

LEMMA RunKeepsGrowing ==
  ASSUME NEW r \in SeqNr, NEW g \in 0 .. MaxPending, g < MaxPending
  PROVE  ReadLayer(KeepsRun(r, g), Plus(r, g + 1)) = KeepsRun(r, g + 1)
<1> DEFINE kept == Run(Plus(r, 1), g + 1)
<1>1. /\ Run(Plus(r, 1), g) \cup {Plus(r, g + 1)} = kept
      /\ ~ TooMany(kept)
  <2>1. Cardinality(kept) = g + 1 /\ g + 1 <= MaxPending
    BY RunGrows, MaxPendingAssumption
  <2>2. ~ TooMany(kept)
    BY <2>1, MaxPendingAssumption DEF TooMany
  <2> QED  BY <2>2, RunGrows
<1>2. AddPending(KeepsRun(r, g), Plus(r, g + 1)) = {KeepsRun(r, g + 1)}
  <2>1. [KeepsRun(r, g) EXCEPT !.pending = kept] = KeepsRun(r, g + 1)
    BY DEF KeepsRun
  <2>2. KeepsRun(r, g).pending = Run(Plus(r, 1), g)
    BY DEF KeepsRun
  <2> HIDE DEF kept
  <2> QED  BY <1>1, <2>1, <2>2 DEF AddPending
<1>3. Plus(r, g + 1) # r /\ IsGreater(Plus(r, g + 1), r)
  BY RunGrows
<1>4. Reads(KeepsRun(r, g), Plus(r, g + 1)) = {KeepsRun(r, g + 1)}
  BY <1>2, <1>3 DEF Reads, KeepsRun
<1> QED  BY <1>4 DEF ReadLayer

\* ... unless MaxPending wait already: the missing number is given up.
LEMMA GapGivenUp ==
  ASSUME NEW r \in SeqNr
  PROVE  ReadLayer(KeepsRun(r, MaxPending), Plus(r, MaxPending + 1))
           = KeepsRun(Plus(r, MaxPending + 2), 0)
<1> DEFINE g == MaxPending
           f == Plus(r, 1)
           kept == Run(f, g + 1)
<1>1. /\ SeqMod \in Nat \ {0} /\ g \in Nat /\ g \in 0 .. MaxPending
      /\ 1 + (g + 1) \in 0 .. SeqMod /\ 1 + (g + 1) = g + 2
      /\ g + 1 \in 0 .. SeqMod /\ g + 1 \in 0 .. SeqMod - 1
      /\ 1 \in 0 .. SeqMod /\ 1 \in 1 .. SeqMod - 1
  BY SeqModAssumption, MaxPendingAssumption
<1>2. f \in SeqNr /\ Plus(f, 0) = f /\ Plus(f, g + 1) = Plus(r, g + 2) /\ Ahead(f, r) = 1
  <2>1. f \in SeqNr /\ Ahead(f, r) = 1
    BY <1>1, PlusType, PlusOther
  <2>2. Plus(f, 0) = f
    <3>1. f < SeqMod /\ f \in Nat /\ 0 \in 0 .. SeqMod
      BY <1>1, <2>1 DEF SeqNr
    <3> QED  BY <2>1, <3>1, PlusForm
  <2> QED  BY <1>1, <2>1, <2>2, PlusPlus
<1>3. f \in kept /\ kept \in SUBSET SeqNr
  <2>1. 0 \in 0 .. (g + 1) - 1
    BY <1>1
  <2>2. f \in kept
    BY <1>2, <2>1 DEF Run
  <2> QED  BY <1>1, <1>2, <2>2, RunCardinality
<1>4. \A t \in kept : Ahead(t, r) \in 1 .. g + 1 /\ IsGreater(t, r)
  <2> SUFFICES ASSUME NEW j \in 0 .. (g + 1) - 1
               PROVE  Ahead(Plus(f, j), r) \in 1 .. g + 1 /\ IsGreater(Plus(f, j), r)
    BY DEF Run
  <2>1. j \in Nat /\ j <= g /\ j + 1 = 1 + j /\ j \in 0 .. MaxPending
        /\ 1 + j \in 0 .. SeqMod /\ j + 1 \in 1 .. SeqMod - 1
    BY <1>1
  <2>2. Plus(f, j) = Plus(r, j + 1)
    BY <1>1, <2>1, PlusPlus
  <2> QED  BY <1>1, <2>1, <2>2, PlusOther, RunGrows
<1>5. First(kept) = {f}
  <2>1. PICK h \in kept : First(kept) = {h} /\ \A t \in kept : Ahead(h, r) <= Ahead(t, r)
    <3> HIDE DEF kept
    <3> QED  BY <1>3, <1>4, FirstIsNext
  <2>2. Ahead(h, r) = 1
    BY <1>1, <1>2, <1>3, <1>4, <2>1
  <2>3. h = f
    BY <1>2, <1>3, <2>2, AheadIs
  <2> QED  BY <2>1, <2>3
<1>6. DeliverPending(f, kept) = KeepsRun(Plus(r, g + 2), 0)
  BY <1>1, <1>2, DeliverRun, RunEmpty DEF KeepsRun
<1>7. /\ Plus(r, g + 1) # r /\ IsGreater(Plus(r, g + 1), r)
      /\ Run(f, g) \cup {Plus(r, g + 1)} = kept /\ TooMany(kept)
  BY <1>1, RunGrows DEF TooMany
<1>8. AddPending(KeepsRun(r, g), Plus(r, g + 1)) = {DeliverPending(f, kept)}
  BY <1>5, <1>7 DEF AddPending, KeepsRun
<1>9. Reads(KeepsRun(r, g), Plus(r, g + 1)) = {DeliverPending(f, kept)}
  BY <1>7, <1>8 DEF Reads, KeepsRun
<1> QED  BY <1>6, <1>9 DEF ReadLayer

-----------------------------------------------------------------------------
(***************************************************************************)
(* What goes up is a run, and the layer then waits for the number after    *)
(* it.  (Here what is kept need not be ahead: a timeout delivers from the  *)
(* middle of it.)                                                          *)
(***************************************************************************)
Bounded(l) ==
  /\ l \in Layer
  /\ Cardinality(l.pending) <= MaxPending
  /\ l.seqRead \notin l.pending

\* l hands up all the numbers of arrived that it does not keep.
HandsUp(arrived, l) ==
  /\ Bounded(l)
  /\ l.pending \subseteq arrived
  /\ \E x \in SeqNr, k \in 0 .. SeqMod - 1 :
       arrived \ l.pending = Run(x, k) /\ l.seqRead = Plus(x, k)

LEMMA BoundedFinite ==
  ASSUME NEW l, Bounded(l)
  PROVE  /\ l.seqRead \in SeqNr /\ l.pending \in SUBSET SeqNr
         /\ l = [seqRead |-> l.seqRead, pending |-> l.pending]
         /\ IsFiniteSet(l.pending) /\ Cardinality(l.pending) \in Nat
<1>1. IsFiniteSet(SeqNr)
  BY SeqModAssumption, FS_Interval DEF SeqNr
<1> QED  BY <1>1, FS_Subset, FS_CardinalityType DEF Bounded, Layer

\* deliver_pending, called for a number that is kept.
LEMMA DeliverPendingHandsUp ==
  ASSUME NEW pending \in SUBSET SeqNr, Cardinality(pending) <= MaxPending + 1,
         NEW s \in pending
  PROVE  HandsUp(pending, DeliverPending(s, pending))
<1>1. /\ IsFiniteSet(pending) /\ Cardinality(pending) \in Nat
      /\ SeqMod \in Nat \ {0} /\ MaxPending \in Nat /\ Cardinality(pending) < SeqMod
  <2>1. IsFiniteSet(SeqNr)
    BY SeqModAssumption, FS_Interval DEF SeqNr
  <2> QED  BY <2>1, SeqModAssumption, MaxPendingAssumption, FS_Subset, FS_CardinalityType
<1>2. PICK k \in 0 .. Cardinality(pending) :
        /\ Plus(s, k) \notin pending
        /\ Run(s, k) \subseteq pending
        /\ DeliverPending(s, pending)
             = [seqRead |-> Plus(s, k), pending |-> pending \ Run(s, k)]
  BY <1>1, DeliverPendingIs
<1>3. k \in 0 .. SeqMod - 1 /\ k \in 0 .. SeqMod /\ s \in SeqNr
  BY <1>1
<1>4. k # 0
  <2>1. Plus(s, 0) = s
    BY <1>1, <1>3, PlusForm DEF SeqNr
  <2> QED  BY <1>2, <2>1
<1>5. Cardinality(pending \ Run(s, k)) <= MaxPending
  <2>1. s \in Run(s, k)
    <3>1. Plus(s, 0) = s /\ 0 \in 0 .. k - 1
      BY <1>1, <1>3, <1>4, PlusForm DEF SeqNr
    <3> QED  BY <3>1 DEF Run
  <2>2. /\ IsFiniteSet(pending \ {s})
        /\ Cardinality(pending \ {s}) = Cardinality(pending) - 1
    BY <1>1, FS_RemoveElement
  <2>3. pending \ Run(s, k) \in SUBSET (pending \ {s})
    BY <2>1
  <2>4. /\ IsFiniteSet(pending \ Run(s, k))
        /\ Cardinality(pending \ Run(s, k)) <= Cardinality(pending \ {s})
    BY <2>2, <2>3, FS_Subset
  <2> QED  BY <1>1, <2>2, <2>4, FS_CardinalityType
<1>6. Plus(s, k) \in SeqNr /\ pending \ (pending \ Run(s, k)) = Run(s, k)
  BY <1>2, <1>3, PlusType
<1> QED  BY <1>2, <1>3, <1>5, <1>6 DEF HandsUp, Bounded, Layer

\* ordering::read, of a number that is not dropped.
LEMMA ReadHandsUp ==
  ASSUME NEW l, Bounded(l), NEW s \in SeqNr, s = l.seqRead \/ Keeps(l, s),
         NEW m \in Reads(l, s)
  PROVE  HandsUp(l.pending \cup {s}, m)
<1> DEFINE kept == l.pending \cup {s}
<1>1. /\ l.seqRead \in SeqNr /\ l.pending \in SUBSET SeqNr /\ IsFiniteSet(l.pending)
      /\ Cardinality(l.pending) \in Nat /\ Cardinality(l.pending) <= MaxPending
      /\ l = [seqRead |-> l.seqRead, pending |-> l.pending]
      /\ l.seqRead \notin l.pending
  BY BoundedFinite DEF Bounded
<1>2. SeqMod \in Nat \ {0} /\ MaxPending \in Nat /\ 2 * MaxPending + 2 < SeqMod
  BY SeqModAssumption, MaxPendingAssumption
<1>3. /\ kept \in SUBSET SeqNr /\ IsFiniteSet(kept) /\ Cardinality(kept) \in Nat
      /\ Cardinality(kept) <= MaxPending + 1
  <2>1. /\ IsFiniteSet(kept)
        /\ \/ Cardinality(kept) = Cardinality(l.pending)
           \/ Cardinality(kept) = Cardinality(l.pending) + 1
    <3>1. CASE s \in l.pending
      <4>1. kept = l.pending
        BY <3>1
      <4> QED  BY <1>1, <4>1
    <3>2. CASE s \notin l.pending
      BY <1>1, <3>2, FS_AddElement
    <3> QED  BY <3>1, <3>2
  <2> QED  BY <1>1, <1>2, <2>1
<1>4. CASE s = l.seqRead
  <2>1. m = DeliverPending(Plus(s, 1), l.pending)
    BY <1>4 DEF Reads
  <2>2. Plus(s, 1) \in SeqNr /\ Plus(s, 0) = s /\ Cardinality(l.pending) < SeqMod
    <3>1. /\ 0 \in 0 .. SeqMod /\ 1 \in 0 .. SeqMod /\ s + 0 = s /\ s < SeqMod
          /\ Cardinality(l.pending) < SeqMod
      BY <1>1, <1>2 DEF SeqNr
    <3>2. Plus(s, 1) \in SeqNr
      BY <3>1, PlusType
    <3>3. Plus(s, 0) = s
      BY <3>1, PlusForm
    <3> QED  BY <3>1, <3>2, <3>3
  <2>3. PICK k \in 0 .. Cardinality(l.pending) :
          /\ Plus(Plus(s, 1), k) \notin l.pending
          /\ Run(Plus(s, 1), k) \subseteq l.pending
          /\ m = [seqRead |-> Plus(Plus(s, 1), k),
                  pending |-> l.pending \ Run(Plus(s, 1), k)]
    BY <1>1, <2>1, <2>2, DeliverPendingIs
  <2>4. k \in Nat /\ k <= MaxPending /\ k + 1 \in 0 .. SeqMod - 1 /\ 1 + k = k + 1
        /\ 1 + k <= SeqMod /\ k + 1 \in 0 .. SeqMod /\ k + 1 \in 1 .. SeqMod - 1
    BY <1>1, <1>2, <2>3
  <2>5. Plus(Plus(s, 1), k) = Plus(s, k + 1) /\ Plus(s, k + 1) \in SeqNr
    BY <2>4, PlusPlus, PlusType
  <2>6. Run(s, k + 1) = {s} \cup Run(Plus(s, 1), k)
    <3>1. \A j \in 0 .. k - 1 : Plus(Plus(s, 1), j) = Plus(s, j + 1)
      <4> SUFFICES ASSUME NEW j \in 0 .. k - 1
                   PROVE  Plus(Plus(s, 1), j) = Plus(s, j + 1)
        OBVIOUS
      <4>1. /\ j \in Nat /\ 1 + j = j + 1 /\ 1 + j <= SeqMod
            /\ j \in 0 .. SeqMod /\ 1 \in 0 .. SeqMod /\ 1 + j \in 0 .. SeqMod
        BY <1>2, <2>4
      <4> QED  BY <4>1, PlusPlus
    <3>2. \A i \in 0 .. (k + 1) - 1 : i = 0 \/ (i - 1 \in 0 .. k - 1 /\ (i - 1) + 1 = i)
      BY <2>4
    <3>3. \A j \in 0 .. k - 1 : j + 1 \in 0 .. (k + 1) - 1
      BY <2>4
    <3>4. 0 \in 0 .. (k + 1) - 1
      BY <2>4
    <3>5. ASSUME NEW t \in Run(s, k + 1)
          PROVE  t \in {s} \cup Run(Plus(s, 1), k)
      <4>1. PICK i \in 0 .. (k + 1) - 1 : t = Plus(s, i)
        BY <3>5 DEF Run
      <4>2. CASE i = 0
        BY <2>2, <4>1, <4>2
      <4>3. CASE i # 0
        <5>1. i - 1 \in 0 .. k - 1 /\ (i - 1) + 1 = i
          BY <3>2, <4>3
        <5>2. Plus(Plus(s, 1), i - 1) = t
          BY <3>1, <4>1, <5>1
        <5> QED  BY <5>1, <5>2 DEF Run
      <4> QED  BY <4>2, <4>3
    <3>6. ASSUME NEW t \in Run(Plus(s, 1), k)
          PROVE  t \in Run(s, k + 1)
      BY <3>1, <3>3, <3>6 DEF Run
    <3>7. s \in Run(s, k + 1)
      BY <2>2, <3>4 DEF Run
    <3> QED  BY <3>5, <3>6, <3>7
  <2>7. kept \ m.pending = Run(s, k + 1)
    BY <1>1, <1>4, <2>3, <2>6
  <2>8. Cardinality(m.pending) <= MaxPending
    <3>1. IsFiniteSet(m.pending) /\ Cardinality(m.pending) <= Cardinality(l.pending)
      BY <1>1, <2>3, FS_Subset
    <3> QED  BY <1>1, <1>2, <3>1, FS_CardinalityType
  <2>9. m \in Layer /\ m.pending \subseteq kept /\ m.seqRead \notin m.pending
        /\ m.seqRead = Plus(s, k + 1)
    BY <1>1, <2>3, <2>5 DEF Layer
  <2> QED  BY <2>4, <2>7, <2>8, <2>9 DEF HandsUp, Bounded
<1>5. CASE s # l.seqRead
  <2>1. m \in AddPending(l, s)
    BY <1>5 DEF Reads, Keeps
  <2>2. CASE TooMany(kept)
    <3>1. PICK f \in First(kept) : m = DeliverPending(f, kept)
      BY <2>1, <2>2 DEF AddPending
    <3>2. f \in kept
      BY <3>1 DEF First, Earliest
    <3> QED  BY <1>3, <3>1, <3>2, DeliverPendingHandsUp
  <2>3. CASE ~ TooMany(kept)
    <3>1. m = [seqRead |-> l.seqRead, pending |-> kept]
      BY <1>1, <2>1, <2>3 DEF AddPending
    <3>2. Cardinality(kept) <= MaxPending
      BY <1>2, <1>3, <2>3 DEF TooMany
    <3>3. kept \ m.pending = Run(l.seqRead, 0)
      BY <3>1, RunEmpty
    <3>4. Plus(l.seqRead, 0) = l.seqRead /\ 0 \in 0 .. SeqMod - 1
      BY <1>1, <1>2, PlusForm DEF SeqNr
    <3>5. m.seqRead \notin m.pending /\ m \in Layer /\ m.pending \subseteq kept
          /\ m.seqRead = l.seqRead /\ m.pending = kept
      BY <1>1, <1>3, <1>5, <3>1 DEF Layer
    <3> QED  BY <1>1, <3>2, <3>3, <3>4, <3>5 DEF HandsUp, Bounded
  <2> QED  BY <2>2, <2>3
<1> QED  BY <1>4, <1>5

\* Where the numbers that go up are found, counted back from the one after.
LEMMA HandsUpFrom ==
  ASSUME NEW arrived, NEW l, HandsUp(arrived, l)
  PROVE  LET k == Cardinality(arrived \ l.pending)
         IN  /\ k \in Nat /\ k < SeqMod
             /\ \A j \in 1 .. k : Plus(l.seqRead, SeqMod - k + j - 1) \in arrived
<1>1. PICK x \in SeqNr, k \in 0 .. SeqMod - 1 :
        arrived \ l.pending = Run(x, k) /\ l.seqRead = Plus(x, k)
  BY DEF HandsUp
<1>2. SeqMod \in Nat \ {0} /\ k \in Nat /\ k < SeqMod /\ k \in 0 .. SeqMod
      /\ x \in Nat /\ x < SeqMod
  BY <1>1, SeqModAssumption DEF SeqNr
<1>3. Cardinality(arrived \ l.pending) = k
  BY <1>1, <1>2, RunCardinality
<1>4. ASSUME NEW j \in 1 .. k
      PROVE  Plus(l.seqRead, SeqMod - k + j - 1) \in arrived
  <2> DEFINE d == SeqMod - k + j - 1
  <2>1. d \in 0 .. SeqMod /\ j - 1 \in 0 .. SeqMod /\ j - 1 \in 0 .. k - 1
    BY <1>2
  <2>2. /\ Plus(x, k) = IF x + k < SeqMod THEN x + k ELSE x + k - SeqMod
        /\ Plus(x, k) \in SeqNr
        /\ Plus(x, j - 1) = IF x + (j - 1) < SeqMod THEN x + (j - 1)
                            ELSE x + (j - 1) - SeqMod
    BY <1>2, <2>1, PlusForm, PlusType
  <2>3. Plus(Plus(x, k), d) = IF Plus(x, k) + d < SeqMod THEN Plus(x, k) + d
                              ELSE Plus(x, k) + d - SeqMod
    BY <2>1, <2>2, PlusForm
  <2>4. Plus(Plus(x, k), d) = Plus(x, j - 1)
    BY <1>2, <2>2, <2>3
  <2>5. Plus(x, j - 1) \in Run(x, k)
    BY <2>1 DEF Run
  <2> QED  BY <1>1, <2>4, <2>5
<1> QED  BY <1>2, <1>3, <1>4

-----------------------------------------------------------------------------
(***************************************************************************)
(* Remainders.                                                             *)
(***************************************************************************)
LEMMA QuotientRemainder ==
  ASSUME NEW a \in Nat, NEW m \in Nat \ {0}
  PROVE  a = m * (a \div m) + (a % m) /\ a \div m \in Nat /\ a % m \in 0 .. m - 1
OBVIOUS

LEMMA RemainderUnique ==
  ASSUME NEW m \in Nat \ {0}, NEW q \in Nat, NEW p \in Nat,
         NEW r \in 0 .. m - 1, NEW s \in 0 .. m - 1, m * q + r = m * p + s
  PROVE  r = s
<1>1. ASSUME NEW x \in Nat, NEW y \in Nat, x < y
      PROVE  m * x + m <= m * y
  <2> DEFINE d == y - x - 1
  <2>1. d \in Nat /\ y = x + 1 + d
    BY <1>1
  <2>2. m * y = m * x + m + m * d
    BY <2>1
  <2>3. m * d \in Nat /\ m * x \in Nat /\ m * y \in Nat
    BY <2>1
  <2> HIDE DEF d
  <2> QED  BY <2>2, <2>3
<1>2. m * q \in Nat /\ m * p \in Nat
  OBVIOUS
<1>3. CASE q < p
  BY <1>1, <1>2, <1>3
<1>4. CASE p < q
  BY <1>1, <1>2, <1>4
<1>5. CASE p = q
  BY <1>2, <1>5
<1> QED  BY <1>3, <1>4, <1>5

LEMMA RemainderPlus ==
  ASSUME NEW a \in Nat, NEW d \in Nat, NEW m \in Nat \ {0}
  PROVE  ((a % m) + d) % m = (a + d) % m
<1> DEFINE q == a \div m
           r == a % m
           p == (r + d) \div m
           s == (r + d) % m
           u == (a + d) \div m
           v == (a + d) % m
<1>1. a = m * q + r /\ q \in Nat /\ r \in 0 .. m - 1
  BY QuotientRemainder
<1>2. r + d \in Nat /\ a + d \in Nat
  BY <1>1
<1>3. r + d = m * p + s /\ p \in Nat /\ s \in 0 .. m - 1
  <2> HIDE DEF r
  <2> QED  BY <1>2, QuotientRemainder
<1>4. a + d = m * u + v /\ u \in Nat /\ v \in 0 .. m - 1
  BY <1>2, QuotientRemainder
<1> HIDE DEF q, r, p, s, u, v
<1>5. m * (q + p) = m * q + m * p /\ q + p \in Nat
  BY <1>1, <1>3
<1>6. m * q \in Nat /\ m * p \in Nat /\ m * (q + p) \in Nat /\ m * u \in Nat
  BY <1>1, <1>3, <1>4
<1>7. m * (q + p) + s = m * u + v
  BY <1>1, <1>3, <1>4, <1>5, <1>6
<1>8. s = v
  BY <1>3, <1>4, <1>5, <1>7, RemainderUnique
<1> QED  BY <1>8 DEF s, v, r

LEMMA RemainderNext ==
  ASSUME NEW a \in Nat, NEW m \in Nat \ {0}, m > 1
  PROVE  (a + 1) % m # a % m
<1> DEFINE r == a % m
<1>1. (a + 1) % m = (r + 1) % m
  BY RemainderPlus
<1>2. r \in 0 .. m - 1
  BY QuotientRemainder
<1>3. CASE r + 1 < m
  BY <1>1, <1>2, <1>3
<1>4. CASE r + 1 = m
  BY <1>1, <1>2, <1>4
<1> QED  BY <1>2, <1>3, <1>4

\* A number that lies up to half the circle behind another does not come after it.
LEMMA BehindIsNotAhead ==
  ASSUME NEW a \in Nat, NEW d \in 1 .. MaxDistance
  PROVE  /\ a % SeqMod \in SeqNr /\ (a + d) % SeqMod \in SeqNr
         /\ a % SeqMod # (a + d) % SeqMod
         /\ ~ IsGreater(a % SeqMod, (a + d) % SeqMod)
<1> DEFINE s == a % SeqMod
           t == (a + d) % SeqMod
<1>1. /\ SeqMod \in Nat \ {0} /\ MaxDistance \in Nat /\ a + d \in Nat
      /\ (SeqMod = 2 * MaxDistance + 1 \/ SeqMod = 2 * MaxDistance + 2)
      /\ d \in Nat /\ d \in 1 .. SeqMod - 1
  BY SeqModAssumption, HalfCircle
<1>2. s \in SeqNr /\ t \in SeqNr
  BY <1>1, QuotientRemainder DEF SeqNr
<1>3. Plus(s, d) = t
  BY <1>1, RemainderPlus DEF Plus
<1> HIDE DEF s, t
<1>4. t # s /\ Ahead(t, s) = d
  BY <1>1, <1>2, <1>3, PlusOther
<1>5. Ahead(s, t) = SeqMod - d
  BY <1>1, <1>2, <1>4 DEF Ahead, SeqNr
<1>6. ~ IsGreater(s, t)
  BY <1>1, <1>2, <1>5, IsGreaterAhead
<1> QED  BY <1>2, <1>4, <1>6 DEF s, t

=============================================================================
