---------------------- MODULE PingPongUdpOrderedProofs ----------------------
(***************************************************************************)
(* Proofs about PingPongUdpOrdered, for every sequence number width,       *)
(* counter width, number of messages and delay: the exchange above an      *)
(* ordering layer is the one of PingPong, and while datagrams are in time  *)
(* the layer and the handlers go the same way.                             *)
(*                                                                         *)
(* The inductive invariant is Exchange.  It rests on one observation: of   *)
(* all the counters a process may be handed, old ones included, none is    *)
(* the counter that the other side has not sent yet.  Either datagrams are *)
(* in time, and then the layer hands up the next one only, or the counters *)
(* have not wrapped around, and then whatever was sent is smaller.         *)
(***************************************************************************)
EXTENDS PingPongUdpOrdered, OrderingLayerProofs, SequenceTheorems

Value == 0 .. CounterMod - 1
Kept == UNION {[p -> Value] : p \in SUBSET SeqNr}
Newb == [mode : {"idle", "running", "closing", "down"}, received : Value,
         sent : Seq(Value), told : Nat, failed : BOOLEAN,
         layer : Layer, kept : Kept, timers : SUBSET SeqNr]

\* The number of messages of an exchange that comes to its end.
Limit == IF messages = 0 THEN 1 ELSE messages

\* How many counters newb b of the client has counted, whether that is all it
\* has sent, and which counter newb b of process n waits for.
CountedOf(b) ==
  LET n == Len(b.sent)
  IN  IF n = 0 THEN 0 ELSE IF b.received = Inc(b.sent[n]) THEN n ELSE n - 1
Done(b) == b.sent # <<>> /\ CountedOf(b) = Len(b.sent)
Position(n, b) == IF n = "client" THEN CountedOf(b) ELSE Len(b.sent)

\* Counters are sent in order.
InOrder(s) == \A i \in 1 .. Len(s) : s[i] = (i - 1) % CounterMod

ClientInv(b) ==
  /\ InOrder(b.sent)
  /\ b.received = CountedOf(b) % CounterMod
  /\ messages < CounterMod => Len(b.sent) <= Limit
  /\ b.mode = "idle" <=> b.sent = <<>>
  /\ b.told = (IF Done(b) THEN 1 ELSE 0) + (IF b.mode = "down" THEN 1 ELSE 0)
  /\ Done(b) => b.mode \in {"closing", "down"} /\ Len(b.sent) = Limit
  /\ b.mode \in {"closing", "down"} => Done(b) \/ b.failed

ServerInv(b) ==
  /\ InOrder(b.sent)
  /\ b.received = Len(b.sent) % CounterMod
  /\ b.mode # "idle" /\ (b.mode # "running" => b.failed)
  /\ b.told = IF b.mode = "down" THEN 1 ELSE 0

\* Newb b of process n when the other side has sent k counters.
SideInv(n, b, k) ==
  /\ Position(n, b) <= k
  /\ n = "client" => ClientInv(b) /\ k <= Len(b.sent)
  /\ n = "server" => ServerInv(b)

\* What its layer keeps.
KeptInv(b, k) ==
  /\ Bounded(b.layer)
  /\ DOMAIN b.kept = b.layer.pending
  /\ messages < CounterMod => \A s \in DOMAIN b.kept : b.kept[s] < k

NothingKeptInv(b, next) ==
  InTime => /\ b.layer = [seqRead |-> next % SeqMod, pending |-> {}]
            /\ b.timers = {}

NewbInv(n, b, k) ==
  /\ SideInv(n, b, k)
  /\ KeptInv(b, k)
  /\ NothingKeptInv(b, Position(n, b))

Exchange ==
  /\ messages \in Options /\ maxDelay \in Delays
  /\ InTime \/ messages < CounterMod
  /\ newb \in [Process -> Newb]
  /\ driver \in [Process -> {"await", "aborted"}]
  /\ \A n \in Process : driver[n] = "aborted" => newb[n].told > 0
  /\ \A n \in Process : NewbInv(n, newb[n], Len(newb[Other(n)].sent))

-----------------------------------------------------------------------------
(***************************************************************************)
(* One counter is handed up.                                               *)
(***************************************************************************)
LEMMA Constants ==
  /\ SeqMod \in Nat \ {0} /\ MaxPending \in Nat /\ 2 * MaxPending + 2 < SeqMod
  /\ CounterMod \in Nat \ {0} /\ CounterMod > 2 /\ MaxSent \in Nat
  /\ Options \subseteq Nat /\ Delays \subseteq Nat
BY SeqModAssumption, MaxPendingAssumption, OrderedAssumption

LEMMA IncRemainder ==
  ASSUME NEW a \in Nat
  PROVE  /\ Inc(a % CounterMod) = (a + 1) % CounterMod
         /\ (a + 1) % CounterMod # a % CounterMod
         /\ a % CounterMod \in Value /\ (a + 1) % CounterMod \in Value
         /\ a < CounterMod => a % CounterMod = a
<1>1. CounterMod \in Nat \ {0} /\ CounterMod > 1
  BY Constants
<1>2. Inc(a % CounterMod) = (a + 1) % CounterMod
  BY <1>1, RemainderPlus DEF Inc
<1>3. (a + 1) % CounterMod # a % CounterMod
  BY <1>1, RemainderNext
<1>4. a % CounterMod \in Value /\ (a + 1) % CounterMod \in Value
  BY <1>1, QuotientRemainder DEF Value
<1> QED  BY <1>1, <1>2, <1>3, <1>4

LEMMA CountedType ==
  ASSUME NEW b \in Newb
  PROVE  /\ Len(b.sent) \in Nat
         /\ CountedOf(b) \in Nat
         /\ CountedOf(b) = Len(b.sent) \/ CountedOf(b) + 1 = Len(b.sent)
         /\ \A n : Position(n, b) \in Nat
<1>1. Len(b.sent) \in Nat
  BY DEF Newb
<1> QED  BY <1>1 DEF CountedOf, Position

\* The list with one counter more is in order when that one is the next.
LEMMA AppendInOrder ==
  ASSUME NEW s \in Seq(Value), InOrder(s), NEW c \in Value, c = Len(s) % CounterMod
  PROVE  /\ InOrder(Append(s, c)) /\ Append(s, c) \in Seq(Value)
         /\ Len(Append(s, c)) = Len(s) + 1
         /\ Append(s, c)[Len(s) + 1] = c /\ Append(s, c) # <<>>
<1>1. Len(s) \in Nat /\ Append(s, c) \in Seq(Value) /\ Len(Append(s, c)) = Len(s) + 1
      /\ Append(s, c)[Len(s) + 1] = c /\ \A i \in 1 .. Len(s) : Append(s, c)[i] = s[i]
  BY AppendProperties
<1>2. Append(s, c) # <<>>
  BY <1>1
<1>3. ASSUME NEW i \in 1 .. Len(s) + 1
      PROVE  Append(s, c)[i] = (i - 1) % CounterMod
  <2>1. CASE i \in 1 .. Len(s)
    BY <1>1, <2>1 DEF InOrder
  <2>2. CASE i = Len(s) + 1
    BY <1>1, <2>2
  <2> QED  BY <1>1, <2>1, <2>2
<1> QED  BY <1>1, <1>2, <1>3 DEF InOrder

\* Newb b of process n goes forward, to x, and no further than to the k counters
\* of the other side; and it does so by handling one counter.
Moves(n, b, k, x) ==
  /\ x \in Newb
  /\ SideInv(n, x, k)
  /\ x.mode \in {"running", "closing"}
  /\ Position(n, b) <= Position(n, x)
  /\ Len(b.sent) <= Len(x.sent)

HandlesTo(n, b, k, x) ==
  /\ Moves(n, b, k, x)
  /\ x.layer = b.layer /\ x.kept = b.kept /\ x.timers = b.timers /\ x.failed = b.failed

LEMMA ServerHandles ==
  ASSUME NEW b \in Newb, NEW k \in Nat, SideInv("server", b, k),
         b.mode \in {"running", "closing"},
         NEW c \in Value, c # k % CounterMod
  PROVE  /\ HandlesTo("server", b, k, Handle("server", b, c))
         /\ Expected(b, c) =>
              Position("server", Handle("server", b, c)) = Position("server", b) + 1
<1> DEFINE L == Len(b.sent)
           x == Handle("server", b, c)
<1>1. /\ L \in Nat /\ Position("server", b) = L /\ L <= k /\ ServerInv(b)
      /\ b.sent \in Seq(Value)
  BY CountedType DEF SideInv, Position, Newb
<1>2. CASE ~ Expected(b, c)
  BY <1>1, <1>2 DEF Handle, HandlesTo, Moves
<1>3. CASE Expected(b, c)
  <2>1. c = L % CounterMod /\ b.received = c
    BY <1>1, <1>3 DEF Expected, ServerInv
  <2>2. L + 1 <= k
    BY <1>1, <2>1
  <2>3. x = [b EXCEPT !.received = Inc(b.received), !.sent = Append(@, c)]
    BY <1>3 DEF Handle
  <2>4. Inc(c) = (L + 1) % CounterMod /\ Inc(c) \in Value
    BY <1>1, <2>1, IncRemainder
  <2>5. InOrder(Append(b.sent, c)) /\ Append(b.sent, c) \in Seq(Value)
        /\ Len(Append(b.sent, c)) = L + 1
    BY <1>1, <2>1, AppendInOrder DEF ServerInv
  <2>6. x \in Newb
    <3> DEFINE i == Inc(c)
               q == Append(b.sent, c)
    <3>1. x = [b EXCEPT !.received = i, !.sent = q] /\ i \in Value /\ q \in Seq(Value)
      BY <2>1, <2>3, <2>4, <2>5 DEF Newb
    <3> HIDE DEF x, i, q
    <3> QED  BY <3>1 DEF Newb
  <2>7. /\ x.sent = Append(b.sent, c) /\ x.received = Inc(c) /\ x.mode = b.mode
        /\ x.told = b.told /\ x.failed = b.failed /\ x.layer = b.layer
        /\ x.kept = b.kept /\ x.timers = b.timers
    BY <2>1, <2>3 DEF Newb
  <2> HIDE DEF x
  <2>8. ServerInv(x)
    BY <1>1, <2>4, <2>5, <2>7 DEF ServerInv
  <2>9. Position("server", x) = L + 1
    BY <2>5, <2>7 DEF Position
  <2>10. SideInv("server", x, k)
    BY <2>2, <2>8, <2>9 DEF SideInv
  <2>11. HandlesTo("server", b, k, x)
    BY <1>1, <2>5, <2>6, <2>7, <2>9, <2>10 DEF HandlesTo, Moves
  <2> QED  BY <1>1, <2>9, <2>11 DEF x
<1> QED  BY <1>2, <1>3

\* The client goes on below the limit and ends at it, wherever the counter wraps.
LEMMA AtTheLimit ==
  ASSUME messages \in Nat, NEW n \in Nat, n # 0,
         messages < CounterMod => n <= Limit
  PROVE  /\ n % CounterMod < messages => (messages < CounterMod => n + 1 <= Limit)
         /\ messages <= n % CounterMod => n = Limit
<1> DEFINE r == n % CounterMod
<1>1. r \in 0 .. CounterMod - 1 /\ (n < CounterMod => r = n)
  BY IncRemainder DEF Value
<1>2. CounterMod \in Nat /\ CounterMod > 2
  BY Constants
<1> HIDE DEF r
<1>3. CASE messages = 0
  <2>1. n = 1 /\ Limit = 1
    BY <1>2, <1>3 DEF Limit
  <2> QED  BY <1>1, <1>3, <2>1 DEF r
<1>4. CASE messages # 0
  <2>1. Limit = messages
    BY <1>4 DEF Limit
  <2> QED  BY <1>1, <1>2, <1>4, <2>1 DEF r
<1> QED  BY <1>3, <1>4

LEMMA ClientHandles ==
  ASSUME messages \in Options,
         NEW b \in Newb, NEW k \in Nat, SideInv("client", b, k),
         b.mode \in {"running", "closing"},
         NEW c \in Value, c # k % CounterMod
  PROVE  /\ HandlesTo("client", b, k, Handle("client", b, c))
         /\ Expected(b, c) =>
              Position("client", Handle("client", b, c)) = Position("client", b) + 1
<1> DEFINE L == Len(b.sent)
           C == CountedOf(b)
           x == Handle("client", b, c)
<1>1. /\ L \in Nat /\ C \in Nat /\ Position("client", b) = C /\ C <= k /\ k <= L
      /\ C = L \/ C + 1 = L
      /\ ClientInv(b) /\ b.sent \in Seq(Value) /\ messages \in Nat
  BY CountedType, Constants DEF SideInv, Position, Newb
<1>2. CASE ~ Expected(b, c)
  BY <1>1, <1>2 DEF Handle, HandlesTo, Moves
<1>3. CASE Expected(b, c)
  <2>1. c = C % CounterMod /\ b.received = c
    BY <1>1, <1>3 DEF Expected, ClientInv
  <2>2. C + 1 = L /\ k = L
    BY <1>1, <2>1
  <2>3. /\ Inc(c) = L % CounterMod /\ Inc(c) \in Value
        /\ Inc(L % CounterMod) # L % CounterMod
        /\ L < CounterMod => L % CounterMod = L
    <3>1. Inc(C % CounterMod) = (C + 1) % CounterMod /\ (C + 1) % CounterMod \in Value
      BY <1>1, IncRemainder
    <3>2. /\ Inc(L % CounterMod) # L % CounterMod
          /\ L < CounterMod => L % CounterMod = L
      BY <1>1, IncRemainder
    <3> QED  BY <2>1, <2>2, <3>1, <3>2
  <2>4. ~ Done(b) /\ b.mode # "idle" /\ b.told = 0
    <3>1. ~ Done(b)
      BY <1>1, <2>2 DEF Done
    <3> QED  BY <1>1, <3>1 DEF ClientInv
  <2>5. \A t : t = Append(b.sent, Inc(c)) =>
          InOrder(t) /\ t \in Seq(Value) /\ Len(t) = L + 1 /\ t[L + 1] = Inc(c) /\ t # <<>>
    BY <1>1, <2>3, AppendInOrder DEF ClientInv
  <2>6. CASE ~ GotAll(b)
    <3>1. x = [b EXCEPT !.received = Inc(c), !.sent = Append(@, Inc(c))]
      BY <1>3, <2>1, <2>6 DEF Handle, NextCounter
    <3>2. /\ x.sent = Append(b.sent, Inc(c)) /\ x.received = Inc(c) /\ x.mode = b.mode
          /\ x.told = b.told /\ x.failed = b.failed /\ x.layer = b.layer
          /\ x.kept = b.kept /\ x.timers = b.timers /\ x \in Newb
      BY <2>3, <2>5, <3>1 DEF Newb
    <3> HIDE DEF x
    <3>3. /\ InOrder(x.sent) /\ Len(x.sent) = L + 1 /\ x.sent[L + 1] = Inc(c) /\ x.sent # <<>>
      BY <2>5, <3>2
    <3>4. CountedOf(x) = L /\ ~ Done(x)
      BY <1>1, <2>3, <3>2, <3>3 DEF CountedOf, Done
    <3>5. messages < CounterMod => L + 1 <= Limit
      <4>1. messages < CounterMod => L <= Limit
        BY <1>1 DEF ClientInv
      <4>2. L % CounterMod < messages
        <5>1. L % CounterMod \in Nat
          BY <2>3 DEF Value
        <5> QED  BY <1>1, <2>1, <2>3, <2>6, <5>1 DEF GotAll
      <4> QED  BY <1>1, <2>2, <2>3, <4>1, <4>2, AtTheLimit
    <3>6. ClientInv(x)
      <4>1. x.mode \in {"closing", "down"} => x.failed
        BY <1>1, <2>4, <3>2 DEF ClientInv
      <4>2. x.told = 0 /\ x.mode # "down" /\ x.mode # "idle"
        BY <2>4, <3>2
      <4> QED  BY <2>3, <3>2, <3>3, <3>4, <3>5, <4>1, <4>2 DEF ClientInv
    <3>7. Position("client", x) = L /\ Position("client", x) = C + 1
      BY <2>2, <3>4 DEF Position
    <3>8. SideInv("client", x, k)
      BY <1>1, <2>2, <3>3, <3>6, <3>7 DEF SideInv
    <3>9. HandlesTo("client", b, k, x)
      BY <1>1, <3>2, <3>3, <3>7, <3>8 DEF HandlesTo, Moves
    <3> QED  BY <1>1, <3>7, <3>9 DEF x
  <2>7. CASE GotAll(b)
    <3>1. x = [b EXCEPT !.received = Inc(c), !.told = @ + 1, !.mode = "closing"]
      BY <1>3, <2>1, <2>7 DEF Handle
    <3>2. /\ x.sent = b.sent /\ x.received = Inc(c) /\ x.mode = "closing"
          /\ x.told = 1 /\ x.failed = b.failed /\ x.layer = b.layer
          /\ x.kept = b.kept /\ x.timers = b.timers /\ x \in Newb
      <4>1. b.told + 1 = 1
        BY <2>4
      <4>2. x = [b EXCEPT !.received = Inc(c), !.told = 1, !.mode = "closing"]
        BY <3>1, <4>1
      <4> HIDE DEF x
      <4> QED  BY <2>3, <4>2 DEF Newb
    <3> HIDE DEF x
    <3>3. b.sent[L] = c /\ b.sent # <<>> /\ InOrder(b.sent)
      BY <1>1, <2>1, <2>2 DEF ClientInv, InOrder
    <3>4. CountedOf(x) = L /\ Done(x)
      BY <1>1, <2>2, <3>2, <3>3 DEF CountedOf, Done
    <3>5. L = Limit
      <4>1. messages <= L % CounterMod
        BY <2>1, <2>3, <2>7 DEF GotAll
      <4>2. messages < CounterMod => L <= Limit
        BY <1>1 DEF ClientInv
      <4> QED  BY <1>1, <2>1, <2>2, <2>3, <4>1, <4>2, AtTheLimit
    <3>6. ClientInv(x)
      BY <1>1, <2>3, <3>2, <3>3, <3>4, <3>5 DEF ClientInv
    <3>7. Position("client", x) = L /\ Position("client", x) = C + 1
      BY <2>2, <3>4 DEF Position
    <3>8. SideInv("client", x, k)
      BY <1>1, <2>2, <3>2, <3>6, <3>7 DEF SideInv
    <3>9. HandlesTo("client", b, k, x)
      BY <1>1, <3>2, <3>7, <3>8 DEF HandlesTo, Moves
    <3> QED  BY <1>1, <3>7, <3>9 DEF x
  <2> QED  BY <2>6, <2>7
<1> QED  BY <1>2, <1>3

LEMMA Handles ==
  ASSUME messages \in Options, NEW n \in Process,
         NEW b \in Newb, NEW k \in Nat, SideInv(n, b, k),
         b.mode \in {"running", "closing"},
         NEW c \in Value, c # k % CounterMod
  PROVE  /\ HandlesTo(n, b, k, Handle(n, b, c))
         /\ Expected(b, c) => Position(n, Handle(n, b, c)) = Position(n, b) + 1
BY ServerHandles, ClientHandles DEF Process

-----------------------------------------------------------------------------
(***************************************************************************)
(* The ordering layer hands up what it no longer keeps.                    *)
(***************************************************************************)

\* Function f says what becomes of newb x as process n handles the first j of
\* the k counters r, for each j.
HandlesAll(n, x, r, k, f) ==
  f = [j \in 0 .. k |-> IF j = 0 THEN x ELSE Handle(n, f[j - 1], r[j])]

LEMMA HandlesAllExists ==
  ASSUME NEW n, NEW x, NEW r, NEW k \in Nat
  PROVE  \E f : HandlesAll(n, x, r, k, f)
<1> DEFINE T == {i \in Nat : ~ \E f : HandlesAll(n, x, r, i, f)}
<1>1. SUFFICES ASSUME T # {} PROVE FALSE
  OBVIOUS
<1>2. PICK m \in T : \A y \in T : m <= y
  BY <1>1, LeastNat
<1>3. m \in Nat
  OBVIOUS
<1>4. m # 0
  <2> DEFINE f == [j \in 0 .. 0 |-> x]
  <2>1. 0 .. 0 = {0}
    OBVIOUS
  <2>2. f = [j \in 0 .. 0 |-> IF j = 0 THEN x ELSE Handle(n, f[j - 1], r[j])]
    BY <2>1
  <2>3. HandlesAll(n, x, r, 0, f)
    BY <2>2 DEF HandlesAll
  <2> QED  BY <2>3
<1>5. m - 1 \in Nat /\ m - 1 \notin T
  BY <1>2, <1>3, <1>4
<1>6. PICK f : HandlesAll(n, x, r, m - 1, f)
  BY <1>5
<1> DEFINE g == [j \in 0 .. m |-> IF j = m THEN Handle(n, f[m - 1], r[m]) ELSE f[j]]
<1>7. HandlesAll(n, x, r, m, g)
  <2>1. \A j \in 0 .. m : j # m => j \in 0 .. m - 1
    BY <1>3, <1>4
  <2>2. \A j \in 0 .. m - 1 : f[j] = IF j = 0 THEN x ELSE Handle(n, f[j - 1], r[j])
    BY <1>6 DEF HandlesAll
  <2>3. ASSUME NEW j \in 0 .. m
        PROVE  g[j] = IF j = 0 THEN x ELSE Handle(n, g[j - 1], r[j])
    <3>1. CASE j = 0
      BY <1>3, <1>4, <2>1, <2>2, <3>1
    <3>2. CASE j # 0
      <4>1. j - 1 \in 0 .. m /\ j - 1 # m
        BY <1>3, <3>2
      <4>2. g[j - 1] = f[j - 1]
        BY <4>1
      <4>3. g[j] = Handle(n, f[j - 1], r[j])
        BY <1>3, <2>1, <2>2, <3>2
      <4> QED  BY <3>2, <4>2, <4>3
    <3> QED  BY <3>1, <3>2
  <2> QED  BY <2>3 DEF HandlesAll
<1> QED  BY <1>7

\* Newb b before it handles the first of the counters that layer l hands up.
Layered(b, counters, l) ==
  [b EXCEPT !.layer = l, !.kept = [s \in l.pending |-> counters[s]]]

\* A set of newbs that no counter of C leads out of is not left.
LEMMA HandUpStays ==
  ASSUME NEW n, NEW b, NEW counters, NEW l, NEW C, NEW G,
         HandsUp(DOMAIN counters, l),
         \A s \in DOMAIN counters : counters[s] \in C,
         Layered(b, counters, l) \in G,
         \A x \in G, c \in C : Handle(n, x, c) \in G
  PROVE  HandUp(n, b, counters, l) \in G
<1> DEFINE k == Cardinality(DOMAIN counters \ l.pending)
           run == [j \in 1 .. k |-> counters[Plus(l.seqRead, SeqMod - k + j - 1)]]
           x == Layered(b, counters, l)
<1>1. k \in Nat /\ \A j \in 1 .. k : Plus(l.seqRead, SeqMod - k + j - 1) \in DOMAIN counters
  BY HandsUpFrom
<1>2. \A j \in 1 .. k : run[j] \in C
  BY <1>1
<1>3. PICK f : HandlesAll(n, x, run, k, f) /\ HandUp(n, b, counters, l) = f[k]
  <2> DEFINE h == CHOOSE f : HandlesAll(n, x, run, k, f)
  <2>1. HandlesAll(n, x, run, k, h)
    <3> HIDE DEF k, run, x
    <3> QED  BY <1>1, HandlesAllExists
  <2>2. HandUp(n, b, counters, l) = h[k]
    BY DEF HandUp, HandlesAll, Layered
  <2> QED  BY <2>1, <2>2
<1>4. x \in G
  OBVIOUS
<1> HIDE DEF k, run, x
<1>5. f[0] = x /\ \A j \in 1 .. k : f[j] = Handle(n, f[j - 1], run[j])
  <2>1. \A j \in 0 .. k : f[j] = IF j = 0 THEN x ELSE Handle(n, f[j - 1], run[j])
    BY <1>3 DEF HandlesAll
  <2>2. 0 \in 0 .. k /\ \A j \in 1 .. k : j \in 0 .. k /\ j # 0
    BY <1>1
  <2> QED  BY <2>1, <2>2
<1> DEFINE T == {i \in 0 .. k : f[i] \notin G}
<1>6. T = {}
  <2> SUFFICES ASSUME T # {} PROVE FALSE
    OBVIOUS
  <2>1. T \subseteq Nat
    BY <1>1
  <2>2. PICK m \in T : \A y \in T : m <= y
    BY <2>1, LeastNat
  <2>3. m \in 1 .. k /\ m - 1 \in 0 .. k /\ m - 1 \notin T
    <3>1. m \in 0 .. k /\ m # 0
      BY <1>4, <1>5
    <3>2. m \in Nat /\ ~ (m <= m - 1)
      BY <1>1
    <3> QED  BY <1>1, <2>2, <3>1, <3>2
  <2>4. f[m - 1] \in G /\ run[m] \in C
    BY <1>2, <2>3
  <2> QED  BY <1>5, <2>3, <2>4
<1> QED  BY <1>1, <1>3, <1>6

\* One counter is handed up at once.
LEMMA HandUpOne ==
  ASSUME NEW n, NEW b, NEW counters, NEW r \in SeqNr, DOMAIN counters = {r},
         NEW l, l = KeepsRun(Plus(r, 1), 0)
  PROVE  HandUp(n, b, counters, l) = Handle(n, Layered(b, counters, l), counters[r])
<1> DEFINE k == Cardinality(DOMAIN counters \ l.pending)
           run == [j \in 1 .. k |-> counters[Plus(l.seqRead, SeqMod - k + j - 1)]]
           x == Layered(b, counters, l)
<1>1. l.pending = {} /\ l.seqRead = Plus(r, 1)
  BY RunEmpty DEF KeepsRun
<1>2. k = 1
  BY <1>1, FS_Singleton
<1>3. PICK f : HandlesAll(n, x, run, k, f) /\ HandUp(n, b, counters, l) = f[k]
  <2> DEFINE h == CHOOSE f : HandlesAll(n, x, run, k, f)
  <2>1. HandlesAll(n, x, run, k, h)
    <3> HIDE DEF k, run, x
    <3> QED  BY <1>2, HandlesAllExists
  <2>2. HandUp(n, b, counters, l) = h[k]
    BY DEF HandUp, HandlesAll, Layered
  <2> QED  BY <2>1, <2>2
<1>5. run[1] = counters[r]
  <2>1. SeqMod - 1 + 1 - 1 = SeqMod - 1 /\ SeqMod \in Nat /\ 1 + (SeqMod - 1) = SeqMod
        /\ SeqMod - 1 \in Nat /\ 1 \in 1 .. k
    BY <1>2, Constants
  <2>2. Plus(Plus(r, 1), SeqMod - 1) = Plus(r, SeqMod)
    BY <2>1, PlusPlus
  <2>3. Plus(r, SeqMod) = r
    BY <2>1, PlusForm DEF SeqNr
  <2> QED  BY <1>1, <1>2, <2>1, <2>2, <2>3
<1> HIDE DEF run, x, k
<1>6. f[0] = x /\ f[1] = Handle(n, f[0], run[1])
  BY <1>2, <1>3 DEF HandlesAll
<1> QED  BY <1>2, <1>3, <1>5, <1>6 DEF x

-----------------------------------------------------------------------------
(***************************************************************************)
(* A datagram arrives, or a timeout fires.                                 *)
(***************************************************************************)
Sent(n) == Len(newb[Other(n)].sent)

\* Neither process is further than one message ahead of the other.
LEMMA Alternate ==
  ASSUME Exchange, NEW n \in Process
  PROVE  /\ Other(n) \in Process /\ newb[n] \in Newb /\ newb[Other(n)] \in Newb
         /\ Sent(n) \in Nat /\ Position(n, newb[n]) \in Nat
         /\ Position(n, newb[n]) <= Sent(n) /\ Sent(n) <= Position(n, newb[n]) + 1
         /\ InOrder(newb[Other(n)].sent) /\ newb[Other(n)].sent \in Seq(Value)
         /\ messages < CounterMod => Sent(n) < CounterMod
         /\ newb[n].received = Position(n, newb[n]) % CounterMod
         /\ SideInv(n, newb[n], Sent(n))
<1> DEFINE cl == newb["client"]
           sv == newb["server"]
<1>1. /\ "client" \in Process /\ "server" \in Process
      /\ Other("client") = "server" /\ Other("server") = "client"
  BY DEF Process, Other
<1>2. cl \in Newb /\ sv \in Newb /\ messages \in Nat
  BY <1>1, Constants DEF Exchange
<1>3. /\ SideInv("client", cl, Len(sv.sent)) /\ SideInv("server", sv, Len(cl.sent))
      /\ ClientInv(cl) /\ ServerInv(sv)
      /\ CountedOf(cl) <= Len(sv.sent) /\ Len(sv.sent) <= Len(cl.sent)
  BY <1>1 DEF Exchange, NewbInv, SideInv, Position
<1>4. /\ Len(cl.sent) \in Nat /\ CountedOf(cl) \in Nat /\ Len(cl.sent) <= CountedOf(cl) + 1
      /\ Len(sv.sent) \in Nat
  BY <1>2, CountedType
<1>5. messages < CounterMod => Len(cl.sent) < CounterMod
  BY <1>2, <1>3, <1>4, Constants DEF ClientInv, Limit
<1>6. CASE n = "client"
  <2>1. Other(n) = "server" /\ Position(n, newb[n]) = CountedOf(cl) /\ Sent(n) = Len(sv.sent)
    BY <1>1, <1>6 DEF Position, Sent
  <2>2. messages < CounterMod => Len(sv.sent) < CounterMod
    BY <1>3, <1>4, <1>5, Constants
  <2>3. InOrder(sv.sent) /\ sv.sent \in Seq(Value) /\ cl.received = CountedOf(cl) % CounterMod
    BY <1>2, <1>3 DEF ClientInv, ServerInv, Newb
  <2> QED  BY <1>1, <1>2, <1>3, <1>4, <1>6, <2>1, <2>2, <2>3
<1>7. CASE n = "server"
  <2>1. Other(n) = "client" /\ Position(n, newb[n]) = Len(sv.sent) /\ Sent(n) = Len(cl.sent)
    BY <1>1, <1>7 DEF Position, Sent
  <2>2. InOrder(cl.sent) /\ cl.sent \in Seq(Value) /\ sv.received = Len(sv.sent) % CounterMod
    BY <1>2, <1>3 DEF ClientInv, ServerInv, Newb
  <2>3. Len(sv.sent) <= Len(cl.sent) /\ Len(cl.sent) <= Len(sv.sent) + 1
    <3> HIDE DEF cl, sv
    <3> QED  BY <1>3, <1>4
  <2>4. newb[n] = sv /\ newb[Other(n)] = cl
    BY <1>7, <2>1
  <2> HIDE DEF cl, sv
  <2> QED  BY <1>1, <1>2, <1>3, <1>4, <1>5, <1>7, <2>1, <2>2, <2>3, <2>4
<1> QED  BY <1>6, <1>7 DEF Process

\* Before the counters wrap around: whatever the layer hands up, and in which
\* order, the process takes at most the one it waits for.
LEMMA HandUpMoves ==
  ASSUME Exchange, NEW n \in Process, messages < CounterMod, Alive(n),
         NEW timers \in SUBSET SeqNr, NEW l, NEW counters,
         DOMAIN counters \in SUBSET SeqNr,
         \A s \in DOMAIN counters : counters[s] \in Value /\ counters[s] < Sent(n),
         HandsUp(DOMAIN counters, l)
  PROVE  LET x == HandUp(n, [newb[n] EXCEPT !.timers = timers], counters, l)
         IN  Moves(n, newb[n], Sent(n), x) /\ KeptInv(x, Sent(n))
<1> DEFINE k == Sent(n)
           b == newb[n]
           c == [b EXCEPT !.timers = timers]
           kept == [s \in l.pending |-> counters[s]]
           y == Layered(c, counters, l)
           C == {v \in Value : v < k}
           G == {x \in Newb : Moves(n, b, k, x) /\ x.layer = l /\ x.kept = kept}
<1>1. /\ b \in Newb /\ k \in Nat /\ k < CounterMod /\ SideInv(n, b, k) /\ messages \in Options
      /\ k % CounterMod = k /\ b.mode \in {"running", "closing"}
  BY Alternate, IncRemainder DEF Exchange, Alive
<1>2. Bounded(l) /\ l \in Layer /\ l.pending \subseteq DOMAIN counters
      /\ l.pending \in SUBSET SeqNr
  BY DEF HandsUp, Bounded, Layer
<1>3. kept \in Kept /\ DOMAIN kept = l.pending /\ \A s \in l.pending : kept[s] < k
  <2>1. kept \in [l.pending -> Value]
    BY <1>2
  <2> QED  BY <1>2, <2>1 DEF Kept
<1>4. y \in G
  <2> HIDE DEF kept, k, b
  <2>1. /\ y \in Newb /\ y.layer = l /\ y.kept = kept /\ y.mode = b.mode
        /\ y.received = b.received /\ y.sent = b.sent /\ y.told = b.told
        /\ y.failed = b.failed
    <3>1. y = [c EXCEPT !.layer = l, !.kept = kept]
      BY DEF Layered, kept
    <3> HIDE DEF y
    <3> QED  BY <1>1, <1>2, <1>3, <3>1 DEF Newb
  <2> HIDE DEF y
  <2>2. CountedOf(y) = CountedOf(b)
    BY <2>1 DEF CountedOf
  <2>3. Position(n, y) = Position(n, b) /\ Position(n, b) \in Nat /\ Len(b.sent) \in Nat
    BY <1>1, <2>1, <2>2, CountedType DEF Position
  <2>4. ClientInv(b) => ClientInv(y)
    BY <2>1, <2>2 DEF ClientInv, Done
  <2>5. ServerInv(b) => ServerInv(y)
    BY <2>1 DEF ServerInv
  <2>6. SideInv(n, y, k)
    BY <1>1, <2>1, <2>3, <2>4, <2>5 DEF SideInv
  <2> QED  BY <1>1, <2>1, <2>3, <2>6 DEF Moves
<1>5. ASSUME NEW x \in G, NEW v \in C
      PROVE  Handle(n, x, v) \in G
  <2> DEFINE z == Handle(n, x, v)
  <2> HIDE DEF kept, k, b
  <2>1. /\ x \in Newb /\ SideInv(n, x, k) /\ x.mode \in {"running", "closing"}
        /\ Position(n, b) <= Position(n, x) /\ Len(b.sent) <= Len(x.sent)
        /\ x.layer = l /\ x.kept = kept
    BY DEF Moves
  <2>2. v \in Value /\ v < k /\ v # k % CounterMod
    BY <1>1 DEF Value
  <2>3. HandlesTo(n, x, k, z)
    BY <1>1, <2>1, <2>2, Handles
  <2> HIDE DEF z
  <2>4. /\ z \in Newb /\ SideInv(n, z, k) /\ z.mode \in {"running", "closing"}
        /\ Position(n, x) <= Position(n, z) /\ Len(x.sent) <= Len(z.sent)
        /\ z.layer = l /\ z.kept = kept
    BY <2>1, <2>3 DEF HandlesTo, Moves
  <2>5. /\ Position(n, b) \in Nat /\ Position(n, x) \in Nat /\ Position(n, z) \in Nat
        /\ Len(b.sent) \in Nat /\ Len(x.sent) \in Nat /\ Len(z.sent) \in Nat
    BY <1>1, <2>1, <2>4, CountedType
  <2> QED  BY <2>1, <2>4, <2>5 DEF Moves, z
<1>6. \A s \in DOMAIN counters : counters[s] \in C
  OBVIOUS
<1>7. HandUp(n, c, counters, l) \in G
  <2> HIDE DEF G, C, c, b, k
  <2> QED  BY <1>4, <1>5, <1>6, HandUpStays
<1> DEFINE z == HandUp(n, c, counters, l)
<1>8. Moves(n, b, k, z) /\ z.layer = l /\ z.kept = kept
  BY <1>7
<1> HIDE DEF z, kept
<1>9. KeptInv(z, k)
  BY <1>2, <1>3, <1>8 DEF KeptInv
<1> QED  BY <1>8, <1>9 DEF z

\* What a step of Receives makes of process n.
Receipt(n) ==
  \E x : /\ newb' = [newb EXCEPT ![n] = x]
         /\ Moves(n, newb[n], Sent(n), x)
         /\ KeptInv(x, Sent(n))
         /\ NothingKeptInv(x, Position(n, x))

\* In time: only the next datagram gets past the layer, and it is handed up at
\* once to a handler that waits for it.
LEMMA ArrivesInTime ==
  ASSUME Exchange, NEW n \in Process, InTime,
         NEW i \in 1 .. Sent(n), Arrives(n, i)
  PROVE  Receipt(n)
<1> DEFINE b == newb[n]
           k == Sent(n)
           P == Position(n, b)
           r == P % SeqMod
           l == KeepsRun(Plus(r, 1), 0)
           v == newb[Other(n)].sent[i]
           counters == [t \in DOMAIN b.kept \cup {r} |-> IF t = r THEN v ELSE b.kept[t]]
           x == HandUp(n, b, counters, l)
           y == Layered(b, counters, l)
<1>1. /\ b \in Newb /\ k \in Nat /\ P \in Nat /\ P <= k /\ k <= P + 1
      /\ b.received = P % CounterMod /\ SideInv(n, b, k)
      /\ InOrder(newb[Other(n)].sent) /\ newb[Other(n)].sent \in Seq(Value)
  BY Alternate
<1>2. /\ maxDelay \in Nat /\ MaxDistance \in Nat /\ maxDelay < MaxDistance
      /\ SeqMod \in Nat \ {0} /\ messages \in Options
  BY Constants, HalfCircle DEF Exchange, InTime
<1>3. /\ b.layer = [seqRead |-> r, pending |-> {}] /\ b.timers = {}
      /\ DOMAIN b.kept = {}
  <2>1. NothingKeptInv(b, P) /\ KeptInv(b, k)
    BY DEF Exchange, NewbInv, Sent
  <2> QED  BY <2>1 DEF NothingKeptInv, KeptInv
<1>4. r \in SeqNr /\ Plus(r, 1) = (P + 1) % SeqMod
  <2> HIDE DEF P
  <2>1. r \in SeqNr
    BY <1>1, <1>2, QuotientRemainder DEF SeqNr
  <2>2. (r + 1) % SeqMod = (P + 1) % SeqMod
    BY <1>1, <1>2, RemainderPlus
  <2> QED  BY <2>1, <2>2 DEF Plus
<1>5. /\ b.mode \in {"running", "closing"}
      /\ k - i <= maxDelay
      /\ (i - 1) % SeqMod = r \/ IsGreater((i - 1) % SeqMod, r)
  BY <1>3 DEF Arrives, Alive, Keeps, Sent
<1>6. i = P + 1
  <2> SUFFICES ASSUME i # P + 1 PROVE FALSE
    OBVIOUS
  <2> DEFINE d == P - (i - 1)
  <2>1. i - 1 \in Nat /\ d \in 1 .. MaxDistance /\ (i - 1) + d = P
    <3> HIDE DEF P, k
    <3>1. i \in Nat /\ 1 <= i /\ i <= k
      BY <1>1 DEF k
    <3>2. i <= P
      BY <1>1, <3>1
    <3> QED  BY <1>1, <1>2, <1>5, <3>1, <3>2
  <2> HIDE DEF d, P
  <2>2. /\ (i - 1) % SeqMod # r
        /\ ~ IsGreater((i - 1) % SeqMod, r)
    BY <2>1, BehindIsNotAhead
  <2> QED  BY <1>5, <2>2
<1>7. /\ (i - 1) % SeqMod = r /\ ~ Keeps(b.layer, r)
      /\ v = P % CounterMod /\ k = P + 1 /\ v \in Value
  <2>1. i - 1 = P /\ k = P + 1
    BY <1>1, <1>6
  <2>2. v = P % CounterMod
    BY <1>1, <2>1 DEF InOrder, Sent
  <2> QED  BY <1>1, <1>3, <2>1, <2>2, IncRemainder DEF Keeps
<1>8. Reads(b.layer, r) = {l}
  <2>1. /\ 0 \in 0 .. SeqMod - 1 /\ 1 \in 0 .. SeqMod /\ 0 \in 0 .. SeqMod
    BY <1>2, Constants
  <2>2. Plus(r, 1) \in SeqNr
    BY <1>4, <2>1, PlusType
  <2>3. Plus(Plus(r, 1), 0) = Plus(r, 1)
    BY <1>2, <2>1, <2>2, PlusForm DEF SeqNr
  <2>4. DeliverPending(Plus(r, 1), {}) = [seqRead |-> Plus(r, 1), pending |-> {}]
    BY <2>1, <2>2, <2>3, DeliverRun, RunEmpty
  <2>5. l = [seqRead |-> Plus(r, 1), pending |-> {}]
    BY RunEmpty DEF KeepsRun
  <2> QED  BY <1>3, <2>4, <2>5 DEF Reads
<1>9. [b EXCEPT !.timers = b.timers] = b
  BY <1>1 DEF Newb
<1>10. newb' = [newb EXCEPT ![n] = x]
  BY <1>7, <1>8, <1>9 DEF Arrives
<1>11. DOMAIN counters = {r} /\ counters[r] = v
  BY <1>3
<1>12. x = Handle(n, y, v)
  <2>1. l = KeepsRun(Plus(r, 1), 0)
    OBVIOUS
  <2> HIDE DEF counters, r, b, v, l
  <2> QED  BY <1>4, <1>11, <2>1, HandUpOne
<1>13. /\ l = [seqRead |-> (P + 1) % SeqMod, pending |-> {}] /\ l \in Layer
  <2> HIDE DEF r
  <2>1. l = [seqRead |-> Plus(r, 1), pending |-> {}]
    BY RunEmpty DEF KeepsRun
  <2>2. Plus(r, 1) \in SeqNr
    BY <1>2, <1>4, PlusType
  <2> HIDE DEF l
  <2> QED  BY <1>4, <2>1, <2>2 DEF Layer
<1>14. <<>> \in Kept /\ DOMAIN <<>> = {}
  <2>1. <<>> \in [{} -> Value] /\ DOMAIN <<>> = {}
    <3>1. <<>> = [j \in {} |-> 0]
      OBVIOUS
    <3> QED  BY <3>1
  <2> QED  BY <2>1 DEF Kept
<1> HIDE DEF r, v, x, P, k, b
<1>15. /\ y \in Newb /\ y.layer = l /\ y.kept = <<>> /\ y.mode = b.mode
       /\ y.received = b.received /\ y.sent = b.sent /\ y.told = b.told
       /\ y.failed = b.failed /\ y.timers = b.timers
  <2> HIDE DEF counters, l
  <2>1. y = [b EXCEPT !.layer = l, !.kept = <<>>]
    <3>1. [s \in l.pending |-> counters[s]] = <<>>
      BY <1>13
    <3> QED  BY <3>1 DEF Layered
  <2> HIDE DEF y
  <2> QED  BY <1>1, <1>13, <1>14, <2>1 DEF Newb
<1> HIDE DEF y, l, counters
<1>16. CountedOf(y) = CountedOf(b) /\ Position(n, y) = P
  BY <1>15 DEF CountedOf, Position, P
<1>17. SideInv(n, y, k)
  <2>1. ClientInv(b) => ClientInv(y)
    BY <1>15, <1>16 DEF ClientInv, Done
  <2>2. ServerInv(b) => ServerInv(y)
    BY <1>15 DEF ServerInv
  <2> QED  BY <1>1, <1>15, <1>16, <2>1, <2>2 DEF SideInv
<1>18. Expected(y, v) /\ v # k % CounterMod
  BY <1>1, <1>7, <1>15, IncRemainder DEF Expected
<1>19. HandlesTo(n, y, k, x) /\ Position(n, x) = P + 1
  BY <1>1, <1>2, <1>5, <1>7, <1>12, <1>15, <1>16, <1>17, <1>18, Handles
<1>20. Moves(n, b, k, x) /\ x.layer = l /\ x.kept = <<>> /\ x.timers = {}
  BY <1>3, <1>15, <1>16, <1>19 DEF HandlesTo, Moves, P
<1>21. NothingKeptInv(x, Position(n, x))
  BY <1>13, <1>19, <1>20 DEF NothingKeptInv
<1>22. KeptInv(x, k)
  <2>1. Bounded(l)
    BY <1>13, FS_EmptySet, Constants DEF Bounded
  <2> QED  BY <1>13, <1>14, <1>20, <2>1 DEF KeptInv
<1> QED  BY <1>10, <1>20, <1>21, <1>22 DEF Receipt, k, b

\* Late: it is only known that the counters have not wrapped around.
LEMMA ArrivesLate ==
  ASSUME Exchange, NEW n \in Process, ~ InTime,
         NEW i \in 1 .. Sent(n), Arrives(n, i)
  PROVE  Receipt(n)
<1> DEFINE b == newb[n]
           k == Sent(n)
           s == (i - 1) % SeqMod
           v == newb[Other(n)].sent[i]
           counters == [t \in DOMAIN b.kept \cup {s} |-> IF t = s THEN v ELSE b.kept[t]]
           armed == IF Keeps(b.layer, s) THEN b.timers \cup {s} ELSE b.timers
<1>1. /\ messages < CounterMod /\ Alive(n)
      /\ s = b.layer.seqRead \/ Keeps(b.layer, s)
      /\ b \in Newb /\ k \in Nat /\ k < CounterMod
      /\ InOrder(newb[Other(n)].sent) /\ newb[Other(n)].sent \in Seq(Value)
  BY Alternate DEF Exchange, Arrives
<1>2. PICK l \in Reads(b.layer, s) :
        newb' = [newb EXCEPT ![n] = HandUp(n, [b EXCEPT !.timers = armed], counters, l)]
  BY DEF Arrives
<1>3. s \in SeqNr
  BY Constants, QuotientRemainder DEF SeqNr
<1>4. v \in Value /\ v < k
  <2>1. i - 1 \in Nat /\ i - 1 < CounterMod /\ i - 1 < k /\ i \in 1 .. Len(newb[Other(n)].sent)
    BY <1>1, Constants DEF Sent
  <2> QED  BY <1>1, <2>1, IncRemainder DEF InOrder
<1>5. /\ Bounded(b.layer) /\ DOMAIN b.kept = b.layer.pending
      /\ \A t \in DOMAIN b.kept : b.kept[t] < k
  BY <1>1 DEF Exchange, NewbInv, KeptInv, Sent
<1>6. \A t \in DOMAIN b.kept : b.kept[t] \in Value
  BY <1>1 DEF Newb, Kept
<1>7. /\ DOMAIN counters = b.layer.pending \cup {s} /\ DOMAIN counters \in SUBSET SeqNr
      /\ \A t \in DOMAIN counters : counters[t] \in Value /\ counters[t] < k
  BY <1>3, <1>4, <1>5, <1>6 DEF Bounded, Layer
<1>8. armed \in SUBSET SeqNr
  BY <1>1, <1>3 DEF Newb
<1>9. HandsUp(DOMAIN counters, l)
  BY <1>1, <1>3, <1>5, <1>7, ReadHandsUp
<1> DEFINE x == HandUp(n, [b EXCEPT !.timers = armed], counters, l)
<1>10. Moves(n, b, k, x) /\ KeptInv(x, k)
  <2> HIDE DEF armed, counters
  <2> QED  BY <1>1, <1>7, <1>8, <1>9, HandUpMoves
<1>11. NothingKeptInv(x, Position(n, x))
  BY DEF NothingKeptInv
<1> QED  BY <1>2, <1>10, <1>11 DEF Receipt

LEMMA TimeoutReceipt ==
  ASSUME Exchange, NEW n \in Process, NEW s \in newb[n].timers, TimeoutFires(n, s)
  PROVE  Receipt(n)
<1> DEFINE c == newb[n]
           k == Sent(n)
           timers == c.timers \ {s}
           b == [c EXCEPT !.timers = timers]
<1>1. /\ c \in Newb /\ k \in Nat /\ Alive(n) /\ c.mode \in {"running", "closing"}
      /\ SideInv(n, c, k) /\ KeptInv(c, k) /\ NothingKeptInv(c, Position(n, c))
  BY Alternate DEF Exchange, NewbInv, Sent, TimeoutFires, Alive
<1>2. ~ InTime /\ messages < CounterMod
  BY <1>1 DEF Exchange, NothingKeptInv
<1>3. /\ b \in Newb /\ b.layer = c.layer /\ b.kept = c.kept /\ b.mode = c.mode
      /\ b.received = c.received /\ b.sent = c.sent /\ b.told = c.told
      /\ b.failed = c.failed /\ timers \in SUBSET SeqNr
  BY <1>1 DEF Newb
<1>4. newb' = [newb EXCEPT ![n] =
        IF s \in b.layer.pending
          THEN HandUp(n, b, b.kept, DeliverPending(s, b.layer.pending))
          ELSE b]
  BY <1>3 DEF TimeoutFires
<1>5. CASE s \in c.layer.pending
  <2> DEFINE l == DeliverPending(s, c.layer.pending)
             x == HandUp(n, b, c.kept, l)
  <2>1. /\ DOMAIN c.kept = c.layer.pending /\ Bounded(c.layer)
        /\ \A t \in DOMAIN c.kept : c.kept[t] < k /\ c.kept[t] \in Value
    BY <1>1, <1>2 DEF KeptInv, Newb, Kept
  <2>2. c.layer.pending \in SUBSET SeqNr /\ Cardinality(c.layer.pending) \in Nat
        /\ Cardinality(c.layer.pending) <= MaxPending
    BY <2>1, BoundedFinite DEF Bounded
  <2>3. HandsUp(DOMAIN c.kept, l)
    BY <1>5, <2>1, <2>2, Constants, DeliverPendingHandsUp
  <2>4. Moves(n, c, k, x) /\ KeptInv(x, k)
    BY <1>1, <1>2, <1>3, <2>1, <2>2, <2>3, HandUpMoves
  <2>5. newb' = [newb EXCEPT ![n] = x]
    BY <1>3, <1>4, <1>5
  <2>6. NothingKeptInv(x, Position(n, x))
    BY <1>2 DEF NothingKeptInv
  <2> QED  BY <2>4, <2>5, <2>6 DEF Receipt
<1>6. CASE s \notin c.layer.pending
  <2>1. newb' = [newb EXCEPT ![n] = b]
    BY <1>3, <1>4, <1>6
  <2> HIDE DEF b
  <2>2. CountedOf(b) = CountedOf(c) /\ Position(n, b) = Position(n, c)
    BY <1>3 DEF CountedOf, Position
  <2>3. ClientInv(c) => ClientInv(b)
    BY <1>3, <2>2 DEF ClientInv, Done
  <2>4. ServerInv(c) => ServerInv(b)
    BY <1>3 DEF ServerInv
  <2>5. SideInv(n, b, k)
    BY <1>1, <1>3, <2>2, <2>3, <2>4 DEF SideInv
  <2>6. KeptInv(b, k)
    BY <1>1, <1>3 DEF KeptInv
  <2>7. NothingKeptInv(b, Position(n, b))
    BY <1>2 DEF NothingKeptInv
  <2>8. Moves(n, c, k, b)
    BY <1>1, <1>3, <2>2, <2>5, CountedType DEF Moves
  <2> QED  BY <2>1, <2>6, <2>7, <2>8 DEF Receipt
<1> QED  BY <1>5, <1>6

LEMMA ReceivesReceipt ==
  ASSUME Exchange, NEW n \in Process, Receives(n)
  PROVE  /\ Receipt(n) /\ Alive(n) /\ Len(newb[n].sent) < MaxSent
         /\ UNCHANGED driver
<1>1. CASE \E i \in 1 .. Sent(n) : Arrives(n, i)
  <2>1. PICK i \in 1 .. Sent(n) : Arrives(n, i)
    BY <1>1
  <2>2. Receipt(n)
    BY <2>1, ArrivesInTime, ArrivesLate
  <2> QED  BY <2>1, <2>2 DEF Arrives
<1>2. CASE \E s \in newb[n].timers : TimeoutFires(n, s)
  <2>1. PICK s \in newb[n].timers : TimeoutFires(n, s)
    BY <1>2
  <2>2. Receipt(n)
    BY <2>1, TimeoutReceipt
  <2>3. newb[n] \in Newb
    BY Alternate
  <2> QED  BY <2>1, <2>2, <2>3 DEF TimeoutFires, Newb
<1> QED  BY <1>1, <1>2 DEF Receives, Sent

-----------------------------------------------------------------------------
(***************************************************************************)
(* The invariant is inductive.                                             *)
(***************************************************************************)
LEMMA InitExchange ==
  ASSUME \A m \in LateOptions : m < CounterMod, Init
  PROVE  Exchange
<1>1. InTime \/ messages < CounterMod
  BY DEF Init
<1>2. /\ "client" \in Process /\ "server" \in Process /\ "client" # "server"
      /\ \A n \in Process : Other(n) \in Process
  BY DEF Process, Other
<1>3. <<>> \in Kept /\ DOMAIN <<>> = {} /\ <<>> \in Seq(Value) /\ Len(<<>>) = 0
  <2>1. <<>> \in [{} -> Value] /\ DOMAIN <<>> = {}
    <3>1. <<>> = [j \in {} |-> 0]
      OBVIOUS
    <3> QED  BY <3>1
  <2> QED  BY <2>1 DEF Kept
<1>4. /\ 0 \in Value /\ 0 \in SeqNr /\ 0 % CounterMod = 0 /\ 0 % SeqMod = 0
      /\ InitLayer = [seqRead |-> 0, pending |-> {}] /\ InitLayer \in Layer
  BY Constants DEF Value, SeqNr, InitLayer, Layer
<1>5. ASSUME NEW n \in Process
      PROVE  /\ newb[n] \in Newb
             /\ newb[n].sent = <<>> /\ newb[n].received = 0 /\ newb[n].told = 0
             /\ newb[n].layer = InitLayer /\ newb[n].kept = <<>> /\ newb[n].timers = {}
             /\ newb[n].mode = IF n = "client" THEN "idle" ELSE "running"
             /\ driver[n] = "await"
  BY <1>3, <1>4 DEF Init, Newb
<1>6. newb \in [Process -> Newb] /\ driver \in [Process -> {"await", "aborted"}]
  BY <1>5 DEF Init
<1>7. ASSUME NEW n \in Process
      PROVE  NewbInv(n, newb[n], Len(newb[Other(n)].sent))
  <2>1. Position(n, newb[n]) = 0 /\ CountedOf(newb[n]) = 0 /\ ~ Done(newb[n])
        /\ InOrder(newb[n].sent) /\ Len(newb[n].sent) = 0
    BY <1>3, <1>5 DEF Position, CountedOf, Done, InOrder
  <2>2. Len(newb[Other(n)].sent) = 0
    BY <1>2, <1>3, <1>5
  <2>3. messages \in Nat /\ 0 <= Limit
    BY Constants DEF Init, Limit
  <2>4. n = "client" => ClientInv(newb[n])
    BY <1>4, <1>5, <2>1, <2>3 DEF ClientInv
  <2>5. n = "server" => ServerInv(newb[n])
    BY <1>2, <1>4, <1>5, <2>1 DEF ServerInv
  <2>6. KeptInv(newb[n], 0)
    <3>1. Bounded(InitLayer)
      BY <1>4, FS_EmptySet, Constants DEF Bounded
    <3>2. DOMAIN newb[n].kept = {} /\ newb[n].layer = InitLayer /\ InitLayer.pending = {}
      BY <1>3, <1>4, <1>5
    <3> QED  BY <3>1, <3>2 DEF KeptInv
  <2>7. NothingKeptInv(newb[n], 0)
    BY <1>4, <1>5 DEF NothingKeptInv
  <2> QED  BY <2>1, <2>2, <2>4, <2>5, <2>6, <2>7 DEF NewbInv, SideInv
<1> QED  BY <1>1, <1>5, <1>6, <1>7 DEF Exchange, Init

\* The invariant of the next state, read in this one: newb n becomes x.
LEMMA NextExchange ==
  ASSUME Exchange, NEW n \in Process, NEW x \in Newb, newb' = [newb EXCEPT ![n] = x],
         driver' \in [Process -> {"await", "aborted"}], UNCHANGED <<messages, maxDelay>>,
         \A m \in Process : driver'[m] = "aborted" => newb'[m].told > 0,
         NewbInv(n, x, Sent(n)),
         NewbInv(Other(n), newb[Other(n)], Len(x.sent))
  PROVE  Exchange'
<1>1. Other(n) \in Process /\ Other(n) # n /\ Other(Other(n)) = n
      /\ \A m \in Process : m = n \/ m = Other(n)
  BY DEF Process, Other
<1>2. newb' \in [Process -> Newb] /\ newb'[n] = x /\ newb'[Other(n)] = newb[Other(n)]
  BY <1>1 DEF Exchange
<1>3. (InTime \/ messages < CounterMod)' /\ messages' \in Options /\ maxDelay' \in Delays
  BY DEF Exchange, InTime
<1>4. \A m \in Process : NewbInv(m, newb'[m], Len(newb'[Other(m)].sent))
  BY <1>1, <1>2 DEF Sent
<1>5. ASSUME NEW m \in Process
      PROVE  NewbInv(m, newb[m], Len(newb[Other(m)].sent))'
  <2>1. NewbInv(m, newb'[m], Len(newb'[Other(m)].sent))
    BY <1>4
  <2> QED  BY <2>1 DEF NewbInv, SideInv, ClientInv, ServerInv, KeptInv, NothingKeptInv,
                       Limit, InTime
<1> QED  BY <1>2, <1>3, <1>5 DEF Exchange

\* The other side stands where it stood when n goes forward.
LEMMA OtherStays ==
  ASSUME Exchange, NEW n \in Process, NEW x \in Newb, SideInv(n, x, Sent(n)),
         Position(n, newb[n]) <= Position(n, x), Len(newb[n].sent) <= Len(x.sent)
  PROVE  NewbInv(Other(n), newb[Other(n)], Len(x.sent))
<1> DEFINE o == Other(n)
           b == newb[o]
<1>1. o \in Process /\ Other(o) = n
  BY DEF Process, Other
<1>2. /\ b \in Newb /\ newb[n] \in Newb /\ Len(newb[n].sent) \in Nat /\ Len(x.sent) \in Nat
      /\ Position(o, b) \in Nat /\ Len(b.sent) \in Nat
  BY <1>1, CountedType DEF Exchange
<1>3. NewbInv(o, b, Len(newb[n].sent))
  BY <1>1 DEF Exchange
<1>4. KeptInv(b, Len(x.sent))
  <2>1. \A s \in DOMAIN b.kept : b.kept[s] \in Nat
    BY <1>2, Constants DEF Newb, Kept, Value
  <2> QED  BY <1>2, <1>3, <2>1 DEF NewbInv, KeptInv
<1>5. SideInv(o, b, Len(x.sent))
  <2>1. CASE n = "client"
    <3>1. o = "server"
      BY <2>1 DEF Other
    <3> QED  BY <1>2, <1>3, <3>1 DEF NewbInv, SideInv
  <2>2. CASE n = "server"
    <3>1. o = "client"
      BY <2>2 DEF Other
    <3>2. Len(x.sent) <= Len(b.sent)
      BY <2>2, <3>1 DEF SideInv, Sent, Position
    <3> QED  BY <1>2, <1>3, <3>1, <3>2 DEF NewbInv, SideInv
  <2> QED  BY <2>1, <2>2 DEF Process
<1> QED  BY <1>3, <1>4, <1>5 DEF NewbInv

LEMMA ReceivesKeeps ==
  ASSUME Exchange, NEW n \in Process, Receives(n), UNCHANGED <<messages, maxDelay>>
  PROVE  Exchange'
<1>1. Receipt(n) /\ Alive(n) /\ UNCHANGED driver
  BY ReceivesReceipt
<1>2. PICK x : /\ newb' = [newb EXCEPT ![n] = x]
               /\ Moves(n, newb[n], Sent(n), x)
               /\ KeptInv(x, Sent(n))
               /\ NothingKeptInv(x, Position(n, x))
  BY <1>1 DEF Receipt
<1>3. x \in Newb /\ NewbInv(n, x, Sent(n))
  BY <1>2 DEF Moves, NewbInv
<1>4. NewbInv(Other(n), newb[Other(n)], Len(x.sent))
  BY <1>2, <1>3, OtherStays DEF Moves
<1>5. \A m \in Process : driver'[m] = "aborted" => newb'[m].told > 0
  BY <1>1, <1>2 DEF Exchange, Alive
<1> QED  BY <1>1, <1>2, <1>3, <1>4, <1>5, NextExchange DEF Exchange

LEMMA StartKeeps ==
  ASSUME Exchange, Start, UNCHANGED <<messages, maxDelay>>
  PROVE  Exchange'
<1> DEFINE n == "client"
           b == newb[n]
           x == [b EXCEPT !.mode = "running", !.sent = <<0>>]
           k == Sent(n)
<1>1. n \in Process /\ b \in Newb /\ k \in Nat /\ NewbInv(n, b, k) /\ messages \in Nat
  BY Alternate, Constants DEF Exchange, Process, Sent
<1>2. newb' = [newb EXCEPT ![n] = x] /\ b.mode = "idle"
  BY <1>1 DEF Start, Exchange
<1>3. ClientInv(b) /\ b.sent = <<>> /\ Len(b.sent) = 0 /\ k = 0 /\ Position(n, b) = 0 /\ CountedOf(b) = 0
      /\ ~ Done(b) /\ b.received = 0 /\ b.told = 0
  <2>1. ClientInv(b) /\ b.sent = <<>> /\ Len(b.sent) = 0
    BY <1>1, <1>2 DEF NewbInv, SideInv, ClientInv
  <2>2. CountedOf(b) = 0 /\ ~ Done(b) /\ Position(n, b) = 0
    BY <2>1 DEF CountedOf, Done, Position
  <2>3. 0 % CounterMod = 0
    BY Constants
  <2> QED  BY <1>1, <1>2, <2>1, <2>2, <2>3 DEF ClientInv, NewbInv, SideInv
<1>4. /\ <<0>> \in Seq(Value) /\ Len(<<0>>) = 1 /\ <<0>>[1] = 0 /\ <<0>> # <<>>
  BY Constants DEF Value
<1>5. /\ x \in Newb /\ x.sent = <<0>> /\ x.mode = "running" /\ x.received = 0
      /\ x.told = 0 /\ x.layer = b.layer /\ x.kept = b.kept /\ x.timers = b.timers
  BY <1>1, <1>3, <1>4 DEF Newb
<1> HIDE DEF x, k
<1>6. Inc(0) # 0 /\ 0 % CounterMod = 0 /\ (1 - 1) % CounterMod = 0
  BY Constants DEF Inc
<1>7. CountedOf(x) = 0 /\ ~ Done(x) /\ Position(n, x) = 0 /\ InOrder(x.sent)
  BY <1>4, <1>5, <1>6 DEF CountedOf, Done, Position, InOrder
<1>8. ClientInv(x)
  BY <1>1, <1>4, <1>5, <1>6, <1>7 DEF ClientInv, Limit
<1>9. SideInv(n, x, k)
  BY <1>3, <1>4, <1>5, <1>7, <1>8 DEF SideInv
<1>10. NewbInv(n, x, k)
  BY <1>1, <1>3, <1>5, <1>7, <1>9 DEF NewbInv, KeptInv, NothingKeptInv
<1>11. NewbInv(Other(n), newb[Other(n)], Len(x.sent))
  <2>1. Position(n, newb[n]) <= Position(n, x) /\ Len(newb[n].sent) <= Len(x.sent)
    BY <1>3, <1>4, <1>5, <1>7
  <2> QED  BY <1>1, <1>5, <1>9, <2>1, OtherStays DEF k
<1>12. \A m \in Process : driver'[m] = "aborted" => newb'[m].told > 0
  BY <1>1, <1>2, <1>3, <1>5 DEF Exchange, Start
<1> QED  BY <1>1, <1>2, <1>5, <1>10, <1>11, <1>12, NextExchange DEF Exchange, Start, k

\* An action that does not touch what newb n has sent and counted: its newb
\* becomes x, whose mode or told may differ.
LEMMA SameMessages ==
  ASSUME Exchange, NEW n \in Process, NEW x \in Newb,
         x.sent = newb[n].sent, x.received = newb[n].received,
         x.layer = newb[n].layer, x.kept = newb[n].kept, x.timers = newb[n].timers,
         ClientInv(newb[n]) => ClientInv(x),
         ServerInv(newb[n]) => ServerInv(x)
  PROVE  /\ NewbInv(n, x, Sent(n))
         /\ NewbInv(Other(n), newb[Other(n)], Len(x.sent))
         /\ CountedOf(x) = CountedOf(newb[n])
<1> DEFINE b == newb[n]
<1>1. /\ b \in Newb /\ NewbInv(n, b, Sent(n))
      /\ Position(n, b) \in Nat /\ Len(b.sent) \in Nat
  BY Alternate, CountedType DEF Exchange, Sent
<1>2. CountedOf(x) = CountedOf(b) /\ Position(n, x) = Position(n, b)
  BY DEF CountedOf, Position
<1>3. SideInv(n, x, Sent(n))
  BY <1>1, <1>2 DEF NewbInv, SideInv
<1>4. NewbInv(n, x, Sent(n))
  BY <1>1, <1>2, <1>3 DEF NewbInv, KeptInv, NothingKeptInv
<1>5. NewbInv(Other(n), newb[Other(n)], Len(x.sent))
  BY <1>1, <1>2, <1>3, OtherStays
<1> QED  BY <1>2, <1>4, <1>5

LEMMA IoErrorKeeps ==
  ASSUME Exchange, NEW n \in Process, IoError(n), UNCHANGED <<messages, maxDelay>>
  PROVE  /\ Exchange'
         /\ \E x \in Newb : /\ newb' = [newb EXCEPT ![n] = x] /\ x.sent = newb[n].sent
                            /\ CountedOf(x) = CountedOf(newb[n])
<1> DEFINE b == newb[n]
           x == [b EXCEPT !.failed = TRUE, !.mode = "closing"]
<1>1. b \in Newb /\ b.mode \in {"running", "closing"} /\ driver[n] = "await"
  BY DEF Exchange, IoError, Alive
<1>2. newb' = [newb EXCEPT ![n] = x] /\ UNCHANGED driver
  BY <1>1 DEF IoError, Exchange
<1>3. /\ x \in Newb /\ x.sent = b.sent /\ x.received = b.received /\ x.told = b.told
      /\ x.layer = b.layer /\ x.kept = b.kept /\ x.timers = b.timers
      /\ x.mode = "closing" /\ x.failed = TRUE
  BY <1>1 DEF Newb
<1> HIDE DEF x
<1>4. CountedOf(x) = CountedOf(b) /\ (Done(x) <=> Done(b))
  BY <1>3 DEF CountedOf, Done
<1>5. ClientInv(b) => ClientInv(x)
  BY <1>1, <1>3, <1>4 DEF ClientInv
<1>6. ServerInv(b) => ServerInv(x)
  BY <1>1, <1>3 DEF ServerInv
<1>7. \A m \in Process : driver'[m] = "aborted" => newb'[m].told > 0
  BY <1>1, <1>2, <1>3 DEF Exchange
<1>8. Exchange'
  <2>1. NewbInv(n, x, Sent(n)) /\ NewbInv(Other(n), newb[Other(n)], Len(x.sent))
    BY <1>3, <1>5, <1>6, SameMessages
  <2> QED  BY <1>2, <1>3, <1>7, <2>1, NextExchange DEF Exchange
<1> QED  BY <1>2, <1>3, <1>4, <1>8

LEMMA QuitKeeps ==
  ASSUME Exchange, NEW n \in Process, Quit(n), UNCHANGED <<messages, maxDelay>>
  PROVE  /\ Exchange'
         /\ \E x \in Newb : /\ newb' = [newb EXCEPT ![n] = x] /\ x.sent = newb[n].sent
                            /\ CountedOf(x) = CountedOf(newb[n])
<1> DEFINE b == newb[n]
           x == [b EXCEPT !.mode = "down", !.told = @ + 1]
<1>1. b \in Newb /\ b.mode = "closing" /\ driver[n] = "await" /\ b.told \in Nat
  BY DEF Exchange, Quit, Alive, Newb
<1>2. newb' = [newb EXCEPT ![n] = x] /\ UNCHANGED driver
  BY <1>1 DEF Quit, Ended, Exchange
<1>3. /\ x \in Newb /\ x.sent = b.sent /\ x.received = b.received /\ x.told = b.told + 1
      /\ x.layer = b.layer /\ x.kept = b.kept /\ x.timers = b.timers
      /\ x.mode = "down" /\ x.failed = b.failed
  <2> DEFINE t == b.told + 1
  <2>1. t \in Nat /\ x = [b EXCEPT !.mode = "down", !.told = t]
    BY <1>1
  <2> HIDE DEF x, t
  <2>2. /\ x \in Newb /\ x.sent = b.sent /\ x.received = b.received /\ x.told = t
        /\ x.layer = b.layer /\ x.kept = b.kept /\ x.timers = b.timers
        /\ x.mode = "down" /\ x.failed = b.failed
    BY <1>1, <2>1 DEF Newb
  <2> QED  BY <2>2 DEF t
<1> HIDE DEF x
<1>4. CountedOf(x) = CountedOf(b) /\ (Done(x) <=> Done(b))
  BY <1>3 DEF CountedOf, Done
<1>5. ClientInv(b) => ClientInv(x)
  BY <1>1, <1>3, <1>4 DEF ClientInv
<1>6. ServerInv(b) => ServerInv(x)
  BY <1>1, <1>3 DEF ServerInv
<1>7. \A m \in Process : driver'[m] = "aborted" => newb'[m].told > 0
  BY <1>1, <1>2, <1>3 DEF Exchange
<1>8. Exchange'
  <2>1. NewbInv(n, x, Sent(n)) /\ NewbInv(Other(n), newb[Other(n)], Len(x.sent))
    BY <1>3, <1>5, <1>6, SameMessages
  <2> QED  BY <1>2, <1>3, <1>7, <2>1, NextExchange DEF Exchange
<1> QED  BY <1>2, <1>3, <1>4, <1>8

LEMMA DriverReceivesKeeps ==
  ASSUME Exchange, NEW n \in Process, DriverReceives(n), UNCHANGED <<messages, maxDelay>>
  PROVE  Exchange'
<1> DEFINE x == newb[n]
<1>1. /\ x \in Newb /\ newb' = newb /\ newb' = [newb EXCEPT ![n] = x]
  BY DEF DriverReceives, Exchange
<1>2. NewbInv(n, x, Sent(n)) /\ NewbInv(Other(n), newb[Other(n)], Len(x.sent))
  BY <1>1, SameMessages
<1>3. /\ driver' \in [Process -> {"await", "aborted"}]
      /\ \A m \in Process : driver'[m] = "aborted" => newb'[m].told > 0
  BY <1>1 DEF DriverReceives, Exchange
<1> QED  BY <1>1, <1>2, <1>3, NextExchange

LEMMA NextKeeps ==
  ASSUME Exchange, [Next]_vars
  PROVE  Exchange'
<1>1. CASE Next
  <2>1. UNCHANGED <<messages, maxDelay>>
    BY <1>1 DEF Next
  <2>2. PICK n \in Process : HandlesMail(n) \/ Receives(n) \/ IoError(n)
    BY <1>1 DEF Next
  <2>3. CASE n = "client" /\ Start
    BY <2>1, <2>3, StartKeeps
  <2>4. CASE Quit(n)
    BY <2>1, <2>4, QuitKeeps
  <2>5. CASE DriverReceives(n)
    BY <2>1, <2>5, DriverReceivesKeeps
  <2>6. CASE Receives(n)
    BY <2>1, <2>6, ReceivesKeeps
  <2>7. CASE IoError(n)
    BY <2>1, <2>7, IoErrorKeeps
  <2> QED  BY <2>2, <2>3, <2>4, <2>5, <2>6, <2>7 DEF HandlesMail
<1>2. CASE UNCHANGED vars
  <2> DEFINE x == newb["client"]
  <2>1. UNCHANGED messages /\ UNCHANGED maxDelay /\ UNCHANGED newb /\ UNCHANGED driver
    BY <1>2 DEF vars
  <2>2. "client" \in Process /\ x \in Newb /\ newb' = [newb EXCEPT !["client"] = x]
    BY <2>1 DEF Exchange, Process
  <2>3. /\ NewbInv("client", x, Sent("client"))
        /\ NewbInv(Other("client"), newb[Other("client")], Len(x.sent))
    BY <2>2, SameMessages
  <2>4. /\ driver' \in [Process -> {"await", "aborted"}]
        /\ \A m \in Process : driver'[m] = "aborted" => newb'[m].told > 0
    BY <2>1 DEF Exchange
  <2> HIDE DEF x
  <2> QED  BY <2>1, <2>2, <2>3, <2>4, NextExchange
<1> QED  BY <1>1, <1>2

LEMMA ExchangeInvariant ==
  ASSUME \A m \in LateOptions : m < CounterMod
  PROVE  Spec => []Exchange
<1>1. Init => Exchange
  BY InitExchange
<1>2. Exchange /\ [Next]_vars => Exchange'
  BY NextKeeps
<1> QED  BY <1>1, <1>2, PTL DEF Spec

-----------------------------------------------------------------------------
(***************************************************************************)
(* What follows.  Datagrams are let be late only in an exchange of fewer   *)
(* messages than there are counters: a counter of 2^32 messages ago would  *)
(* be the one a process waits for.                                         *)
(***************************************************************************)

\* In any state of an exchange the variables have the values they are declared for.
THEOREM TypeCorrect ==
  ASSUME \A m \in LateOptions : m < CounterMod
  PROVE  Spec => []TypeOK
<1>1. Exchange => TypeOK
  <2> SUFFICES ASSUME Exchange PROVE TypeOK
    OBVIOUS
  <2>1. ASSUME NEW n \in Process
        PROVE  /\ newb[n].mode \in {"idle", "running", "closing", "down"}
               /\ newb[n].received \in 0 .. CounterMod - 1
               /\ newb[n].sent \in Seq(0 .. CounterMod - 1)
               /\ newb[n].layer \in Layer
               /\ DOMAIN newb[n].kept = newb[n].layer.pending
               /\ newb[n].timers \subseteq SeqNr
               /\ newb[n].told \in 0 .. 2 /\ newb[n].failed \in BOOLEAN
    <3>1. newb[n] \in Newb /\ NewbInv(n, newb[n], Len(newb[Other(n)].sent))
      BY DEF Exchange
    <3>2. newb[n].told \in 0 .. 2
      BY <3>1 DEF NewbInv, SideInv, ClientInv, ServerInv, Process
    <3>3. DOMAIN newb[n].kept = newb[n].layer.pending
      BY <3>1 DEF NewbInv, KeptInv
    <3> QED  BY <3>1, <3>2, <3>3 DEF Newb, Value
  <2> QED  BY <2>1 DEF Exchange, TypeOK
<1> QED  BY <1>1, ExchangeInvariant, PTL

\* While datagrams are in time, the layer keeps nothing back and a number it has
\* gone past is a counter that its handler has answered.
THEOREM InStepAlways ==
  ASSUME \A m \in LateOptions : m < CounterMod
  PROVE  Spec => []InStep
<1>1. Exchange => InStep
  <2> SUFFICES ASSUME Exchange PROVE InStep
    OBVIOUS
  <2>1. "client" \in Process /\ "server" \in Process
    BY DEF Process
  <2>2. \A n \in Process : NothingKeptInv(newb[n], Position(n, newb[n]))
    BY DEF Exchange, NewbInv
  <2>3. Counted = CountedOf(newb["client"])
    BY DEF Counted, CountedOf
  <2>4. SUFFICES ASSUME InTime
                 PROVE  /\ \A n \in Process : newb[n].layer.pending = {}
                        /\ newb["server"].layer.seqRead = Len(newb["server"].sent) % SeqMod
                        /\ newb["client"].layer.seqRead = Counted % SeqMod
    BY DEF InStep
  <2>5. ASSUME NEW n \in Process
        PROVE  /\ newb[n].layer.seqRead = Position(n, newb[n]) % SeqMod
               /\ newb[n].layer.pending = {}
    <3> DEFINE r == Position(n, newb[n]) % SeqMod
    <3>1. newb[n].layer = [seqRead |-> r, pending |-> {}]
      BY <2>2, <2>4 DEF NothingKeptInv
    <3> HIDE DEF r
    <3>2. newb[n].layer.seqRead = r /\ newb[n].layer.pending = {}
      BY <3>1
    <3> QED  BY <3>2 DEF r
  <2>6. /\ newb["server"].layer.seqRead = Position("server", newb["server"]) % SeqMod
        /\ newb["client"].layer.seqRead = Position("client", newb["client"]) % SeqMod
        /\ \A n \in Process : newb[n].layer.pending = {}
    BY <2>1, <2>5
  <2> QED  BY <2>3, <2>6 DEF Position
<1> QED  BY <1>1, ExchangeInvariant, PTL

\* The driver of the client ends when all messages are counted, unless its newb
\* has failed, and the one of the server after a failure only.
THEOREM EveryEndHasAReason ==
  ASSUME \A m \in LateOptions : m < CounterMod
  PROVE  Spec => []EndsForAReason
<1>1. Exchange => EndsForAReason
  <2> SUFFICES ASSUME Exchange PROVE EndsForAReason
    OBVIOUS
  <2>1. /\ "client" \in Process /\ "server" \in Process
        /\ newb["client"] \in Newb /\ newb["server"] \in Newb
        /\ ClientInv(newb["client"]) /\ ServerInv(newb["server"])
    BY DEF Process, Exchange, NewbInv, SideInv
  <2>2. Counted = CountedOf(newb["client"])
    BY DEF Counted, CountedOf
  <2>3. ASSUME driver["client"] = "aborted", ~ newb["client"].failed
        PROVE  Counted = IF messages = 0 THEN 1 ELSE messages
    <3>1. newb["client"].told > 0
      BY <2>1, <2>3 DEF Exchange
    <3>2. Done(newb["client"])
      BY <2>1, <2>3, <3>1 DEF ClientInv
    <3> QED  BY <2>1, <2>2, <3>2 DEF ClientInv, Done, Limit
  <2>4. ASSUME driver["server"] = "aborted"
        PROVE  newb["server"].failed
    <3>1. newb["server"].told > 0
      BY <2>1, <2>4 DEF Exchange
    <3> QED  BY <2>1, <3>1 DEF ServerInv
  <2> QED  BY <2>3, <2>4 DEF EndsForAReason
<1> QED  BY <1>1, ExchangeInvariant, PTL

\* Server and client echo and count in turn, whatever the layer keeps or gives up.
THEOREM ImplementsAbstract ==
  ASSUME \A m \in LateOptions : m < CounterMod
  PROVE  Spec => ImplementsPingPong
<1> DEFINE E == Len(newb["server"].sent)
           C == CountedOf(newb["client"])
<1>1. Counted = C /\ Counted' = C'
  BY DEF Counted, CountedOf
<1>2. Init => Abstract!Init
  <2> SUFFICES ASSUME Init PROVE Abstract!Init
    OBVIOUS
  <2>1. newb["server"].sent = <<>> /\ newb["client"].sent = <<>>
    BY DEF Init, Process
  <2>2. E = 0 /\ C = 0
    BY <2>1 DEF CountedOf
  <2> QED  BY <1>1, <2>2 DEF Abstract!Init
<1>3. Exchange /\ [Next]_vars => [Abstract!Next]_(Abstract!ppVars)
  <2> SUFFICES ASSUME Exchange, [Next]_vars
               PROVE  Abstract!Next \/ (E' = E /\ C' = C)
    BY <1>1 DEF Abstract!ppVars
  <2>1. /\ "client" \in Process /\ "server" \in Process /\ "client" # "server"
        /\ newb["client"] \in Newb /\ newb["server"] \in Newb
        /\ newb \in [Process -> Newb]
    BY DEF Process, Exchange
  <2>2. /\ E \in Nat /\ C \in Nat /\ C <= E /\ E <= C + 1 /\ MaxSent \in Nat
        /\ Sent("client") = E /\ Sent("server") \in Nat
        /\ E <= Sent("server") /\ Sent("server") <= E + 1
        /\ Sent("server") = Len(newb["client"].sent)
    <3>1. Other("client") = "server" /\ Other("server") = "client"
      BY DEF Other
    <3>2. Position("client", newb["client"]) = C /\ Position("server", newb["server"]) = E
      BY <2>1 DEF Position
    <3> QED  BY <2>1, <3>1, <3>2, Alternate, Constants DEF Sent
  <2>3. CASE \E n \in Process : Receives(n)
    <3>1. PICK n \in Process : Receives(n)
      BY <2>3
    <3>2. PICK x : /\ newb' = [newb EXCEPT ![n] = x]
                   /\ Moves(n, newb[n], Sent(n), x)
      BY <3>1, ReceivesReceipt DEF Receipt
    <3>3. Len(newb[n].sent) < MaxSent
      BY <3>1, ReceivesReceipt
    <3>4. x \in Newb /\ Position(n, x) \in Nat /\ Position(n, x) <= Sent(n)
          /\ Position(n, newb[n]) <= Position(n, x)
      BY <3>2, CountedType DEF Moves, SideInv
    <3>5. CASE n = "client"
      <4>1. E' = E /\ C' = CountedOf(x) /\ C <= C' /\ C' <= E
        BY <2>1, <2>2, <3>2, <3>4, <3>5 DEF Position
      <4>2. C' \in Nat
        BY <3>4, <3>5, <4>1 DEF Position
      <4>3. C' = C \/ (C < E /\ C' = C + 1)
        BY <2>2, <4>1, <4>2
      <4> QED  BY <1>1, <4>1, <4>3 DEF Abstract!Next, Abstract!Count
    <3>6. CASE n = "server"
      <4>1. C' = C /\ E' = Len(x.sent) /\ E <= E' /\ E' <= Sent("server") /\ E < MaxSent
        BY <2>1, <2>2, <3>2, <3>3, <3>4, <3>6 DEF Position
      <4>2. Len(newb["client"].sent) <= C + 1
        BY <2>1, CountedType
      <4>3. E' \in Nat
        BY <3>4, <3>6, <4>1 DEF Position
      <4>4. E' = E \/ (E = C /\ C < MaxSent + 1 /\ E' = E + 1)
        <5>1. \A e, f, c, s, max \in Nat :
                 /\ c <= e /\ e <= f /\ f <= s /\ s <= c + 1 /\ e < max
                 => f = e \/ (e = c /\ c < max + 1 /\ f = e + 1)
          OBVIOUS
        <5>2. Sent("server") <= C + 1
          BY <2>2, <4>2
        <5> QED  BY <2>2, <4>1, <4>3, <5>1, <5>2
      <4> QED  BY <1>1, <4>1, <4>4 DEF Abstract!Next, Abstract!Echo
    <3> QED  BY <3>1, <3>5, <3>6 DEF Process
  <2>4. CASE Start
    <3>1. /\ newb'["server"] = newb["server"] /\ newb["client"].mode = "idle"
          /\ newb'["client"] = [newb["client"] EXCEPT !.mode = "running", !.sent = <<0>>]
      BY <2>1, <2>4 DEF Start
    <3>2. ClientInv(newb["client"])
      BY <2>1 DEF Exchange, NewbInv, SideInv
    <3>3. newb["client"].sent = <<>> /\ newb["client"].received = 0 /\ C = 0
      <4>1. newb["client"].sent = <<>>
        BY <3>1, <3>2 DEF ClientInv
      <4>2. C = 0 /\ 0 % CounterMod = 0
        BY <4>1, Constants DEF CountedOf
      <4> QED  BY <3>2, <4>1, <4>2 DEF ClientInv
    <3>4. newb'["client"].sent = <<0>> /\ newb'["client"].received = 0
      BY <2>1, <3>1, <3>3 DEF Newb
    <3>5. C' = 0
      BY <3>4, Constants DEF CountedOf, Inc
    <3> QED  BY <3>1, <3>3, <3>5
  <2>5. CASE \E n \in Process : Quit(n) \/ IoError(n)
    <3>1. PICK n \in Process : Quit(n) \/ IoError(n)
      BY <2>5
    <3>2. UNCHANGED <<messages, maxDelay>>
      BY DEF Next, vars
    <3>3. PICK x \in Newb : /\ newb' = [newb EXCEPT ![n] = x] /\ x.sent = newb[n].sent
                            /\ CountedOf(x) = CountedOf(newb[n])
      BY <3>1, <3>2, QuitKeeps, IoErrorKeeps
    <3> QED  BY <2>1, <3>3
  <2>6. CASE UNCHANGED newb
    BY <2>6 DEF CountedOf
  <2>7. \/ \E n \in Process : Receives(n)
        \/ Start
        \/ \E n \in Process : Quit(n) \/ IoError(n)
        \/ UNCHANGED newb
    BY DEF Next, HandlesMail, DriverReceives, vars
  <2> QED  BY <2>3, <2>4, <2>5, <2>6, <2>7
<1> QED  BY <1>2, <1>3, ExchangeInvariant, PTL DEF Spec, ImplementsPingPong, Abstract!Spec

=============================================================================
