---------------------- MODULE PingPongTcpBrokersProofs ----------------------
(***************************************************************************)
(* Proofs about PingPongTcpBrokers for every number of messages and any    *)
(* premature end of a process.                                             *)
(***************************************************************************)
EXTENDS PingPongTcpBrokers, TLAPS

-----------------------------------------------------------------------------
\* The client wants at least one answer.
LEMMA TargetType == Target \in Nat \ {0}
  BY MessagesAssumption DEF Target

(***************************************************************************)
(* The inductive invariant, action by action.                              *)
(***************************************************************************)

LEMMA BrokersInvInit == Init => BrokersInv
<1> SUFFICES ASSUME Init PROVE BrokersInv
  OBVIOUS
<1>1. received \in 0 .. Target
  BY TargetType DEF Init
<1>2. TypeOK
  BY <1>1 DEF Init, TypeOK
<1>3. QED
  BY <1>2 DEF Init, BrokersInv, OneInFlight, DriverCanFinish, Process

\* The server's side up to its first read, and a client that finds nobody.
LEMMA BrokersInvSetUp ==
  BrokersInv /\ (Listen \/ Introduced \/ ConnectFails \/ Accept) => BrokersInv'
<1>1. BrokersInv /\ Listen => BrokersInv'
  BY DEF Listen, BrokersInv, TypeOK, OneInFlight, DriverCanFinish, Process
<1>2. BrokersInv /\ Introduced => BrokersInv'
  BY DEF Introduced, BrokersInv, TypeOK, OneInFlight, DriverCanFinish, Process
<1>3. BrokersInv /\ ConnectFails => BrokersInv'
  BY DEF ConnectFails, BrokersInv, TypeOK, OneInFlight, DriverCanFinish, Process
<1>4. BrokersInv /\ Accept => BrokersInv'
  BY DEF Accept, BrokersInv, TypeOK, OneInFlight, DriverCanFinish, Process
<1>5. QED
  BY <1>1, <1>2, <1>3, <1>4

LEMMA BrokersInvConnect == BrokersInv /\ Connect => BrokersInv'
  BY DEF Connect, BrokersInv, TypeOK, OneInFlight, DriverCanFinish, Process

LEMMA BrokersInvStart == BrokersInv /\ Start => BrokersInv'
  BY TargetType
  DEF Start, BrokersInv, TypeOK, OneInFlight, DriverCanFinish, Process

LEMMA BrokersInvServerReads == BrokersInv /\ ServerReads => BrokersInv'
  BY DEF ServerReads, Echoes, BrokersInv, TypeOK, OneInFlight, DriverCanFinish,
         Process

LEMMA BrokersInvClientReads == BrokersInv /\ ClientReads => BrokersInv'
<1> SUFFICES ASSUME BrokersInv, ClientReads PROVE BrokersInv'
  OBVIOUS
<1>1. received < Target /\ stream["client"] = 1 /\ stream["server"] = 0
  BY DEF ClientReads, BrokersInv, TypeOK, OneInFlight, Process
<1>2. TypeOK'
  <2>1. received' \in 0 .. Target
    BY <1>1, TargetType DEF ClientReads, BrokersInv, TypeOK
  <2>2. stream' \in [Process -> 0 .. 1]
    BY <1>1 DEF ClientReads, BrokersInv, TypeOK, Process
  <2>3. quits' \in [Process -> Nat]
    BY DEF ClientReads, QuitSent, BrokersInv, TypeOK, Process
  <2>4. QED
    BY <2>1, <2>2, <2>3 DEF ClientReads, BrokersInv, TypeOK
<1>3. OneInFlight'
  <2>1. CASE ~GotAll
    <3>1. received' < Target
      BY <2>1, MessagesAssumption DEF ClientReads, GotAll, Target, BrokersInv, TypeOK
    <3>2. stream'["client"] = 0
      BY <1>1, <2>1 DEF ClientReads, BrokersInv, TypeOK, Process
    <3>3. QED
      BY <3>1, <3>2 DEF ClientReads, OneInFlight
  <2>2. CASE GotAll
    BY <1>1, <2>2 DEF ClientReads, BrokersInv, TypeOK, OneInFlight, Process
  <2>3. QED
    BY <2>1, <2>2
<1>4. QED
  BY <1>2, <1>3 DEF ClientReads, BrokersInv, DriverCanFinish

LEMMA BrokersInvClosed ==
  ASSUME BrokersInv, NEW p \in Process, ConnectionClosed(p) PROVE BrokersInv'
<1>1. TypeOK'
  BY DEF ConnectionClosed, QuitSent, BrokersInv, TypeOK, Process
<1>2. DriverCanFinish'
  BY DEF ConnectionClosed, QuitSent, BrokersInv, TypeOK, DriverCanFinish, Process
<1>3. QED
  BY <1>1, <1>2 DEF ConnectionClosed, BrokersInv, TypeOK, OneInFlight, Process

LEMMA BrokersInvDriver ==
  ASSUME BrokersInv, NEW p \in Process, DriverReceives(p) \/ Exits(p) \/ Crash(p)
  PROVE  BrokersInv'
<1>1. CASE DriverReceives(p)
  BY <1>1 DEF DriverReceives, BrokersInv, TypeOK, OneInFlight, DriverCanFinish, Process
<1>2. CASE Exits(p)
  BY <1>2 DEF Exits, BrokersInv, TypeOK, OneInFlight, DriverCanFinish, Process
<1>3. CASE Crash(p)
  BY <1>3 DEF Crash, BrokersInv, TypeOK, OneInFlight, DriverCanFinish, Process
<1>4. QED
  BY <1>1, <1>2, <1>3

LEMMA BrokersInvNext == BrokersInv /\ [Next]_vars => BrokersInv'
<1>1. BrokersInv /\ UNCHANGED vars => BrokersInv'
  BY DEF vars, BrokersInv, TypeOK, OneInFlight, DriverCanFinish
<1>2. QED
  BY <1>1, BrokersInvSetUp, BrokersInvConnect, BrokersInvStart,
     BrokersInvServerReads, BrokersInvClientReads, BrokersInvClosed, BrokersInvDriver
  DEF Next, Progress

-----------------------------------------------------------------------------
(***************************************************************************)
(* The theorems.                                                           *)
(***************************************************************************)

\* The inductive invariant holds.
THEOREM BrokersInvAlways == Spec => []BrokersInv
  BY BrokersInvInit, BrokersInvNext, PTL DEF Spec

\* Type correctness; in particular at most one counter is on its way to either
\* side and the client never counts more than it wants.
THEOREM BrokersTypeCorrect == Spec => []TypeOK
<1>1. BrokersInv => TypeOK
  BY DEF BrokersInv
<1>2. QED
  BY <1>1, BrokersInvAlways, PTL

\* The client's driver is never left without its broker and without a message.
THEOREM DriverCanAlwaysFinish == Spec => []DriverCanFinish
<1>1. BrokersInv => DriverCanFinish
  BY DEF BrokersInv
<1>2. QED
  BY <1>1, BrokersInvAlways, PTL

\* Every step is a step of PingPong or leaves its variables alone.
LEMMA BrokersNextAbstract ==
  ASSUME BrokersInv, [Next]_vars PROVE [Abstract!Next]_(Abstract!ppVars)
<1> DEFINE Step == Abstract!Next \/ UNCHANGED Abstract!ppVars
<1>1. UNCHANGED <<received, stream>> => Step
  BY DEF Abstract!ppVars
<1>2. ASSUME Start PROVE Step
  BY <1>2 DEF Start, BrokersInv, TypeOK, Process, Abstract!ppVars
<1>3. ASSUME ServerReads PROVE Step
  BY <1>3
  DEF ServerReads, Echoes, BrokersInv, TypeOK, OneInFlight, Process,
      Abstract!Next, Abstract!Echo
<1>4. ASSUME ClientReads PROVE Step
  BY <1>4
  DEF ClientReads, BrokersInv, TypeOK, OneInFlight, Process,
      Abstract!Next, Abstract!Count
<1>5. Step
  BY <1>1, <1>2, <1>3, <1>4
  DEF Next, Progress, Listen, Introduced, Connect, ConnectFails, Accept,
      ConnectionClosed, DriverReceives, Exits, Crash, vars
<1>6. QED
  BY <1>5

\* With brokers pingpong_tcp implements PingPong, even if either process ends
\* prematurely.
THEOREM BrokersImplementation == Spec => ImplementsPingPong
<1>1. Init => Abstract!Init
  BY DEF Init, Abstract!Init, Process
<1>2. BrokersInv /\ [Next]_vars => [Abstract!Next]_(Abstract!ppVars)
  BY BrokersNextAbstract
<1>3. QED
  BY <1>1, <1>2, BrokersInvAlways, PTL DEF Spec, ImplementsPingPong, Abstract!Spec
=============================================================================
