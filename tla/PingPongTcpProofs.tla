-------------------------- MODULE PingPongTcpProofs --------------------------
(***************************************************************************)
(* Proofs about PingPongTcp for every number of messages, every size of a  *)
(* counter, whole and split reads and any premature end of a process.      *)
(***************************************************************************)
EXTENDS PingPongTcp, TLAPS

-----------------------------------------------------------------------------
\* The client wants at least one answer.
LEMMA TargetType == Target \in Nat \ {0}
  BY MessagesAssumption DEF Target

\* A payload is a part of what is on its way, and all of it while reads are
\* whole and one counter is on its way.
LEMMA ServerChunk ==
  ASSUME TypeOK, NEW k \in ServerChunks
  PROVE  /\ k \in 1 .. stream["server"]
         /\ whole => k = stream["server"]
  BY DEF TypeOK, Process, ServerChunks, AtMost

LEMMA ClientChunk ==
  ASSUME TypeOK, NEW k \in ClientChunks
  PROVE  /\ k \in 1 .. stream["client"]
         /\ whole /\ stream["client"] \in {0, Size} => k = stream["client"]
  BY SizeAssumption DEF TypeOK, Process, ClientChunks, AtMost, Exactly

-----------------------------------------------------------------------------
(***************************************************************************)
(* The inductive invariant, action by action.                              *)
(***************************************************************************)

LEMMA TcpInvInit == Init => TcpInv
<1> SUFFICES ASSUME Init PROVE TcpInv
  OBVIOUS
<1>1. TypeOK
  <2>1. received \in 0 .. Target
    BY TargetType DEF Init
  <2>2. stream \in [Process -> Nat] /\ quits \in [Process -> Nat]
    BY DEF Init
  <2>3. QED
    BY <2>1, <2>2 DEF Init, TypeOK
<1>2. QuitsAddUp
  BY DEF Init, QuitsAddUp, Process
<1>3. OneInFlight
  BY DEF Init, OneInFlight, Process
<1>4. QED
  BY <1>1, <1>2, <1>3, TargetType DEF Init, TcpInv, Process

LEMMA TcpInvListen == TcpInv /\ Listen /\ UNCHANGED whole => TcpInv'
  BY DEF Listen, TcpInv, TypeOK, QuitsAddUp, OneInFlight, Process

LEMMA TcpInvConnect == TcpInv /\ Connect /\ UNCHANGED whole => TcpInv'
<1> SUFFICES ASSUME TcpInv, Connect, UNCHANGED whole PROVE TcpInv'
  OBVIOUS
<1>1. TypeOK'
  BY DEF Connect, TcpInv, TypeOK
<1>2. QuitsAddUp'
  BY DEF Connect, TcpInv, TypeOK, QuitsAddUp, Process
<1>3. QED
  BY <1>1, <1>2 DEF Connect, TcpInv, TypeOK, OneInFlight, Process

LEMMA TcpInvConnectFails == TcpInv /\ ConnectFails /\ UNCHANGED whole => TcpInv'
<1> SUFFICES ASSUME TcpInv, ConnectFails, UNCHANGED whole PROVE TcpInv'
  OBVIOUS
<1>1. TypeOK'
  BY DEF ConnectFails, TcpInv, TypeOK, Process
<1>2. QuitsAddUp'
  BY DEF ConnectFails, TcpInv, TypeOK, QuitsAddUp, Process
<1>3. QED
  BY <1>1, <1>2 DEF ConnectFails, TcpInv, TypeOK, OneInFlight, Process

LEMMA TcpInvAccept == TcpInv /\ Accept /\ UNCHANGED whole => TcpInv'
  BY DEF Accept, TcpInv, TypeOK, QuitsAddUp, OneInFlight, Process

LEMMA TcpInvStart == TcpInv /\ Start /\ UNCHANGED whole => TcpInv'
  BY SizeAssumption
  DEF Start, TcpInv, TypeOK, QuitsAddUp, OneInFlight, Process

LEMMA TcpInvServerReads == TcpInv /\ ServerReads /\ UNCHANGED whole => TcpInv'
<1> SUFFICES ASSUME TcpInv, NEW k \in ServerChunks,
                    mode["server"] = "running",
                    stream' = Echoes(k),
                    UNCHANGED <<received, responder, exact, mode, driver, quits>>,
                    UNCHANGED whole
             PROVE  TcpInv'
  BY DEF ServerReads
<1>1. k \in 1 .. stream["server"] /\ (whole => k = stream["server"])
  BY ServerChunk DEF TcpInv
<1>2. TypeOK'
  <2>1. stream' \in [Process -> Nat]
    BY <1>1, SizeAssumption DEF Echoes, TcpInv, TypeOK, Process
  <2>2. QED
    BY <2>1 DEF TcpInv, TypeOK
<1>3. ASSUME whole PROVE OneInFlight'
  <2>1. stream["server"] = Size /\ stream["client"] = 0
    BY <1>1, <1>3, SizeAssumption DEF TcpInv, TypeOK, OneInFlight, Process
  <2>2. stream'["server"] = 0 /\ stream'["client"] = Size
    BY <1>1, <1>3, <2>1, SizeAssumption DEF Echoes, TcpInv, TypeOK, Process
  <2>3. QED
    BY <1>3, <2>1, <2>2, SizeAssumption DEF TcpInv, OneInFlight
<1>4. QED
  BY <1>2, <1>3 DEF TcpInv, QuitsAddUp

LEMMA TcpInvClientReads == TcpInv /\ ClientReads /\ UNCHANGED whole => TcpInv'
<1> SUFFICES ASSUME TcpInv, NEW k \in ClientChunks,
                    mode["client"] = "running",
                    received' = received + 1,
                    exact' = TRUE,
                    Continues(k) \/ Completes(k),
                    UNCHANGED <<responder, driver, whole>>
             PROVE  TcpInv'
  BY DEF ClientReads
<1>1. /\ k \in 1 .. stream["client"]
      /\ whole => k = stream["client"]
  BY ClientChunk DEF TcpInv, OneInFlight
<1>2. received < Target
  BY DEF TcpInv
<1>3. TypeOK'
  <2>1. stream' \in [Process -> Nat]
    BY <1>1, SizeAssumption DEF Continues, Completes, TcpInv, TypeOK, Process
  <2>2. quits' \in [Process -> Nat]
    BY DEF Continues, Completes, QuitSent, TcpInv, TypeOK, Process
  <2>3. received' \in 0 .. Target
    BY <1>2, TargetType DEF TcpInv, TypeOK
  <2>4. QED
    BY <2>1, <2>2, <2>3 DEF Continues, Completes, TcpInv, TypeOK
<1>4. CASE Continues(k)
  <2>1. received' < Target
    BY <1>4, <1>2, MessagesAssumption DEF Continues, GotAll, Target, TcpInv, TypeOK
  <2>2. ASSUME whole PROVE OneInFlight'
    <3>1. stream["client"] = Size /\ stream["server"] = 0
      BY <1>1, <2>2, SizeAssumption DEF TcpInv, TypeOK, OneInFlight, Process
    <3>2. stream'["client"] = 0 /\ stream'["server"] = Size
      BY <1>1, <1>4, <2>2, <3>1, SizeAssumption
      DEF Continues, TcpInv, TypeOK, Process
    <3>3. QED
      BY <1>4, <2>1, <3>2, SizeAssumption DEF Continues, OneInFlight
  <2>3. QED
    BY <1>4, <1>3, <2>1, <2>2 DEF Continues, TcpInv, QuitsAddUp
<1>5. CASE Completes(k)
  <2>1. whole => OneInFlight'
    BY <1>5, <1>1, SizeAssumption
    DEF Completes, TcpInv, TypeOK, OneInFlight, Process
  <2>2. QuitsAddUp'
    BY <1>5 DEF Completes, QuitSent, TcpInv, TypeOK, QuitsAddUp, Process
  <2>3. QED
    BY <1>5, <1>3, <2>1, <2>2 DEF Completes, TcpInv, TypeOK, Process
<1>6. QED
  BY <1>4, <1>5

LEMMA TcpInvIoError == 
  ASSUME TcpInv, NEW p \in Process, IoError(p), UNCHANGED whole PROVE TcpInv'
<1>1. TypeOK'
  BY DEF IoError, QuitSent, TcpInv, TypeOK, Process
<1>2. QuitsAddUp'
  BY DEF IoError, QuitSent, TcpInv, TypeOK, QuitsAddUp, Process
<1>3. QED
  BY <1>1, <1>2 DEF IoError, TcpInv, TypeOK, OneInFlight, Process, Other

LEMMA TcpInvDriver ==
  ASSUME TcpInv, NEW p \in Process, DriverReceives(p) \/ Crash(p), UNCHANGED whole
  PROVE  TcpInv'
<1>1. CASE DriverReceives(p)
  BY <1>1 DEF DriverReceives, TcpInv, TypeOK, QuitsAddUp, OneInFlight, Process
<1>2. CASE Crash(p)
  BY <1>2 DEF Crash, TcpInv, TypeOK, QuitsAddUp, OneInFlight, Process
<1>3. QED
  BY <1>1, <1>2

LEMMA TcpInvNext == TcpInv /\ [Next]_vars => TcpInv'
<1>1. TcpInv /\ UNCHANGED vars => TcpInv'
  BY DEF vars, TcpInv, TypeOK, QuitsAddUp, OneInFlight
<1>2. QED
  BY <1>1, TcpInvListen, TcpInvConnect, TcpInvConnectFails, TcpInvAccept, TcpInvStart,
     TcpInvServerReads, TcpInvClientReads, TcpInvIoError, TcpInvDriver
  DEF Next, Progress

-----------------------------------------------------------------------------
(***************************************************************************)
(* The theorems.                                                           *)
(***************************************************************************)

\* The inductive invariant holds, for whole and split reads.
THEOREM TcpInvAlways == Spec => []TcpInv
  BY TcpInvInit, TcpInvNext, PTL DEF Spec

\* Type correctness; in particular the client never counts more than it wants.
THEOREM TcpTypeCorrect == Spec => []TypeOK
<1>1. TcpInv => TypeOK
  BY DEF TcpInv
<1>2. QED
  BY <1>1, TcpInvAlways, PTL

\* A newb that ends tells its driver exactly once, whatever ended it.
THEOREM QuitsAlwaysAddUp == Spec => []QuitsAddUp
<1>1. TcpInv => QuitsAddUp
  BY DEF TcpInv
<1>2. QED
  BY <1>1, TcpInvAlways, PTL

\* As long as the server's process stays the client newb ends only with its last
\* message, and the server newb only after it.
EndsComplete ==
  driver["server"] # "crashed" =>
    /\ mode["server"] = "down" => mode["client"] = "down"
    /\ mode["client"] = "down" => received = Target \/ driver["client"] = "crashed"
    /\ driver["client"] = "done" => received = Target

\* OneInFlight: with the last message counted nothing is on its way.
LEMMA NothingLeft ==
  ASSUME TcpInv, whole, received = Target
  PROVE  \A p \in Process : stream[p] = 0
<1>1. OneInFlight /\ Target \in Nat /\ stream \in [Process -> Nat]
  BY TargetType DEF TcpInv, TypeOK
<1>2. stream["client"] = 0 /\ stream["server"] = 0
  BY <1>1 DEF OneInFlight, Process
<1> QED  BY <1>2 DEF Process

LEMMA EndsCompleteNext == TcpInv /\ EndsComplete /\ [Next]_vars => EndsComplete'
<1> SUFFICES ASSUME TcpInv, EndsComplete, [Next]_vars PROVE EndsComplete'
  OBVIOUS
<1>0. TypeOK /\ Process = {"client", "server"}
  BY DEF TcpInv, Process
<1>1. CASE Listen \/ Connect \/ ConnectFails \/ Accept \/ Start \/ ServerReads
  <2>1. CASE Listen \/ ConnectFails
    BY <1>0, <2>1 DEF Listen, ConnectFails, TypeOK, EndsComplete
  <2>2. CASE Connect
    BY <1>0, <2>2 DEF Connect, TcpInv, TypeOK, EndsComplete
  <2>3. CASE Accept \/ Start
    BY <1>0, <2>3 DEF Accept, Start, TypeOK, EndsComplete
  <2>4. CASE ServerReads
    BY <2>4 DEF ServerReads, EndsComplete
  <2> QED  BY <1>1, <2>1, <2>2, <2>3, <2>4
<1>2. CASE ClientReads
  <2>1. /\ received < Target /\ received' = received + 1
        /\ mode["client"] = "running" /\ UNCHANGED driver
    BY <1>2 DEF ClientReads, TcpInv
  <2>2. CASE ~GotAll /\ UNCHANGED mode
    <3>1. driver["client"] # "done"
      BY <1>0, <2>1 DEF TcpInv, TypeOK, QuitsAddUp
    <3> QED  BY <2>1, <2>2, <3>1 DEF EndsComplete
  <2>3. CASE GotAll /\ mode' = [mode EXCEPT !["client"] = "down"]
    <3>1. received' = Target
      BY <2>1, <2>3, <1>0, MessagesAssumption DEF GotAll, Target, TypeOK
    <3> QED  BY <2>1, <2>3, <3>1, <1>0 DEF EndsComplete, TypeOK
  <2> QED  BY <1>2, <2>2, <2>3 DEF ClientReads, Continues, Completes
<1>3. ASSUME NEW p \in Process, IoError(p) PROVE EndsComplete'
  <2>1. CASE p = "client"
    BY <1>0, <1>3, <2>1 DEF IoError, Other, TypeOK, EndsComplete
  <2>2. CASE p = "server"
    BY <1>0, <1>3, <2>2 DEF IoError, Other, TypeOK, EndsComplete
  <2> QED  BY <1>0, <2>1, <2>2
<1>4. ASSUME NEW p \in Process, DriverReceives(p) PROVE EndsComplete'
  <2>1. p = "client" /\ driver["server"] # "crashed" => received = Target
    BY <1>0, <1>4 DEF DriverReceives, TcpInv, TypeOK, QuitsAddUp, EndsComplete
  <2> QED  BY <1>0, <1>4, <2>1 DEF DriverReceives, TypeOK, EndsComplete
<1>5. ASSUME NEW p \in Process, Crash(p) PROVE EndsComplete'
  BY <1>0, <1>5 DEF Crash, TypeOK, EndsComplete
<1>6. CASE UNCHANGED vars
  BY <1>6 DEF vars, EndsComplete
<1> QED  BY <1>1, <1>2, <1>3, <1>4, <1>5, <1>6 DEF Next, Progress

\* Unless the server's process has gone, the client's driver prints the duration
\* of as many answers as it was asked for; and while reads are whole every counter
\* the client has written has been answered and every answer been read by then.
THEOREM TcpPrintedWhenDone == Spec => []PrintedWhenDone
<1>1. Init => EndsComplete
  BY DEF Init, EndsComplete, Process
<1>2. TcpInv /\ EndsComplete => PrintedWhenDone
  BY NothingLeft DEF EndsComplete, PrintedWhenDone
<1> QED  BY <1>1, <1>2, EndsCompleteNext, TcpInvAlways, PTL DEF Spec

\* While reads are whole, every step of pingpong_tcp is a step of PingPong or
\* leaves its variables alone; otherwise they are constant.
LEMMA TcpNextAbstract ==
  ASSUME TcpInv, [Next]_vars
  PROVE  [Abstract!Next]_(Abstract!ppVars)
<1> DEFINE Step == Abstract!Next \/ UNCHANGED Abstract!ppVars
<1>1. UNCHANGED whole
  BY DEF Next, Progress, vars
<1>2. CASE ~whole
  BY <1>1, <1>2 DEF Counted, Echoed, Abstract!ppVars
<1>3. CASE whole
  <2>1. UNCHANGED <<received, stream>> => Step
    BY <1>1 DEF Counted, Echoed, Abstract!ppVars
  <2>2. ASSUME Start PROVE Step
    BY <2>2, <1>1
    DEF Start, TcpInv, TypeOK, Process, Counted, Echoed, Abstract!ppVars
  <2>3. ASSUME ServerReads PROVE Step
    <3>1. PICK k \in ServerChunks : stream' = Echoes(k) /\ received' = received
      BY <2>3 DEF ServerReads
    <3>2. k \in 1 .. stream["server"] /\ stream["client"] = 0 /\ received < Target
      BY <1>3, <3>1, ServerChunk, SizeAssumption
      DEF TcpInv, TypeOK, OneInFlight, Process
    <3>3. stream'["client"] = Size
      BY <3>1, <3>2, SizeAssumption DEF Echoes, TcpInv, TypeOK, Process
    <3>4. Counted = received /\ Counted' = received /\ Echoed = received /\ Echoed' = received + 1
      BY <1>1, <1>3, <3>1, <3>2, <3>3, SizeAssumption DEF Counted, Echoed
    <3>5. Abstract!Echo
      BY <3>2, <3>4 DEF Abstract!Echo
    <3>6. QED
      BY <3>5 DEF Abstract!Next
  <2>4. ASSUME ClientReads PROVE Step
    <3>1. PICK k \in ClientChunks :
            received' = received + 1 /\ (Continues(k) \/ Completes(k))
      BY <2>4 DEF ClientReads
    <3>2. stream["client"] > 0 /\ k = stream["client"]
      BY <1>3, <3>1, ClientChunk DEF TcpInv, TypeOK, OneInFlight, Process
    <3>3. stream'["client"] = 0
      BY <3>1, <3>2 DEF Continues, Completes, TcpInv, TypeOK, Process
    <3>4. /\ Echoed = received + 1 /\ Echoed' = received + 1
          /\ Counted = received /\ Counted' = received + 1
      BY <1>1, <1>3, <3>1, <3>2, <3>3 DEF Counted, Echoed, TcpInv, TypeOK
    <3>5. Abstract!Count
      BY <3>4 DEF Abstract!Count, TcpInv, TypeOK
    <3>6. QED
      BY <3>5 DEF Abstract!Next
  <2>5. QED
    BY <2>1, <2>2, <2>3, <2>4
    DEF Next, Progress, Listen, Connect, ConnectFails, Accept, IoError,
        DriverReceives, Crash, vars
<1>4. QED
  BY <1>2, <1>3

\* While reads are whole pingpong_tcp implements PingPong, even if either
\* process ends prematurely.
THEOREM TcpImplementation == Spec => ImplementsPingPong
<1>1. Init => Abstract!Init
  BY DEF Init, Abstract!Init, Counted, Echoed, Process
<1>2. TcpInv /\ [Next]_vars => [Abstract!Next]_(Abstract!ppVars)
  BY TcpNextAbstract
<1>3. QED
  BY <1>1, <1>2, TcpInvAlways, PTL DEF Spec, ImplementsPingPong, Abstract!Spec
=============================================================================
