----------------------- MODULE TelemetryClient_proofs -----------------------
(***************************************************************************)
(* Proofs about TelemetryClient, for queues of any length: the type         *)
(* invariant, ClientInv, and what follows from it for the worker that was    *)
(* stopped, for the last button and for the lamp.                           *)
(***************************************************************************)
EXTENDS TelemetryClient, SequenceTheorems, TLAPS

Calls == {"start", "stop"}
Signals == {"connecting", "connected", "disconnected", "telemetry"}

-----------------------------------------------------------------------------
(* Queues                                                                  *)

\* What is left of a queue is one shorter and ends as the queue did.
LEMMA TailOfQueue ==
    ASSUME NEW S, NEW q \in Seq(S), q # <<>>
    PROVE  /\ Tail(q) \in Seq(S) /\ Head(q) \in S /\ Head(q) = q[1]
           /\ Len(q) \in Nat /\ Len(q) >= 1 /\ Len(Tail(q)) = Len(q) - 1
           /\ Tail(q) = <<>> => Head(q) = q[Len(q)]
           /\ Tail(q) # <<>> => Tail(q)[Len(Tail(q))] = q[Len(q)]
<1>1. Len(q) \in Nat \ {0}
  BY EmptySeq
<1>2. /\ Tail(q) \in Seq(S) /\ Head(q) \in S /\ Len(Tail(q)) = Len(q) - 1
      /\ \A i \in 1 .. Len(Tail(q)) : Tail(q)[i] = q[i + 1]
  BY HeadTailProperties
<1>3. Head(q) = q[1]
  OBVIOUS
<1>4. Tail(q) = <<>> => Head(q) = q[Len(q)]
  <2>1. Len(<<>>) = 0
    BY EmptySeq
  <2>2. Tail(q) = <<>> => Len(q) = 1
    <3>1. SUFFICES ASSUME Tail(q) = <<>> PROVE Len(q) = 1
      OBVIOUS
    <3>2. Len(Tail(q)) = Len(<<>>)
      BY <3>1, Zenon
    <3> QED
      BY <3>2, <2>1, <1>1, <1>2
  <2> QED
    BY <2>2, <1>3
<1>5. Tail(q) # <<>> => Tail(q)[Len(Tail(q))] = q[Len(q)]
  BY <1>1, <1>2, EmptySeq
<1> QED
  BY <1>1, <1>2, <1>3, <1>4, <1>5

\* A queue that was appended to is one longer and ends with what was appended.
LEMMA AppendedQueue ==
    ASSUME NEW S, NEW q \in Seq(S), NEW e \in S
    PROVE  /\ Append(q, e) \in Seq(S) /\ Append(q, e) # <<>>
           /\ Len(q) \in Nat /\ Len(Append(q, e)) = Len(q) + 1
           /\ Append(q, e)[Len(Append(q, e))] = e
  BY AppendProperties, LenProperties

\* One signal emitted.
LEMMA EmitOne ==
    ASSUME news \in Seq(Signals), NEW e \in Signals, Emit(e)
    PROVE  /\ news' \in Seq(Signals) /\ news' # <<>>
           /\ Len(news) \in Nat /\ Len(news') = Len(news) + 1
           /\ news'[Len(news')] = e
  BY AppendedQueue DEF Emit

\* Two signals emitted.
LEMMA EmitTwo ==
    ASSUME news \in Seq(Signals), NEW e \in Signals, NEW f \in Signals, EmitBoth(e, f)
    PROVE  /\ news' \in Seq(Signals) /\ news' # <<>>
           /\ Len(news) \in Nat /\ Len(news') = Len(news) + 2
           /\ news'[Len(news')] = f
<1> DEFINE q == Append(news, e)
<1>1. q \in Seq(Signals) /\ Len(q) = Len(news) + 1 /\ Len(news) \in Nat
  BY AppendedQueue
<1>2. news' = Append(q, f)
  BY DEF EmitBoth
<1> HIDE DEF q
<1> QED
  BY <1>1, <1>2, AppendedQueue

-----------------------------------------------------------------------------
(* Types                                                                   *)

\* Each slot of the worker keeps the types, the bound on its signals included.
LEMMA WorkerTypes ==
    ASSUME TypeOK, Worker
    PROVE  TypeOK'
<1> USE WorkerAssumption, ClientAssumption
<1>0. /\ news \in Seq(Signals) /\ calls \in Seq(Calls) /\ RoomForNews
      /\ UNCHANGED windowVars /\ Len(news) \in Nat /\ Len(calls) \in Nat
  BY LenProperties DEF TypeOK, WorkerTypeOK, Worker, Slot, Timeout, Attempt, Peer, Signals, Calls
<1>1. \/ UNCHANGED news
      \/ \E e \in Signals : Emit(e)
      \/ \E e, f \in Signals : EmitBoth(e, f)
  BY DEF Worker, Slot, Timeout, Attempt, Peer, Start, Stop, TimerFires, Connected, ConnectFails,
         PeerCloses, Telemetry, Reconnect, EmitDisconnected, Signals
<1>2. news' \in Seq(Signals) /\ Len(news') <= MaxNews
  BY <1>0, <1>1, EmitOne, EmitTwo DEF RoomForNews, TypeOK, WorkerTypeOK
<1>3. calls' = calls \/ (calls # <<>> /\ calls' = Tail(calls))
  BY DEF Worker, Slot, Timeout, Attempt, Peer, Start, Stop, TimerFires, Connected, ConnectFails,
         PeerCloses, Telemetry
<1>4. calls' \in Seq(Calls) /\ Len(calls') <= MaxCalls
  <2>1. CASE calls' = calls
    BY <2>1, <1>0 DEF TypeOK
  <2>2. CASE calls # <<>> /\ calls' = Tail(calls)
    <3>1. calls' \in Seq(Calls) /\ Len(calls') = Len(calls) - 1
      BY <2>2, <1>0, TailOfQueue
    <3> QED
      BY <3>1, <1>0 DEF TypeOK
  <2> QED
    BY <2>1, <2>2, <1>3
<1>5. /\ running' \in BOOLEAN /\ timer' \in BOOLEAN /\ putOff' \in BOOLEAN
      /\ socket' \in {"unconnected", "connecting", "connected"}
  BY DEF TypeOK, WorkerTypeOK, Worker, Slot, Timeout, Attempt, Peer, Start, Stop, TimerFires,
         Connected, ConnectFails, PeerCloses, Telemetry, Reconnect, TimerAfterDisconnect, workerVars
<1> QED
  BY <1>0, <1>2, <1>4, <1>5 DEF TypeOK, WorkerTypeOK, windowVars, Signals, Calls

\* The window's slots and the buttons keep the types.
LEMMA WindowTypes ==
    ASSUME TypeOK, Window \/ User
    PROVE  TypeOK'
<1> USE WorkerAssumption, ClientAssumption
<1>0. /\ news \in Seq(Signals) /\ calls \in Seq(Calls)
      /\ Len(news) \in Nat /\ Len(calls) \in Nat /\ UNCHANGED workerVars
  BY LenProperties DEF TypeOK, WorkerTypeOK, Signals, Calls, Window, User, OnTelemetry,
     OnConnectionStateChanged, StartAll, StopAll
<1>1. news' = news \/ (news # <<>> /\ news' = Tail(news))
  BY DEF Window, User, OnTelemetry, OnConnectionStateChanged, StartAll, StopAll
<1>2. news' \in Seq(Signals) /\ Len(news') <= MaxNews
  BY <1>0, <1>1, TailOfQueue DEF TypeOK, WorkerTypeOK
<1>3. calls' = calls \/ (Len(calls) < MaxCalls /\ \E c \in Calls : calls' = Append(calls, c))
  BY DEF Window, User, OnTelemetry, OnConnectionStateChanged, StartAll, StopAll, Calls
<1>4. calls' \in Seq(Calls) /\ Len(calls') <= MaxCalls
  BY <1>0, <1>3, AppendedQueue DEF TypeOK
<1>5. lamp' \in BOOLEAN /\ blink' \in BOOLEAN /\ wanted' \in BOOLEAN
  <2> USE DEF TypeOK
  <2>1. CASE OnTelemetry
    BY <2>1 DEF OnTelemetry
  <2>2. CASE OnConnectionStateChanged
    <3>1. Contains(Head(news)) \in BOOLEAN
      BY DEF Contains
    <3> QED
      BY <2>2, <3>1 DEF OnConnectionStateChanged
  <2>3. CASE User
    BY <2>3 DEF User, StartAll, StopAll
  <2> QED
    BY <2>1, <2>2, <2>3 DEF Window
<1> QED
  BY <1>0, <1>2, <1>4, <1>5 DEF TypeOK, WorkerTypeOK, workerVars, Signals, Calls

\* Every variable keeps its type, for any bounds of the two queues.
THEOREM TypeCorrect == Spec => []TypeOK
<1>1. Init => TypeOK
  <2>1. Len(<<>>) = 0 /\ <<>> \in Seq(Calls) /\ <<>> \in Seq(Signals)
    BY EmptySeq
  <2> SUFFICES ASSUME Init PROVE TypeOK
    OBVIOUS
  <2>2. Len(news) <= MaxNews /\ Len(calls) <= MaxCalls
    <3>1. Len(news) = 0 /\ Len(calls) = 0
      BY <2>1 DEF Init, WorkerInit
    <3> QED
      BY <3>1, WorkerAssumption, ClientAssumption
  <2>3. news \in Seq(Signals) /\ calls \in Seq(Calls)
    BY <2>1 DEF Init, WorkerInit
  <2> QED
    BY <2>2, <2>3 DEF Init, WorkerInit, TypeOK, WorkerTypeOK, Calls, Signals
<1>2. TypeOK /\ [Next]_vars => TypeOK'
  <2> SUFFICES ASSUME TypeOK, [Next]_vars PROVE TypeOK'
    OBVIOUS
  <2>1. CASE Worker
    BY <2>1, WorkerTypes
  <2>2. CASE Window \/ User
    BY <2>2, WindowTypes
  <2>3. CASE UNCHANGED vars
    BY <2>3 DEF vars, workerVars, windowVars, TypeOK, WorkerTypeOK
  <2> QED
    BY <2>1, <2>2, <2>3 DEF Next
<1> QED
  BY <1>1, <1>2, PTL DEF Spec

-----------------------------------------------------------------------------
(* The invariant                                                           *)

\* A call the worker takes leaves the last call to come what it was.
LEMMA CallTaken ==
    ASSUME TypeOK, calls # <<>>, calls' = Tail(calls),
           running' = (Head(calls) = "start")
    PROVE  CallToCome' = CallToCome
<1>1. calls \in Seq(Calls)
  BY DEF TypeOK, WorkerTypeOK, Calls
<1> QED
  BY <1>1, TailOfQueue DEF CallToCome

\* Each event of the worker keeps the invariant.
LEMMA WorkerInv ==
    ASSUME TypeOK, ClientInv, Worker
    PROVE  ClientInv'
<1> USE DEF ClientInv, StoppedIsQuiet, Worker, windowVars
<1>0. news \in Seq(Signals) /\ calls \in Seq(Calls) /\ running \in BOOLEAN
  BY DEF TypeOK, WorkerTypeOK, Signals, Calls
<1>1. CASE Start
  <2>1. CallToCome' = CallToCome
    BY <1>1, CallTaken DEF Start
  <2>2. StoppedIsQuiet' /\ socket' # "connected"
    BY <1>1 DEF Start, Reconnect
  <2> QED
    BY <2>1, <2>2
<1>2. CASE Stop
  <2>1. CallToCome' = CallToCome
    BY <1>2, CallTaken DEF Stop
  <2>2. StoppedIsQuiet' /\ socket' # "connected"
    BY <1>2 DEF Stop, TypeOK, WorkerTypeOK
  <2> QED
    BY <2>1, <2>2
<1>3. CASE TimerFires
  <2>1. CallToCome' = CallToCome
    BY <1>3 DEF TimerFires, CallToCome
  <2>2. running /\ StoppedIsQuiet' /\ socket' # "connected"
    BY <1>3 DEF TimerFires, Reconnect
  <2> QED
    BY <2>1, <2>2
<1>4. CASE Connected
  <2>1. CallToCome' = CallToCome
    BY <1>4 DEF Connected, CallToCome
  <2>2. StoppedIsQuiet'
    BY <1>4 DEF Connected
  <2>3. socket' = "connected" => LampToCome'
    <3> SUFFICES ASSUME socket' = "connected" PROVE LampToCome'
      OBVIOUS
    <3>1. Emit("connected")
      BY <1>4 DEF Connected
    <3> QED
      BY <3>1, <1>0, EmitOne DEF Signals, LampToCome
  <2> QED
    BY <2>1, <2>2, <2>3
<1>5. CASE ConnectFails
  BY <1>5 DEF ConnectFails, CallToCome
<1>6. CASE PeerCloses
  <2>1. CallToCome' = CallToCome
    BY <1>6 DEF PeerCloses, CallToCome
  <2>2. StoppedIsQuiet' /\ socket' # "connected"
    BY <1>6 DEF PeerCloses
  <2> QED
    BY <2>1, <2>2
<1>7. CASE Telemetry
  <2>1. CallToCome' = CallToCome /\ StoppedIsQuiet'
    BY <1>7 DEF Telemetry, CallToCome, workerVars
  <2>2. LampToCome'
    BY <1>7, <1>0, EmitOne DEF Telemetry, Signals, LampToCome
  <2> QED
    BY <2>1, <2>2, <1>7
<1> QED
  BY <1>1, <1>2, <1>3, <1>4, <1>5, <1>6, <1>7 DEF Slot, Timeout, Attempt, Peer

\* The window's slots keep the invariant: taking a signal leaves the lamp to come.
LEMMA WindowInv ==
    ASSUME TypeOK, ClientInv, Window
    PROVE  ClientInv'
<1>0. news \in Seq(Signals)
  BY DEF TypeOK, WorkerTypeOK, Signals
<1>1. /\ UNCHANGED <<workerVars, calls, wanted>>
      /\ news # <<>> /\ news' = Tail(news) /\ lamp' = (Head(news) # "connecting")
  <2>1. CASE OnTelemetry
    BY <2>1 DEF OnTelemetry
  <2>2. CASE OnConnectionStateChanged
    <3>1. Head(news) \in Signals
      BY <2>2, <1>0, TailOfQueue DEF OnConnectionStateChanged
    <3> QED
      BY <2>2, <3>1 DEF OnConnectionStateChanged, Contains, Signals
  <2> QED
    BY <2>1, <2>2 DEF Window
<1>2. LampToCome' = LampToCome
  BY <1>0, <1>1, TailOfQueue DEF LampToCome
<1> QED
  BY <1>1, <1>2 DEF ClientInv, StoppedIsQuiet, CallToCome, workerVars

\* The buttons keep the invariant: the call they queue is the last to come.
LEMMA UserInv ==
    ASSUME TypeOK, ClientInv, User
    PROVE  ClientInv'
<1>0. calls \in Seq(Calls)
  BY DEF TypeOK, WorkerTypeOK, Calls
<1>1. UNCHANGED workerVars
  BY DEF User, StartAll, StopAll
<1>2. calls' # <<>> /\ CallToCome' = wanted'
  <2>1. CASE StartAll
    <3>1. calls' = Append(calls, "start") /\ wanted' = TRUE
      BY <2>1 DEF StartAll
    <3>2. calls' # <<>> /\ calls'[Len(calls')] = "start"
      BY <3>1, <1>0, AppendedQueue DEF Calls
    <3> QED
      BY <3>1, <3>2 DEF CallToCome
  <2>2. CASE StopAll
    <3>1. calls' = Append(calls, "stop") /\ wanted' = FALSE
      BY <2>2 DEF StopAll
    <3>2. calls' # <<>> /\ calls'[Len(calls')] = "stop"
      BY <3>1, <1>0, AppendedQueue DEF Calls
    <3> QED
      BY <3>1, <3>2 DEF CallToCome
  <2> QED
    BY <2>1, <2>2 DEF User
<1> QED
  BY <1>1, <1>2 DEF ClientInv, StoppedIsQuiet, workerVars

\* ClientInv is inductive: what the two queues hold decides what the worker and
\* the lamp will come to.
THEOREM Obedience == Spec => []ClientInv
<1>1. Init => ClientInv
  BY DEF Init, WorkerInit, ClientInv, StoppedIsQuiet, CallToCome
<1>2. TypeOK /\ ClientInv /\ [Next]_vars => ClientInv'
  <2> SUFFICES ASSUME TypeOK, ClientInv, [Next]_vars PROVE ClientInv'
    OBVIOUS
  <2>1. CASE UNCHANGED vars
    BY <2>1 DEF vars, workerVars, windowVars, ClientInv, StoppedIsQuiet, CallToCome, LampToCome
  <2> QED
    BY <2>1, WorkerInv, WindowInv, UserInv DEF Next
<1> QED
  BY <1>1, <1>2, TypeCorrect, PTL DEF Spec

\* The two together are what the steps preserve.
THEOREM Invariant == Spec => []IInv
  BY TypeCorrect, Obedience, PTL DEF IInv

\* A worker that was stopped stays down: no timer, no connection, and none to come.
THEOREM StoppedStaysDown == Spec => []StoppedIsQuiet
<1>1. ClientInv => StoppedIsQuiet
  BY DEF ClientInv
<1> QED
  BY <1>1, Obedience, PTL

\* With no call under way the worker does what the last button asked for.
THEOREM LastButtonObeyed == Spec => []WorkerObeys
<1>1. ClientInv => WorkerObeys
  BY DEF ClientInv, WorkerObeys, CallToCome
<1> QED
  BY <1>1, Obedience, PTL

\* With nothing under way an open connection lights the lamp.
THEOREM ConnectionIsShown == Spec => []ConnectedLightsLamp
<1>1. ClientInv => ConnectedLightsLamp
  BY DEF ClientInv, ConnectedLightsLamp, LampToCome
<1> QED
  BY <1>1, Obedience, PTL

\* A connection that is lost while the worker runs is tried again, or will be.
THEOREM LostIsRetried == Spec => LostConnectionIsRetried
<1>1. ASSUME [Next]_vars, socket = "connected", socket' # "connected", running'
      PROVE  timer' \/ socket' = "connecting"
  BY <1>1 DEF Next, Worker, Window, User, Slot, Timeout, Attempt, Peer, Start, Stop, TimerFires,
     Connected, ConnectFails, PeerCloses, Telemetry, Reconnect, TimerAfterDisconnect,
     OnTelemetry, OnConnectionStateChanged, StartAll, StopAll, vars, workerVars
<1>2. [Next]_vars => [socket = "connected" /\ socket' # "connected" /\ running'
                        => timer' \/ socket' = "connecting"]_vars
  BY <1>1
<1> QED
  BY <1>2, PTL DEF Spec, LostConnectionIsRetried
=============================================================================
