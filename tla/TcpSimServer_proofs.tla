-------------------------- MODULE TcpSimServer_proofs --------------------------
(***************************************************************************)
(* What TcpSimServer promises for every number of signals and clients: IInv is *)
(* inductive.  The four conjuncts are taken one by one; each names the steps of *)
(* the TCP thread, of the callers of stop() and of the environment.          *)
(***************************************************************************)
EXTENDS TcpSimServer, TLAPS

USE TcpAssumption DEF TcpAssumption

\* The initial state of the process.
LEMMA InitIInv == Init => IInv
<1> SUFFICES ASSUME Init PROVE IInv
  OBVIOUS
<1>1. TypeOK
  <2>1. 0 \in 0 .. MaxClients
    OBVIOUS
  <2> QED
    BY <2>1, Zenon DEF Init, TypeOK, Stoppers
<1>2. DescriptorHasOwner /\ PointerIsSet /\ Undisturbed
  BY DEF Init, DescriptorHasOwner, PointerIsSet, Undisturbed, Stoppers, Holding, InRun, Serving
<1> QED
  BY <1>1, <1>2 DEF IInv

\* close() leaves no socket behind, but for the one an ffmpeg inherited.
LEMMA CloserTypes ==
  ASSUME TypeOK, CloseListener
  PROVE  /\ reclosed' \in BOOLEAN /\ fdOpen' \in BOOLEAN /\ sock' = "none" /\ pending' = 0
         /\ heirloom' \subseteq {"listener", "stale", "client"}
         /\ client' = client /\ stalled' = stalled
<1>1. reclosed' \in BOOLEAN /\ fdOpen' \in BOOLEAN
  BY Zenon DEF CloseListener
<1> QED
  BY <1>1 DEF TypeOK, CloseListener

(* The TCP thread, conjunct by conjunct                                    *)

\* Each step of the thread keeps the types.
LEMMA TcpTypes == TypeOK /\ TcpThread => TypeOK'
<1> SUFFICES ASSUME TypeOK, TcpThread PROVE TypeOK'
  OBVIOUS
<1> USE DEF TypeOK, Step, Move, supervisorVars, serverVars, socketVars, clientVars, childVars, stopperVars
<1>1. CASE Loop
  BY <1>1 DEF Loop
<1>2. CASE Make
  BY <1>2 DEF Make
<1>3. CASE MakeThrows
  BY <1>3 DEF MakeThrows
<1>4. CASE RetrySleep
  BY <1>4 DEF RetrySleep
<1>5. CASE Return
  <2>1. ptr' \in BOOLEAN /\ valid' \in [Stoppers -> BOOLEAN]
    BY <1>5, Zenon DEF Return
  <2> QED
    BY <1>5, <2>1 DEF Return, AfterRun
<1>6. CASE RunFlag
  BY <1>6 DEF RunFlag
<1>7. CASE Socket
  BY <1>7 DEF Socket
<1>8. CASE SocketFails
  BY <1>8 DEF SocketFails
<1>9. CASE StoreFd
  BY <1>9 DEF StoreFd
<1>10. CASE SetCloexec
  BY <1>10 DEF SetCloexec
<1>11. CASE Bind
  BY <1>11 DEF Bind
<1>12. CASE Listen
  BY <1>12 DEF Listen
<1>13. CASE BindOrListenFails
  <2>1. CASE Move("bind", "failClose")
    BY <2>1
  <2>2. CASE Move("listen", "failClose")
    BY <2>2
  <2> QED
    BY <1>13, <2>1, <2>2 DEF BindOrListenFails
<1>14. CASE FailClose
  <2>1. CloseListener
    BY <1>14 DEF FailClose
  <2> QED
    BY <1>14, <2>1, CloserTypes DEF FailClose
<1>15. CASE FailClear
  <2>1. listenFd' \in BOOLEAN
    BY <1>15, Zenon DEF FailClear
  <2> QED
    BY <1>15, <2>1 DEF FailClear
<1>16. CASE Finish
  BY <1>16 DEF Finish
<1>17. CASE FinishClose
  <2>1. CASE CloseListener
    BY <1>17, <2>1, CloserTypes DEF FinishClose
  <2>2. CASE UNCHANGED <<socketVars, clientVars, heirloom>>
    BY <1>17, <2>2 DEF FinishClose
  <2> QED
    BY <1>17, <2>1, <2>2 DEF FinishClose
<1>18. CASE FinishClear
  <2>1. listenFd' \in BOOLEAN
    BY <1>18, Zenon DEF FinishClear
  <2> QED
    BY <1>18, <2>1 DEF FinishClear
<1>19. CASE While
  BY <1>19 DEF While
<1>20. CASE Accept
  <2>1. stalled' \in BOOLEAN
    BY <1>20, Zenon DEF Accept
  <2> QED
    BY <1>20, <2>1 DEF Accept
<1>21. CASE AcceptFails
  BY <1>21 DEF AcceptFails
<1>22. CASE ClientCloexec
  BY <1>22 DEF ClientCloexec
<1>23. CASE ServeTest
  BY <1>23 DEF ServeTest
<1>24. CASE Send
  BY <1>24 DEF Send
<1>25. CASE SendFails
  BY <1>25 DEF SendFails
<1>26. CASE Nap
  BY <1>26 DEF Nap
<1>27. CASE CloseClient
  <2>1. stalled' \in BOOLEAN
    BY <1>27, Zenon DEF CloseClient
  <2> QED
    BY <1>27, <2>1 DEF CloseClient
<1>28. CASE ServeThrows
  <2>1. stalled' \in BOOLEAN
    BY <1>28, Zenon DEF ServeThrows
  <2> QED
    BY <1>28, <2>1 DEF ServeThrows
<1> QED
  BY <1>1, <1>2, <1>3, <1>4, <1>5, <1>6, <1>7, <1>8, <1>9, <1>10, <1>11, <1>12, <1>13, <1>14, <1>15, <1>16, <1>17, <1>18, <1>19, <1>20, <1>21, <1>22, <1>23, <1>24, <1>25, <1>26, <1>27, <1>28 DEF TcpThread

\* The descriptor is handed on: from the local variable to listen_fd_, and closed
\* or taken by a stop() before run() returns.
LEMMA TcpOwner == DescriptorHasOwner /\ TcpThread => DescriptorHasOwner'
<1> SUFFICES ASSUME DescriptorHasOwner, TcpThread PROVE DescriptorHasOwner'
  OBVIOUS
<1> USE DEF DescriptorHasOwner, Holding, Step, Move, supervisorVars, serverVars, socketVars, clientVars, childVars, stopperVars
<1>1. CASE Loop
  BY <1>1 DEF Loop
<1>2. CASE Make
  BY <1>2 DEF Make
<1>3. CASE MakeThrows
  BY <1>3 DEF MakeThrows
<1>4. CASE RetrySleep
  BY <1>4 DEF RetrySleep
<1>5. CASE Return
  BY <1>5 DEF Return, AfterRun
<1>6. CASE RunFlag
  BY <1>6 DEF RunFlag
<1>7. CASE Socket
  BY <1>7 DEF Socket
<1>8. CASE SocketFails
  BY <1>8 DEF SocketFails
<1>9. CASE StoreFd
  BY <1>9 DEF StoreFd
<1>10. CASE SetCloexec
  BY <1>10 DEF SetCloexec
<1>11. CASE Bind
  BY <1>11 DEF Bind
<1>12. CASE Listen
  BY <1>12 DEF Listen
<1>13. CASE BindOrListenFails
  <2>1. CASE Move("bind", "failClose")
    BY <2>1
  <2>2. CASE Move("listen", "failClose")
    BY <2>2
  <2> QED
    BY <1>13, <2>1, <2>2 DEF BindOrListenFails
<1>14. CASE FailClose
  BY <1>14 DEF FailClose, CloseListener
<1>15. CASE FailClear
  BY <1>15 DEF FailClear
<1>16. CASE Finish
  BY <1>16 DEF Finish
<1>17. CASE FinishClose
  BY <1>17 DEF FinishClose, CloseListener
<1>18. CASE FinishClear
  BY <1>18 DEF FinishClear
<1>19. CASE While
  BY <1>19 DEF While
<1>20. CASE Accept
  BY <1>20 DEF Accept
<1>21. CASE AcceptFails
  BY <1>21 DEF AcceptFails
<1>22. CASE ClientCloexec
  BY <1>22 DEF ClientCloexec
<1>23. CASE ServeTest
  BY <1>23 DEF ServeTest
<1>24. CASE Send
  BY <1>24 DEF Send
<1>25. CASE SendFails
  BY <1>25 DEF SendFails
<1>26. CASE Nap
  BY <1>26 DEF Nap
<1>27. CASE CloseClient
  BY <1>27 DEF CloseClient
<1>28. CASE ServeThrows
  BY <1>28 DEF ServeThrows
<1> QED
  BY <1>1, <1>2, <1>3, <1>4, <1>5, <1>6, <1>7, <1>8, <1>9, <1>10, <1>11, <1>12, <1>13, <1>14, <1>15, <1>16, <1>17, <1>18, <1>19, <1>20, <1>21, <1>22, <1>23, <1>24, <1>25, <1>26, <1>27, <1>28 DEF TcpThread

\* g_tcp_server is set from the move to the reset.
LEMMA TcpPointer == PointerIsSet /\ TcpThread => PointerIsSet'
<1> SUFFICES ASSUME PointerIsSet, TcpThread PROVE PointerIsSet'
  OBVIOUS
<1> USE DEF PointerIsSet, Step, Move, supervisorVars, serverVars, socketVars, clientVars, childVars, stopperVars
<1>1. CASE Loop
  BY <1>1 DEF Loop
<1>2. CASE Make
  BY <1>2 DEF Make
<1>3. CASE MakeThrows
  BY <1>3 DEF MakeThrows
<1>4. CASE RetrySleep
  BY <1>4 DEF RetrySleep
<1>5. CASE Return
  BY <1>5 DEF Return, AfterRun
<1>6. CASE RunFlag
  BY <1>6 DEF RunFlag
<1>7. CASE Socket
  BY <1>7 DEF Socket
<1>8. CASE SocketFails
  BY <1>8 DEF SocketFails
<1>9. CASE StoreFd
  BY <1>9 DEF StoreFd
<1>10. CASE SetCloexec
  BY <1>10 DEF SetCloexec
<1>11. CASE Bind
  BY <1>11 DEF Bind
<1>12. CASE Listen
  BY <1>12 DEF Listen
<1>13. CASE BindOrListenFails
  <2>1. CASE Move("bind", "failClose")
    BY <2>1
  <2>2. CASE Move("listen", "failClose")
    BY <2>2
  <2> QED
    BY <1>13, <2>1, <2>2 DEF BindOrListenFails
<1>14. CASE FailClose
  BY <1>14 DEF FailClose, CloseListener
<1>15. CASE FailClear
  BY <1>15 DEF FailClear
<1>16. CASE Finish
  BY <1>16 DEF Finish
<1>17. CASE FinishClose
  BY <1>17 DEF FinishClose, CloseListener
<1>18. CASE FinishClear
  BY <1>18 DEF FinishClear
<1>19. CASE While
  BY <1>19 DEF While
<1>20. CASE Accept
  BY <1>20 DEF Accept
<1>21. CASE AcceptFails
  BY <1>21 DEF AcceptFails
<1>22. CASE ClientCloexec
  BY <1>22 DEF ClientCloexec
<1>23. CASE ServeTest
  BY <1>23 DEF ServeTest
<1>24. CASE Send
  BY <1>24 DEF Send
<1>25. CASE SendFails
  BY <1>25 DEF SendFails
<1>26. CASE Nap
  BY <1>26 DEF Nap
<1>27. CASE CloseClient
  BY <1>27 DEF CloseClient
<1>28. CASE ServeThrows
  BY <1>28 DEF ServeThrows
<1> QED
  BY <1>1, <1>2, <1>3, <1>4, <1>5, <1>6, <1>7, <1>8, <1>9, <1>10, <1>11, <1>12, <1>13, <1>14, <1>15, <1>16, <1>17, <1>18, <1>19, <1>20, <1>21, <1>22, <1>23, <1>24, <1>25, <1>26, <1>27, <1>28 DEF TcpThread

\* Without a signal nothing but run() itself closes the socket or clears running_.
LEMMA TcpUndisturbed == Undisturbed /\ TcpThread => Undisturbed'
<1> SUFFICES ASSUME Undisturbed, TcpThread PROVE Undisturbed'
  OBVIOUS
<1> USE DEF Undisturbed, Holding, InRun, Serving, Step, Move, supervisorVars, serverVars, socketVars, clientVars, childVars, stopperVars
<1>1. CASE Loop
  BY <1>1 DEF Loop
<1>2. CASE Make
  BY <1>2 DEF Make
<1>3. CASE MakeThrows
  BY <1>3 DEF MakeThrows
<1>4. CASE RetrySleep
  BY <1>4 DEF RetrySleep
<1>5. CASE Return
  BY <1>5 DEF Return, AfterRun
<1>6. CASE RunFlag
  BY <1>6 DEF RunFlag
<1>7. CASE Socket
  BY <1>7 DEF Socket
<1>8. CASE SocketFails
  BY <1>8 DEF SocketFails
<1>9. CASE StoreFd
  BY <1>9 DEF StoreFd
<1>10. CASE SetCloexec
  BY <1>10 DEF SetCloexec
<1>11. CASE Bind
  BY <1>11 DEF Bind
<1>12. CASE Listen
  BY <1>12 DEF Listen
<1>13. CASE BindOrListenFails
  <2>1. CASE Move("bind", "failClose")
    BY <2>1
  <2>2. CASE Move("listen", "failClose")
    BY <2>2
  <2> QED
    BY <1>13, <2>1, <2>2 DEF BindOrListenFails
<1>14. CASE FailClose
  BY <1>14 DEF FailClose, CloseListener
<1>15. CASE FailClear
  BY <1>15 DEF FailClear
<1>16. CASE Finish
  BY <1>16 DEF Finish
<1>17. CASE FinishClose
  BY <1>17 DEF FinishClose, CloseListener
<1>18. CASE FinishClear
  BY <1>18 DEF FinishClear
<1>19. CASE While
  BY <1>19 DEF While
<1>20. CASE Accept
  BY <1>20 DEF Accept
<1>21. CASE AcceptFails
  BY <1>21 DEF AcceptFails
<1>22. CASE ClientCloexec
  BY <1>22 DEF ClientCloexec
<1>23. CASE ServeTest
  BY <1>23 DEF ServeTest
<1>24. CASE Send
  BY <1>24 DEF Send
<1>25. CASE SendFails
  BY <1>25 DEF SendFails
<1>26. CASE Nap
  BY <1>26 DEF Nap
<1>27. CASE CloseClient
  BY <1>27 DEF CloseClient
<1>28. CASE ServeThrows
  BY <1>28 DEF ServeThrows
<1> QED
  BY <1>1, <1>2, <1>3, <1>4, <1>5, <1>6, <1>7, <1>8, <1>9, <1>10, <1>11, <1>12, <1>13, <1>14, <1>15, <1>16, <1>17, <1>18, <1>19, <1>20, <1>21, <1>22, <1>23, <1>24, <1>25, <1>26, <1>27, <1>28 DEF TcpThread

\* An accept() that fails on a socket that listens is the thread's step as well: the
\* loop goes round, or ends.
LEMMA InterruptedIInv == IInv /\ AcceptInterrupted => IInv'
<1> SUFFICES ASSUME TypeOK, DescriptorHasOwner, PointerIsSet, Undisturbed, AcceptInterrupted
             PROVE  IInv'
  BY DEF IInv
<1> USE DEF AcceptInterrupted, Step, Move, supervisorVars, serverVars, socketVars, clientVars,
            childVars, stopperVars
<1>1. TypeOK'
  BY DEF TypeOK
<1>2. DescriptorHasOwner' /\ PointerIsSet'
  BY DEF DescriptorHasOwner, PointerIsSet, Holding
<1>3. Undisturbed'
  BY DEF Undisturbed, Holding, InRun, Serving
<1> QED
  BY <1>1, <1>2, <1>3 DEF IInv

-----------------------------------------------------------------------------
(* The callers of stop()                                                   *)

\* The steps that are neither the TCP thread's nor the environment's.
LEMMA CallerSteps ==
  ASSUME Next, ~TcpThread, ~AcceptInterrupted, ~Environment
  PROVE  \E c \in Stoppers : Stop(c) \/ (c # "main" /\ Signal(c)) \/ MainWakes \/ MainExits
BY DEF Next, MainThread, Stoppers

\* They keep the types.
LEMMA CallerTypes ==
  ASSUME TypeOK, NEW c \in Stoppers, Stop(c) \/ Signal(c) \/ MainWakes \/ MainExits
  PROVE  TypeOK'
<1> USE DEF TypeOK, StopStep, socketVars
<1>1. CASE StopTest(c)
  BY <1>1 DEF StopTest
<1>2. CASE StopFlag(c)
  BY <1>2 DEF StopFlag
<1>3. CASE StopExchange(c)
  BY <1>3 DEF StopExchange
<1>4. CASE StopClose(c)
  <2>1. reclosed' \in BOOLEAN /\ fdOpen' \in BOOLEAN
    BY <1>4, Zenon DEF StopClose
  <2> QED
    BY <1>4, <2>1 DEF StopClose
<1>5. CASE StopDeadServer(c)
  BY <1>5 DEF StopDeadServer
<1>6. CASE Signal(c)
  <2>1. gRunning' \in BOOLEAN
    BY <1>6, Zenon DEF Signal
  <2> QED
    BY <1>6, <2>1 DEF Signal
<1>7. "main" \in Stoppers
  BY DEF Stoppers
<1>8. CASE MainWakes
  BY <1>7, <1>8 DEF MainWakes
<1>9. CASE MainExits
  BY <1>7, <1>9 DEF MainExits
<1> QED
  BY <1>1, <1>2, <1>3, <1>4, <1>5, <1>6, <1>8, <1>9 DEF Stop

\* exchange() makes its caller the owner of the descriptor, which close() ends.
LEMMA CallerOwner ==
  ASSUME TypeOK, DescriptorHasOwner, NEW c \in Stoppers, Stop(c) \/ Signal(c) \/ MainWakes \/ MainExits
  PROVE  DescriptorHasOwner'
<1> USE DEF TypeOK, DescriptorHasOwner, StopStep, socketVars, Stoppers
<1>1. CASE StopTest(c)
  BY <1>1 DEF StopTest
<1>2. CASE StopFlag(c)
  BY <1>2 DEF StopFlag
<1>3. CASE StopExchange(c)
  BY <1>3 DEF StopExchange
<1>4. CASE StopClose(c)
  BY <1>4 DEF StopClose
<1>5. CASE StopDeadServer(c)
  BY <1>5 DEF StopDeadServer
<1>6. CASE Signal(c)
  BY <1>6 DEF Signal
<1>7. CASE MainWakes
  BY <1>7 DEF MainWakes
<1>8. CASE MainExits
  BY <1>8 DEF MainExits
<1> QED
  BY <1>1, <1>2, <1>3, <1>4, <1>5, <1>6, <1>7, <1>8 DEF Stop

\* No stop() is under way before a signal, and the signal's own step ends that.
LEMMA CallerUndisturbed ==
  ASSUME TypeOK, Undisturbed, NEW c \in Stoppers, Stop(c) \/ Signal(c) \/ MainWakes \/ MainExits
  PROVE  Undisturbed'
<1>1. CASE Stop(c)
  <2>1. spc[c] \notin {"sleep", "idle"}
    BY <1>1 DEF Stop, StopStep, StopTest, StopFlag, StopExchange, StopClose, StopDeadServer
  <2>2. gRunning' = gRunning
    BY <1>1 DEF Stop, StopStep, StopTest, StopFlag, StopExchange, StopClose, StopDeadServer
  <2> QED
    BY <2>1, <2>2 DEF Undisturbed
<1>2. CASE Signal(c)
  BY <1>2 DEF Signal, Undisturbed
<1>3. CASE MainWakes
  BY <1>3 DEF MainWakes, Undisturbed
<1>4. CASE MainExits
  BY <1>4 DEF MainExits, StopStep, Undisturbed, Stoppers
<1> QED
  BY <1>1, <1>2, <1>3, <1>4

\* They leave the pointer and the TCP thread alone.
LEMMA CallerPointer ==
  ASSUME PointerIsSet, NEW c \in Stoppers, Stop(c) \/ Signal(c) \/ MainWakes \/ MainExits
  PROVE  PointerIsSet'
BY DEF PointerIsSet, Stop, StopStep, StopTest, StopFlag, StopExchange, StopClose, StopDeadServer,
       Signal, MainWakes, MainExits

\* Clients come and go in the socket's queue, ffmpeg and other programs outside.
LEMMA EnvironmentTypes == TypeOK /\ Environment => TypeOK'
<1> SUFFICES ASSUME TypeOK, Environment PROVE TypeOK'
  OBVIOUS
<1> USE DEF TypeOK, ServerUnchanged, supervisorVars, serverVars, socketVars, clientVars, childVars, stopperVars
<1>1. CASE ClientConnects
  BY <1>1 DEF ClientConnects
<1>2. CASE ClientLeaves
  <2>1. stalled' \in BOOLEAN
    BY <1>2, Zenon DEF ClientLeaves
  <2> QED
    BY <1>2, <2>1 DEF ClientLeaves
<1>7. CASE ClientReads
  <2>1. stalled' \in BOOLEAN
    BY <1>7, Zenon DEF ClientReads
  <2> QED
    BY <1>7, <2>1 DEF ClientReads
<1>3. CASE ClientStalls
  BY <1>3 DEF ClientStalls
<1>4. CASE ForeignListener
  BY <1>4 DEF ForeignListener
<1>5. CASE ForkChild
  BY <1>5 DEF ForkChild
<1>6. CASE ChildEnds
  <2>1. child' \in BOOLEAN
    BY <1>6, Zenon DEF ChildEnds
  <2> QED
    BY <1>6, <2>1 DEF ChildEnds
<1> QED
  BY <1>1, <1>2, <1>3, <1>4, <1>5, <1>6, <1>7 DEF Environment

\* The environment, and a stuttering step, touch nothing the other conjuncts read.
LEMMA EnvironmentRest ==
  ASSUME Environment \/ UNCHANGED vars
  PROVE  /\ UNCHANGED <<tpc, gRunning, fdOpen, listenFd, sock, ptr, flag, reclosed, spc>>
BY DEF Environment, ClientConnects, ClientLeaves, ClientReads, ClientStalls, ForeignListener,
       ForkChild, ChildEnds, ServerUnchanged, vars, supervisorVars, serverVars, socketVars, clientVars, childVars, stopperVars

-----------------------------------------------------------------------------
\* The invariant is inductive.
LEMMA IInvStep == IInv /\ [Next]_vars => IInv'
<1> SUFFICES ASSUME TypeOK, DescriptorHasOwner, PointerIsSet, Undisturbed, [Next]_vars
             PROVE  IInv'
  BY DEF IInv
<1>1. CASE TcpThread
  BY <1>1, TcpTypes, TcpOwner, TcpPointer, TcpUndisturbed DEF IInv
<1>2. CASE \E c \in Stoppers : Stop(c) \/ (c # "main" /\ Signal(c)) \/ MainWakes \/ MainExits
  BY <1>2, CallerTypes, CallerOwner, CallerPointer, CallerUndisturbed DEF IInv
<1>3. CASE Environment \/ UNCHANGED vars
  <2>1. UNCHANGED <<tpc, gRunning, fdOpen, listenFd, sock, ptr, flag, reclosed, spc>>
    BY <1>3, EnvironmentRest
  <2>2. DescriptorHasOwner' /\ PointerIsSet' /\ Undisturbed'
    BY <2>1 DEF DescriptorHasOwner, PointerIsSet, Undisturbed, InRun, Serving
  <2>3. CASE Environment
    BY <2>2, <2>3, EnvironmentTypes DEF IInv
  <2>4. CASE UNCHANGED vars
    <3>1. TypeOK'
      BY <2>4 DEF TypeOK, vars, supervisorVars, serverVars, socketVars, clientVars, childVars, stopperVars
    <3> QED
      BY <2>2, <3>1 DEF IInv
  <2> QED
    BY <1>3, <2>3, <2>4
<1>4. CASE AcceptInterrupted
  BY <1>4, InterruptedIInv DEF IInv
<1> QED
  BY <1>1, <1>2, <1>3, <1>4, CallerSteps

\* The descriptor has an owner, the pointer is where it should be, and run() is
\* undisturbed until a signal, in every reachable state.
THEOREM Invariance == Spec => []IInv
BY InitIInv, IInvStep, PTL DEF Spec

\* Every variable keeps its type.
THEOREM TypeCorrect == Spec => []TypeOK
<1>1. IInv => TypeOK
  BY DEF IInv
<1> QED
  BY <1>1, Invariance, PTL

\* No path of run() and no order of stop() calls loses the listening socket.
THEOREM NoLeak == Spec => []NoDescriptorLeak
<1>1. IInv => NoDescriptorLeak
  BY DEF IInv, DescriptorHasOwner, PointerIsSet, NoDescriptorLeak, Holding
<1> QED
  BY <1>1, Invariance, PTL

\* Double closes and uses of a deleted server need a shutdown.
THEOREM RaceNeedsShutdown == Spec => []RaceOnlyInShutdown
<1>1. IInv => RaceOnlyInShutdown
  BY DEF IInv, Undisturbed, RaceOnlyInShutdown
<1> QED
  BY <1>1, Invariance, PTL

\* run() serves only with its socket listening.
THEOREM Listens == Spec => []ListeningWhileServing
<1>1. IInv => ListeningWhileServing
  BY DEF IInv, Undisturbed, ListeningWhileServing, Serving, InRun, Holding
<1> QED
  BY <1>1, Invariance, PTL
==============================================================================
