----------------------- MODULE RtspSupervisor_proofs -----------------------
(***************************************************************************)
(* Proofs about RtspSupervisor for any number of signals, forks and polls: *)
(* IInv is inductive, and it implies that no ffmpeg process is lost, that   *)
(* there is at most one, and that none outlives run_rtsp_loop.             *)
(***************************************************************************)
EXTENDS RtspSupervisor, TLAPS

USE HandlersAssumption, BoundsAssumption, RetryAssumption DEF Callers, Pids, NoPid

-----------------------------------------------------------------------------
(* Types.                                                                  *)

\* Caller c moves within the steps of an operation, and no other caller moves.
PcMoves(c, steps, S) ==
    /\ pc' \in [Callers -> S]
    /\ pc'[c] \in steps
    /\ \A d \in Callers \ {c} : pc'[d] = pc[d]

\* A step of start() keeps the launcher's variables in their types.
LEMMA StartType ==
  ASSUME LauncherTypeOK, NEW S, pc \in [Callers -> S], StartSteps \subseteq S,
         NEW c \in Callers, Start(c)
  PROVE  LauncherTypeOK' /\ PcMoves(c, StartSteps, S)
<1> USE DEF LauncherTypeOK, StartSteps, Goto, Wait, PcMoves
<1>1. CASE Lock(c, "start", "startRead")
  BY <1>1 DEF Lock
<1>2. CASE StartRead(c)
  BY <1>2 DEF StartRead
<1>3. CASE Fork(c)
  BY <1>3 DEF Fork
<1>4. CASE ForkFails(c)
  BY <1>4 DEF ForkFails
<1>5. CASE Lock(c, "pubLock", "pub")
  BY <1>5 DEF Lock
<1>6. CASE PublishPid(c)
  BY <1>6 DEF PublishPid
<1>7. CASE StartPollAlive(c)
  BY <1>7 DEF StartPollAlive
<1>8. CASE StartPollsDone(c)
  BY <1>8 DEF StartPollsDone
<1>9. CASE StartPollGone(c)
  BY <1>9 DEF StartPollGone
<1>10. CASE Lock(c, "startLock", "startClear")
  BY <1>10 DEF Lock
<1>11. CASE StartClear(c)
  BY <1>11 DEF StartClear
<1> QED
  BY <1>1, <1>2, <1>3, <1>4, <1>5, <1>6, <1>7, <1>8, <1>9, <1>10, <1>11 DEF Start

\* A step of check() keeps the launcher's variables in their types.
LEMMA CheckType ==
  ASSUME LauncherTypeOK, NEW S, pc \in [Callers -> S], CheckSteps \subseteq S,
         NEW c \in Callers, Check(c)
  PROVE  LauncherTypeOK' /\ PcMoves(c, CheckSteps, S)
<1> USE DEF LauncherTypeOK, CheckSteps, Goto, Wait, PcMoves
<1>1. CASE Lock(c, "check", "checkRead")
  BY <1>1 DEF Lock
<1>2. CASE CheckRead(c)
  BY <1>2 DEF CheckRead
<1>3. CASE CheckAlive(c)
  BY <1>3 DEF CheckAlive
<1>4. CASE CheckGone(c)
  BY <1>4 DEF CheckGone
<1>5. CASE Lock(c, "checkLock", "checkClear")
  BY <1>5 DEF Lock
<1>6. CASE CheckClear(c)
  BY <1>6 DEF CheckClear
<1> QED
  BY <1>1, <1>2, <1>3, <1>4, <1>5, <1>6 DEF Check

\* A step of stop() keeps the launcher's variables in their types.
LEMMA StopType ==
  ASSUME LauncherTypeOK, NEW S, pc \in [Callers -> S], StopSteps \subseteq S,
         NEW c \in Callers, Stop(c)
  PROVE  LauncherTypeOK' /\ PcMoves(c, StopSteps, S)
<1> USE DEF LauncherTypeOK, StopSteps, Goto, Wait, PcMoves
<1>1. CASE Lock(c, "stop", "stopRead")
  BY <1>1 DEF Lock
<1>2. CASE StopRead(c)
  BY <1>2 DEF StopRead
<1>3. CASE StopTerm(c)
  BY <1>3 DEF StopTerm
<1>4. CASE StopPollAlive(c)
  BY <1>4 DEF StopPollAlive
<1>5. CASE StopPollsDone(c)
  BY <1>5 DEF StopPollsDone
<1>6. CASE StopPollGone(c)
  BY <1>6 DEF StopPollGone
<1>7. CASE StopKill(c)
  BY <1>7 DEF StopKill
<1>8. CASE StopReap(c)
  BY <1>8 DEF StopReap
<1>9. CASE Lock(c, "stopLock", "stopClear")
  BY <1>9 DEF Lock
<1>10. CASE StopClear(c)
  BY <1>10 DEF StopClear
<1> QED
  BY <1>1, <1>2, <1>3, <1>4, <1>5, <1>6, <1>7, <1>8, <1>9, <1>10 DEF Stop

\* The RTSP thread's own steps.
LEMMA LoopType ==
  ASSUME TypeOK, \/ RtspPublish
           \/ RtspLoop
           \/ RtspStartFailed
           \/ RtspRetry
           \/ RtspStartThrows
           \/ RtspStarted
           \/ RtspWatch
           \/ RtspAlive
           \/ RtspExited
           \/ RtspExitRetry
           \/ RtspStopped
           \/ RtspReturn
  PROVE  TypeOK'
<1> USE DEF TypeOK, PcTypeOK, LauncherTypeOK, RtspSteps, StartSteps, CheckSteps,
            StopSteps, RtspGoto, Goto, Doubled
<1>1. CASE RtspPublish
  BY <1>1 DEF RtspPublish
<1>2. CASE RtspLoop
  BY <1>2 DEF RtspLoop
<1>3. CASE RtspStartFailed
  BY <1>3 DEF RtspStartFailed
<1>4. CASE RtspRetry
  BY <1>4 DEF RtspRetry
<1>5. CASE RtspStartThrows
  BY <1>5 DEF RtspStartThrows
<1>6. CASE RtspStarted
  BY <1>6 DEF RtspStarted
<1>7. CASE RtspWatch
  BY <1>7 DEF RtspWatch
<1>8. CASE RtspAlive
  BY <1>8 DEF RtspAlive
<1>9. CASE RtspExited
  BY <1>9 DEF RtspExited
<1>10. CASE RtspExitRetry
  BY <1>10 DEF RtspExitRetry
<1>11. CASE RtspStopped
  BY <1>11 DEF RtspStopped
<1>12. CASE RtspReturn
  BY <1>12 DEF RtspReturn
<1> QED
  BY <1>1, <1>2, <1>3, <1>4, <1>5, <1>6, <1>7, <1>8, <1>9, <1>10, <1>11, <1>12

\* The steps of main and of a handler outside stop().
LEMMA CallerType ==
  ASSUME TypeOK, NEW c \in Callers \ {"rtsp"},
         \/ c = "main" /\ (MainWakes \/ TestPointer(c, "join") \/ MainJoins \/ MainExits)
         \/ c \in Handlers /\ (TestPointer(c, "done") \/ HandlerReturns(c) \/ Signal(c))
         \/ DeadLauncher(c)
  PROVE  TypeOK'
<1> USE DEF TypeOK, PcTypeOK, LauncherTypeOK, MainSteps, HandlerSteps, StopSteps,
            CallerGoto, Goto
<1>1. CASE MainWakes /\ c = "main"
  BY <1>1 DEF MainWakes
<1>2. CASE TestPointer(c, "join") /\ c = "main"
  BY <1>2 DEF TestPointer
<1>3. CASE MainJoins /\ c = "main"
  BY <1>3 DEF MainJoins
<1>4. CASE MainExits /\ c = "main"
  BY <1>4 DEF MainExits
<1>5. CASE TestPointer(c, "done") /\ c \in Handlers
  BY <1>5 DEF TestPointer
<1>6. CASE HandlerReturns(c) /\ c \in Handlers
  BY <1>6 DEF HandlerReturns
<1>7. CASE Signal(c) /\ c \in Handlers
  <2>1. PICK t \in DeliveredTo(c) : host' = [host EXCEPT ![c] = t]
    BY <1>7 DEF Signal
  <2>2. t \in Callers \cup {"tcp", "none"}
    BY DEF DeliveredTo
  <2>3. host' \in [Handlers -> Callers \cup {"tcp", "none"}]
    BY <1>7, <2>1, <2>2
  <2>4. PcTypeOK' /\ LauncherTypeOK'
    BY <1>7 DEF Signal
  <2> QED
    BY <1>7, <2>3, <2>4 DEF Signal
<1>8. CASE DeadLauncher(c)
  BY <1>8 DEF DeadLauncher, supVars
<1> QED
  BY <1>1, <1>2, <1>3, <1>4, <1>5, <1>6, <1>7, <1>8

\* Every step keeps every variable in its type.
LEMMA TypeStep == TypeOK /\ [Next]_vars => TypeOK'
<1> SUFFICES ASSUME TypeOK, [Next]_vars PROVE TypeOK'
  OBVIOUS
<1> DEFINE S == RtspSteps \cup MainSteps \cup HandlerSteps
<1>1. /\ pc \in [Callers -> S] /\ LauncherTypeOK
      /\ StartSteps \subseteq S /\ CheckSteps \subseteq S /\ StopSteps \subseteq S
  BY DEF TypeOK, PcTypeOK, RtspSteps
<1> HIDE DEF S
<1>2. ASSUME Start("rtsp") \/ Check("rtsp") \/ Stop("rtsp"), UNCHANGED supVars PROVE TypeOK'
  <2>1. LauncherTypeOK'
    BY <1>1, <1>2, StartType, CheckType, StopType
  <2>2. \/ PcMoves("rtsp", StartSteps, S) \/ PcMoves("rtsp", CheckSteps, S)
        \/ PcMoves("rtsp", StopSteps, S)
    BY <1>1, <1>2, StartType, CheckType, StopType
  <2>3. PcTypeOK'
    BY <2>2 DEF PcMoves, TypeOK, PcTypeOK, RtspSteps, S
  <2> QED
    BY <1>2, <2>1, <2>3 DEF TypeOK, supVars
<1>3. ASSUME NEW c \in Callers \ {"rtsp"}, Stop(c), UNCHANGED supVars PROVE TypeOK'
  <2>1. LauncherTypeOK' /\ PcMoves(c, StopSteps, S)
    BY <1>1, <1>3, StopType
  <2>2. PcTypeOK'
    BY <2>1 DEF PcMoves, TypeOK, PcTypeOK, MainSteps, HandlerSteps, S
  <2> QED
    BY <1>3, <2>1, <2>2 DEF TypeOK, supVars
<1>4. ASSUME NEW p \in Pids, ChildExit(p), UNCHANGED supVars PROVE TypeOK'
  BY <1>4 DEF ChildExit, TypeOK, PcTypeOK, LauncherTypeOK, supVars
<1>5. CASE UNCHANGED vars
  BY <1>5 DEF vars, launcherVars, supVars, TypeOK, PcTypeOK, LauncherTypeOK
<1>6. CASE RtspThread
  BY <1>2, <1>6, LoopType DEF RtspThread
<1>7. CASE MainThread
  BY <1>3, <1>7, CallerType DEF MainThread
<1>8. ASSUME NEW h \in Handlers, Handler(h) PROVE TypeOK'
  BY <1>3, <1>8, CallerType DEF Handler
<1>9. ASSUME NEW h \in Handlers, Signal(h) PROVE TypeOK'
  BY <1>9, CallerType
<1> QED
  BY <1>4, <1>5, <1>6, <1>7, <1>8, <1>9 DEF Next, Threads, Environment

-----------------------------------------------------------------------------
(* The inductive invariant.                                                *)

\* It holds initially.
LEMMA InitIInv == Init => IInv
<1> SUFFICES ASSUME Init PROVE IInv
  OBVIOUS
<1> USE DEF Init, LauncherInit
<1>1. /\ pc \in [Callers -> {"born", "sleep", "idle"}]
      /\ pc["rtsp"] = "born" /\ pc["main"] = "sleep"
      /\ \A h \in Handlers : pc[h] = "idle"
  OBVIOUS
<1>2. TypeOK
  <2>1. PcTypeOK
    BY <1>1 DEF PcTypeOK, RtspSteps, MainSteps, HandlerSteps
  <2>2. LauncherTypeOK
    BY DEF LauncherTypeOK
  <2>3. backoff \in RetryMin .. RetryMax
    OBVIOUS
  <2>4. host \in [Handlers -> Callers \cup {"tcp", "none"}]
    OBVIOUS
  <2> QED
    BY <2>1, <2>2, <2>3, <2>4 DEF TypeOK
<1>3. PidsCounted /\ ChildKnown
  BY DEF PidsCounted, ChildKnown, Unreaped
<1>4. NewPidKnown /\ NoPusherYet
  BY <1>1 DEF NewPidKnown, NoPusherYet
<1>5. HeldPid /\ StoppersComeLate /\ ClearedIsReaped
  BY <1>1 DEF HeldPid, StoppersComeLate, ClearedIsReaped, PidSteps, HoldingSteps,
              ReapedSteps, StopSteps
<1> QED
  BY <1>2, <1>3, <1>4, <1>5 DEF IInv, PusherInv

\* stop(), whoever calls it.
LEMMA StopStep ==
  ASSUME IInv, NEW c \in Callers, Stop(c), UNCHANGED supVars
  PROVE  PusherInv'
<1> USE DEF IInv, PusherInv, TypeOK, PcTypeOK, LauncherTypeOK, PidsCounted, ChildKnown,
            NewPidKnown, NoPusherYet, HeldPid, StoppersComeLate, ClearedIsReaped,
            Unreaped, RtspSteps, MainSteps, HandlerSteps, StartSteps,
            CheckSteps, StopSteps, HoldingSteps, PidSteps, ReapedSteps, SpawnSteps,
            NoPusherSteps,
            supVars, Goto, Wait
<1>1. CASE Lock(c, "stop", "stopRead")
  BY <1>1 DEF Lock
<1>2. CASE StopRead(c)
  <2>1. PidsCounted'
    BY <1>2 DEF StopRead
  <2>2. ChildKnown'
    BY <1>2 DEF StopRead
  <2>3. NewPidKnown'
    BY <1>2 DEF StopRead
  <2>4. NoPusherYet'
    BY <1>2 DEF StopRead
  <2>5. HeldPid'
    BY <1>2 DEF StopRead
  <2>6. StoppersComeLate'
    BY <1>2 DEF StopRead
  <2>7. ClearedIsReaped'
    BY <1>2 DEF StopRead
  <2> QED
    BY <2>1, <2>2, <2>3, <2>4, <2>5, <2>6, <2>7 DEF PusherInv
<1>3. CASE StopTerm(c)
  BY <1>3 DEF StopTerm
<1>4. CASE StopPollAlive(c)
  BY <1>4 DEF StopPollAlive
<1>5. CASE StopPollsDone(c)
  BY <1>5 DEF StopPollsDone
<1>6. CASE StopPollGone(c)
  BY <1>6 DEF StopPollGone
<1>7. CASE StopKill(c)
  <2>1. PidsCounted'
    BY <1>7 DEF StopKill
  <2>2. ChildKnown'
    BY <1>7 DEF StopKill
  <2>3. NewPidKnown'
    BY <1>7 DEF StopKill
  <2>4. NoPusherYet'
    BY <1>7 DEF StopKill
  <2>5. HeldPid'
    BY <1>7 DEF StopKill
  <2>6. StoppersComeLate'
    BY <1>7 DEF StopKill
  <2>7. ClearedIsReaped'
    BY <1>7 DEF StopKill
  <2> QED
    BY <2>1, <2>2, <2>3, <2>4, <2>5, <2>6, <2>7 DEF PusherInv
<1>8. CASE StopReap(c)
  BY <1>8 DEF StopReap
<1>9. CASE Lock(c, "stopLock", "stopClear")
  BY <1>9 DEF Lock
<1>10. CASE StopClear(c)
  BY <1>10 DEF StopClear
<1> QED
  BY <1>1, <1>2, <1>3, <1>4, <1>5, <1>6, <1>7, <1>8, <1>9, <1>10 DEF Stop

\* start().
LEMMA StartStep ==
  ASSUME IInv, NEW c, c = "rtsp", Start(c), UNCHANGED supVars
  PROVE  PusherInv'
<1> USE DEF IInv, PusherInv, TypeOK, PcTypeOK, LauncherTypeOK, PidsCounted, ChildKnown,
            NewPidKnown, NoPusherYet, HeldPid, StoppersComeLate, ClearedIsReaped,
            Unreaped, RtspSteps, MainSteps, HandlerSteps, StartSteps,
            CheckSteps, StopSteps, HoldingSteps, PidSteps, ReapedSteps, SpawnSteps,
            NoPusherSteps,
            supVars, Goto, Wait
<1>1. CASE Lock(c, "start", "startRead")
  BY <1>1 DEF Lock
<1>2. CASE StartRead(c)
  BY <1>2 DEF StartRead
<1>3. CASE Fork(c)
  BY <1>3 DEF Fork
<1>4. CASE ForkFails(c)
  BY <1>4 DEF ForkFails
<1>5. CASE Lock(c, "pubLock", "pub")
  BY <1>5 DEF Lock
<1>6. CASE PublishPid(c)
  <2>1. PidsCounted'
    BY <1>6 DEF PublishPid
  <2>2. ChildKnown'
    BY <1>6 DEF PublishPid
  <2>3. NewPidKnown'
    BY <1>6 DEF PublishPid
  <2>4. NoPusherYet'
    BY <1>6 DEF PublishPid
  <2>5. HeldPid'
    <3> SUFFICES ASSUME NEW d \in Callers, pc'[d] \in PidSteps
                 PROVE  (pid[d] # NoPid /\ pid[d] <= forks /\ childPid \in {NoPid, pid[d]})'
      BY DEF HeldPid
    <3>1. d = c
      BY <1>6 DEF PublishPid
    <3> QED
      BY <1>6, <3>1 DEF PublishPid
  <2>6. StoppersComeLate'
    BY <1>6 DEF PublishPid
  <2>7. ClearedIsReaped'
    BY <1>6 DEF PublishPid
  <2> QED
    BY <2>1, <2>2, <2>3, <2>4, <2>5, <2>6, <2>7 DEF PusherInv
<1>7. CASE StartPollAlive(c)
  BY <1>7 DEF StartPollAlive
<1>8. CASE StartPollsDone(c)
  BY <1>8 DEF StartPollsDone
<1>9. CASE StartPollGone(c)
  BY <1>9 DEF StartPollGone
<1>10. CASE Lock(c, "startLock", "startClear")
  BY <1>10 DEF Lock
<1>11. CASE StartClear(c)
  BY <1>11 DEF StartClear
<1> QED
  BY <1>1, <1>2, <1>3, <1>4, <1>5, <1>6, <1>7, <1>8, <1>9, <1>10, <1>11 DEF Start

\* check_alive().
LEMMA CheckStep ==
  ASSUME IInv, NEW c, c = "rtsp", Check(c), UNCHANGED supVars
  PROVE  PusherInv'
<1> USE DEF IInv, PusherInv, TypeOK, PcTypeOK, LauncherTypeOK, PidsCounted, ChildKnown,
            NewPidKnown, NoPusherYet, HeldPid, StoppersComeLate, ClearedIsReaped,
            Unreaped, RtspSteps, MainSteps, HandlerSteps, StartSteps,
            CheckSteps, StopSteps, HoldingSteps, PidSteps, ReapedSteps, SpawnSteps,
            NoPusherSteps,
            supVars, Goto, Wait
<1>1. CASE Lock(c, "check", "checkRead")
  BY <1>1 DEF Lock
<1>2. CASE CheckRead(c)
  <2>1. PidsCounted'
    BY <1>2 DEF CheckRead
  <2>2. ChildKnown'
    BY <1>2 DEF CheckRead
  <2>3. NewPidKnown'
    BY <1>2 DEF CheckRead
  <2>4. NoPusherYet'
    BY <1>2 DEF CheckRead
  <2>5. HeldPid'
    BY <1>2 DEF CheckRead
  <2>6. StoppersComeLate'
    BY <1>2 DEF CheckRead
  <2>7. ClearedIsReaped'
    BY <1>2 DEF CheckRead
  <2> QED
    BY <2>1, <2>2, <2>3, <2>4, <2>5, <2>6, <2>7 DEF PusherInv
<1>3. CASE CheckAlive(c)
  BY <1>3 DEF CheckAlive
<1>4. CASE CheckGone(c)
  BY <1>4 DEF CheckGone
<1>5. CASE Lock(c, "checkLock", "checkClear")
  BY <1>5 DEF Lock
<1>6. CASE CheckClear(c)
  BY <1>6 DEF CheckClear
<1> QED
  BY <1>1, <1>2, <1>3, <1>4, <1>5, <1>6 DEF Check

\* The supervisor loop.
LEMMA LoopStep ==
  ASSUME IInv, 
         \/ RtspPublish
         \/ RtspLoop
         \/ RtspStartFailed
         \/ RtspRetry
         \/ RtspStartThrows
         \/ RtspStarted
         \/ RtspWatch
         \/ RtspAlive
         \/ RtspExited
         \/ RtspExitRetry
         \/ RtspStopped
         \/ RtspReturn
  PROVE  PusherInv'
<1> USE DEF IInv, PusherInv, TypeOK, PcTypeOK, LauncherTypeOK, PidsCounted, ChildKnown,
            NewPidKnown, NoPusherYet, HeldPid, StoppersComeLate, ClearedIsReaped,
            Unreaped, RtspSteps, MainSteps, HandlerSteps, StartSteps,
            CheckSteps, StopSteps, HoldingSteps, PidSteps, ReapedSteps, SpawnSteps,
            NoPusherSteps,
            RtspGoto, Goto, Doubled
<1>1. CASE RtspPublish
  BY <1>1 DEF RtspPublish
<1>2. CASE RtspLoop
  BY <1>2 DEF RtspLoop
<1>3. CASE RtspStartFailed
  BY <1>3 DEF RtspStartFailed
<1>4. CASE RtspRetry
  BY <1>4 DEF RtspRetry
<1>5. CASE RtspStartThrows
  BY <1>5 DEF RtspStartThrows
<1>6. CASE RtspStarted
  BY <1>6 DEF RtspStarted
<1>7. CASE RtspWatch
  BY <1>7 DEF RtspWatch
<1>8. CASE RtspAlive
  BY <1>8 DEF RtspAlive
<1>9. CASE RtspExited
  BY <1>9 DEF RtspExited
<1>10. CASE RtspExitRetry
  BY <1>10 DEF RtspExitRetry
<1>11. CASE RtspStopped
  BY <1>11 DEF RtspStopped
<1>12. CASE RtspReturn
  BY <1>12 DEF RtspReturn
<1> QED
  BY <1>1, <1>2, <1>3, <1>4, <1>5, <1>6, <1>7, <1>8, <1>9, <1>10, <1>11, <1>12

\* main and the handlers outside stop().
LEMMA CallerStep ==
  ASSUME IInv, NEW c \in Callers \ {"rtsp"},
         \/ c = "main" /\ (MainWakes \/ TestPointer(c, "join") \/ MainJoins \/ MainExits)
         \/ c \in Handlers /\ (TestPointer(c, "done") \/ HandlerReturns(c) \/ Signal(c))
         \/ DeadLauncher(c)
  PROVE  PusherInv'
<1> USE DEF IInv, PusherInv, TypeOK, PcTypeOK, LauncherTypeOK, PidsCounted, ChildKnown,
            NewPidKnown, NoPusherYet, HeldPid, StoppersComeLate, ClearedIsReaped,
            Unreaped, RtspSteps, MainSteps, HandlerSteps, StartSteps,
            CheckSteps, StopSteps, HoldingSteps, PidSteps, ReapedSteps, SpawnSteps,
            NoPusherSteps,
            CallerGoto, Goto
<1>1. CASE MainWakes /\ c = "main"
  BY <1>1 DEF MainWakes
<1>2. CASE TestPointer(c, "join")
  BY <1>2 DEF TestPointer
<1>3. CASE MainJoins /\ c = "main"
  BY <1>3 DEF MainJoins
<1>4. CASE MainExits /\ c = "main"
  BY <1>4 DEF MainExits
<1>5. CASE TestPointer(c, "done")
  BY <1>5 DEF TestPointer
<1>6. CASE HandlerReturns(c)
  BY <1>6 DEF HandlerReturns
<1>7. CASE Signal(c)
  BY <1>7 DEF Signal
<1>8. CASE DeadLauncher(c)
  BY <1>8 DEF DeadLauncher, supVars
<1> QED
  BY <1>1, <1>2, <1>3, <1>4, <1>5, <1>6, <1>7, <1>8

\* ffmpeg ends.
LEMMA ChildExitStep ==
  ASSUME IInv, NEW p \in Pids, ChildExit(p), UNCHANGED supVars
  PROVE  PusherInv'
BY DEF IInv, PusherInv, TypeOK, PcTypeOK, LauncherTypeOK, PidsCounted, ChildKnown,
       NewPidKnown, NoPusherYet, HeldPid, StoppersComeLate, ClearedIsReaped,
       Unreaped, RtspSteps, MainSteps, HandlerSteps, StartSteps,
       CheckSteps, StopSteps, HoldingSteps, PidSteps, ReapedSteps, SpawnSteps,
       NoPusherSteps,
       ChildExit, supVars

\* Every step keeps the invariant.
LEMMA IInvStep == IInv /\ [Next]_vars => IInv'
<1> SUFFICES ASSUME IInv, [Next]_vars PROVE IInv'
  OBVIOUS
<1>1. TypeOK'
  BY TypeStep DEF IInv
<1>2. PusherInv'
  <2>1. CASE RtspThread
    <3>1. CASE (Start("rtsp") \/ Check("rtsp") \/ Stop("rtsp")) /\ UNCHANGED supVars
      BY <3>1, StartStep, CheckStep, StopStep
    <3> QED
      BY <2>1, <3>1, LoopStep DEF RtspThread
  <2>2. CASE MainThread
    BY <2>2, CallerStep, StopStep DEF MainThread
  <2>3. ASSUME NEW h \in Handlers, Handler(h) PROVE PusherInv'
    BY <2>3, CallerStep, StopStep DEF Handler
  <2>4. ASSUME NEW h \in Handlers, Signal(h) PROVE PusherInv'
    BY <2>4, CallerStep
  <2>5. ASSUME NEW p \in Pids, ChildExit(p), UNCHANGED supVars PROVE PusherInv'
    BY <2>5, ChildExitStep
  <2>6. CASE UNCHANGED vars
    BY <2>6 DEF vars, launcherVars, supVars, IInv, PusherInv, TypeOK, PcTypeOK, LauncherTypeOK, PidsCounted, ChildKnown,
                NewPidKnown, NoPusherYet, HeldPid, StoppersComeLate, ClearedIsReaped,
                Unreaped, RtspSteps, MainSteps, HandlerSteps, StartSteps,
                CheckSteps, StopSteps, HoldingSteps, PidSteps, ReapedSteps, SpawnSteps,
                NoPusherSteps
  <2> QED
    BY <2>1, <2>2, <2>3, <2>4, <2>5, <2>6 DEF Next, Threads, Environment
<1> QED
  BY <1>1, <1>2 DEF IInv

\* The invariant gives the properties.
LEMMA IInvImplies == IInv => ChildKnown /\ OnePusher /\ NoOrphan
<1> SUFFICES ASSUME IInv PROVE OnePusher /\ NoOrphan
  BY DEF IInv, PusherInv
<1>1. \A p \in Pids : Unreaped(p) =>
         (childPid = p \/ (childPid = NoPid /\ pid["rtsp"] = p))
  BY DEF IInv, PusherInv, ChildKnown, NoPusherYet, NoPusherSteps, SpawnSteps
<1>2. OnePusher
  BY <1>1 DEF OnePusher
<1>3. NoOrphan
  BY DEF NoOrphan, IInv, PusherInv, ChildKnown, NoPusherYet, NoPusherSteps, SpawnSteps
<1> QED
  BY <1>2, <1>3

\* Every variable stays in its type: the control states of the three kinds of
\* thread, pids within the forks, the backoff within its two bounds.
THEOREM TypeCorrect == Spec => []TypeOK
<1>1. Init => TypeOK
  BY InitIInv DEF IInv
<1> QED
  BY <1>1, TypeStep, PTL DEF Spec

\* The strengthened invariant holds throughout.
THEOREM Invariant == Spec => []IInv
  BY InitIInv, IInvStep, PTL DEF Spec

\* However start(), check_alive() and the stop() calls of three kinds of callers
\* interleave, child_pid_ never loses an ffmpeg process, there is at most one,
\* and none is left when run_rtsp_loop returns.
THEOREM NoPusherLost == Spec => [](ChildKnown /\ OnePusher /\ NoOrphan)
  BY Invariant, IInvImplies, PTL

\* A running ffmpeg's pid is always in child_pid_ or about to be stored there.
THEOREM PusherIsKnown == Spec => []ChildKnown
BY NoPusherLost, PTL

\* There is never more than one ffmpeg.
THEOREM PusherIsAlone == Spec => []OnePusher
BY NoPusherLost, PTL
-----------------------------------------------------------------------------
(* The supervisor implements PusherContract.                               *)

Live == {p \in Pids : Unreaped(p)}
Open == pc["rtsp"] # "returned"

\* A waitpid that reaps a pusher reaps the only one.
LEMMA WaitReaps ==
  ASSUME OnePusher, child \in [Pids -> {"unborn", "alive", "zombie", "reaped"}],
         NEW p, Wait(p)
  PROVE  Live' = Live \/ (Live # {} /\ Live' = {})
<1>1. CASE p \in Pids /\ Unreaped(p)
  <2>1. Live = {p}
    BY <1>1 DEF Live, OnePusher
  <2>2. Live' = {}
    BY <2>1 DEF Live, Unreaped, Wait
  <2> QED
    BY <2>1, <2>2
<1>2. CASE ~(p \in Pids /\ Unreaped(p))
  BY <1>2 DEF Live, Unreaped, Wait
<1> QED
  BY <1>1, <1>2

\* A step that changes neither the processes nor whether the loop has returned.
LEMMA Quiet ==
  ASSUME Live' = Live, forks' = forks, Open' = Open
  PROVE  UNCHANGED Contract!vars
BY DEF Contract!vars, Live, Open

\* A step that reaps the pusher, or nothing.
LEMMA MapsWait ==
  ASSUME IInv, NEW p, Wait(p), forks' = forks, Open' = Open
  PROVE  [Contract!Next]_(Contract!vars)
<1>1. OnePusher /\ child \in [Pids -> {"unborn", "alive", "zombie", "reaped"}]
  BY IInvImplies DEF IInv, TypeOK, LauncherTypeOK
<1>2. Live' = Live \/ (Live # {} /\ Live' = {})
  BY <1>1, WaitReaps
<1>3. CASE Live' = Live
  BY <1>3, Quiet
<1>4. CASE Live # {} /\ Live' = {}
  <2>1. Contract!Reap
    BY <1>4 DEF Contract!Reap, Live, Open
  <2> QED
    BY <2>1 DEF Contract!Next
<1> QED
  BY <1>2, <1>3, <1>4

\* The caller's moves within an operation never are the return of the loop.
LEMMA OpensNothing ==
  ASSUME TypeOK, TypeOK', NEW c \in Callers,
         (c = "rtsp" /\ (Start(c) \/ Check(c))) \/ Stop(c)
  PROVE  Open' = Open
<1> DEFINE S == RtspSteps \cup MainSteps \cup HandlerSteps
<1>1. /\ pc \in [Callers -> S] /\ LauncherTypeOK
      /\ StartSteps \subseteq S /\ CheckSteps \subseteq S /\ StopSteps \subseteq S
  BY DEF TypeOK, PcTypeOK, RtspSteps
<1> HIDE DEF S
<1>2. \/ PcMoves(c, StartSteps, S) \/ PcMoves(c, CheckSteps, S)
      \/ PcMoves(c, StopSteps, S)
  BY <1>1, StartType, CheckType, StopType
<1>3. c = "rtsp" => pc["rtsp"] # "returned"
  BY DEF Start, Check, Stop, Lock, StartRead, Fork, ForkFails, PublishPid,
         StartPollAlive, StartPollsDone, StartPollGone, StartClear,
         CheckRead, CheckAlive, CheckGone, CheckClear,
         StopRead, StopTerm, StopPollAlive, StopPollsDone, StopPollGone, StopKill,
         StopReap, StopClear
<1> QED
  BY <1>2, <1>3 DEF Open, PcMoves, StartSteps, CheckSteps, StopSteps

\* stop() spawns nothing.
LEMMA MapsStop ==
  ASSUME IInv, IInv', NEW c \in Callers, Stop(c)
  PROVE  [Contract!Next]_(Contract!vars)
<1>1. Open' = Open
  BY OpensNothing DEF IInv
<1>2. CASE StopPollGone(c)
  BY <1>1, <1>2, MapsWait DEF StopPollGone
<1>3. CASE StopReap(c)
  BY <1>1, <1>3, MapsWait DEF StopReap
<1>4. CASE StopKill(c)
  <2>1. Live' = Live
    BY <1>4 DEF StopKill, Live, Unreaped, IInv, TypeOK, LauncherTypeOK
  <2> QED
    BY <1>1, <1>4, <2>1, Quiet DEF StopKill
<1>5. CASE UNCHANGED <<child, forks>>
  BY <1>1, <1>5, Quiet DEF Live, Unreaped
<1> QED
  BY <1>2, <1>3, <1>4, <1>5
  DEF Stop, Lock, StopRead, StopTerm, StopPollAlive, StopPollsDone, StopClear

\* start() spawns a pusher when there is none.
LEMMA MapsStart ==
  ASSUME IInv, IInv', Start("rtsp")
  PROVE  [Contract!Next]_(Contract!vars)
<1>1. Open' = Open
  BY OpensNothing DEF IInv
<1>2. CASE StartPollGone("rtsp")
  BY <1>1, <1>2, MapsWait DEF StartPollGone
<1>3. CASE Fork("rtsp")
  <2>1. Open /\ Open'
    BY <1>1, <1>3 DEF Fork, Open
  <2>2. childPid = NoPid
    BY <1>3 DEF Fork, IInv, PusherInv, NoPusherYet, NoPusherSteps, SpawnSteps
  <2>3. Live = {}
    BY <1>3, <2>2 DEF Fork, Live, IInv, PusherInv, ChildKnown
  <2>4. forks + 1 \in Pids /\ forks + 1 \notin 1 .. forks
    BY <1>3 DEF Fork, IInv, TypeOK, LauncherTypeOK
  <2>5. child' = [child EXCEPT ![forks + 1] = "alive"]
    BY <1>3 DEF Fork
  <2>6. Live' = {forks + 1}
    BY <2>3, <2>4, <2>5 DEF Live, Unreaped, IInv, TypeOK, LauncherTypeOK
  <2>7. 1 .. forks' = (1 .. forks) \cup {forks + 1}
    BY <1>3 DEF Fork, IInv, TypeOK, LauncherTypeOK
  <2>8. Contract!Spawn(forks + 1)
    BY <2>1, <2>3, <2>4, <2>6, <2>7 DEF Contract!Spawn, Live, Open
  <2> QED
    BY <2>4, <2>8 DEF Contract!Next
<1>4. CASE UNCHANGED <<child, forks>>
  BY <1>1, <1>4, Quiet DEF Live, Unreaped
<1> QED
  BY <1>2, <1>3, <1>4
  DEF Start, Lock, StartRead, ForkFails, PublishPid, StartPollAlive, StartPollsDone,
      StartClear

\* check_alive() may reap the pusher.
LEMMA MapsCheck ==
  ASSUME IInv, IInv', Check("rtsp")
  PROVE  [Contract!Next]_(Contract!vars)
<1>1. Open' = Open
  BY OpensNothing DEF IInv
<1>2. CASE CheckGone("rtsp")
  BY <1>1, <1>2, MapsWait DEF CheckGone
<1>3. CASE UNCHANGED <<child, forks>>
  BY <1>1, <1>3, Quiet DEF Live, Unreaped
<1> QED
  BY <1>2, <1>3 DEF Check, Lock, CheckRead, CheckAlive, CheckClear

\* The loop itself opens and closes; its return closes for good.
LEMMA MapsLoop ==
  ASSUME IInv, IInv', RtspThread
  PROVE  [Contract!Next]_(Contract!vars)
<1>1. CASE (Start("rtsp") \/ Check("rtsp") \/ Stop("rtsp")) /\ UNCHANGED supVars
  BY <1>1, MapsStart, MapsCheck, MapsStop
<1>2. CASE RtspReturn
  <2>1. Live = {}
    BY <1>2 DEF RtspReturn, RtspGoto, Live, IInv, PusherInv, ChildKnown, NoPusherYet,
                NoPusherSteps, SpawnSteps
  <2>2. Live' = Live /\ forks' = forks
    BY <1>2 DEF RtspReturn, RtspGoto, Live, Unreaped
  <2>3. Open' = FALSE
    BY <1>2 DEF RtspReturn, RtspGoto, Goto, Open, IInv, TypeOK, PcTypeOK
  <2>4. Contract!Close
    BY <2>1, <2>2, <2>3 DEF Contract!Close, Live, Open
  <2> QED
    BY <2>4 DEF Contract!Next
<1>3. CASE \/ RtspPublish \/ RtspLoop \/ RtspStartFailed \/ RtspRetry
           \/ RtspStartThrows \/ RtspStarted \/ RtspWatch \/ RtspAlive
           \/ RtspExited \/ RtspExitRetry \/ RtspStopped
  <2>1. Open' = Open
    BY <1>3 DEF Open, RtspGoto, Goto, RtspPublish, RtspLoop, RtspStartFailed, RtspRetry,
                RtspStartThrows, RtspStarted, RtspWatch, RtspAlive, RtspExited,
                RtspExitRetry, RtspStopped, IInv, TypeOK, PcTypeOK
  <2>2. UNCHANGED <<child, forks>>
    BY <1>3 DEF RtspGoto, RtspPublish, RtspLoop, RtspStartFailed, RtspRetry,
                RtspStartThrows, RtspStarted, RtspWatch, RtspAlive, RtspExited,
                RtspExitRetry, RtspStopped
  <2> QED
    BY <2>1, <2>2, Quiet DEF Live, Unreaped
<1> QED
  BY <1>1, <1>2, <1>3 DEF RtspThread

\* main and the handlers outside stop().
LEMMA MapsCaller ==
  ASSUME TypeOK, NEW c \in Callers \ {"rtsp"},
         \/ c = "main" /\ (MainWakes \/ TestPointer(c, "join") \/ MainJoins \/ MainExits)
         \/ c \in Handlers /\ (TestPointer(c, "done") \/ HandlerReturns(c) \/ Signal(c))
         \/ DeadLauncher(c)
  PROVE  [Contract!Next]_(Contract!vars)
<1>1. pc'["rtsp"] = pc["rtsp"] /\ UNCHANGED <<child, forks>>
  BY DEF MainWakes, TestPointer, MainJoins, MainExits, HandlerReturns, Signal,
         DeadLauncher, CallerGoto, Goto, TypeOK, PcTypeOK
<1> QED
  BY <1>1, Quiet DEF Live, Unreaped, Open

\* Every step is a step of the contract or none.
LEMMA StepMaps == IInv /\ IInv' /\ [Next]_vars => [Contract!Next]_(Contract!vars)
<1> SUFFICES ASSUME IInv, IInv', [Next]_vars PROVE [Contract!Next]_(Contract!vars)
  OBVIOUS
<1>1. CASE RtspThread
  BY <1>1, MapsLoop
<1>2. CASE MainThread
  BY <1>2, MapsCaller, MapsStop DEF MainThread, IInv
<1>3. ASSUME NEW h \in Handlers, Handler(h) PROVE [Contract!Next]_(Contract!vars)
  BY <1>3, MapsCaller, MapsStop DEF Handler, IInv
<1>4. ASSUME NEW h \in Handlers, Signal(h) PROVE [Contract!Next]_(Contract!vars)
  BY <1>4, MapsCaller DEF IInv
<1>5. ASSUME NEW p \in Pids, ChildExit(p), UNCHANGED supVars
      PROVE  [Contract!Next]_(Contract!vars)
  <2>1. Live' = Live
    BY <1>5 DEF ChildExit, Live, Unreaped, IInv, TypeOK, LauncherTypeOK
  <2> QED
    BY <1>5, <2>1, Quiet DEF ChildExit, Open
<1>6. CASE UNCHANGED vars
  BY <1>6, Quiet DEF vars, launcherVars, Live, Unreaped, Open
<1> QED
  BY <1>1, <1>2, <1>3, <1>4, <1>5, <1>6 DEF Next, Threads, Environment

\* The supervisor, its launcher and the callers of stop() implement the contract:
\* pushers follow one another and none survives the end of the loop.
THEOREM Implementation == Spec => ImplementsContract
<1>1. Init => Contract!Init
  BY DEF Init, LauncherInit, Contract!Init, Unreaped
<1> QED
  BY <1>1, Invariant, StepMaps, PTL DEF Spec, Contract!Spec, ImplementsContract
=============================================================================
