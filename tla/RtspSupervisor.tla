--------------------------- MODULE RtspSupervisor ---------------------------
(***************************************************************************)
(* The RTSP side of sim_server: run_rtsp_loop() on its thread, main() and  *)
(* the signal handler on_signal(), which share g_running and g_rtsp and    *)
(* call the operations of one RtspLauncher.                                *)
(*                                                                         *)
(* A handler runs on top of a thread: host[h], the interrupted thread, does *)
(* not move until h is done.  A signal goes to the main thread; one that   *)
(* arrives while main runs a handler either nests on it (the other of      *)
(* SIGINT and SIGTERM) or, the same signal being blocked there, goes to    *)
(* another thread.                                                         *)
(*                                                                         *)
(* The launcher is a local of run_rtsp_loop: when the thread returns it is *)
(* gone.  A caller that still is inside stop() then touches dead memory;   *)
(* the model lets it go on as if the object were intact or end up          *)
(* "undefined" (blocked on a garbage mutex, or a crash of the process).    *)
(***************************************************************************)
EXTENDS RtspLauncher

CONSTANTS
    Required,   \* --require-rtsp
    RetryMin,   \* rtsp_retry_min_ms, in a unit of the reader's choice
    RetryMax    \* rtsp_retry_max_ms

ASSUME RetryAssumption ==
    /\ Required \in BOOLEAN
    /\ RetryMin \in Nat /\ RetryMax \in Nat
    /\ 0 < RetryMin /\ RetryMin <= RetryMax

VARIABLES
    running,    \* g_running
    published,  \* g_rtsp # nullptr
    final,      \* the stop() in progress is the one after the loop
    backoff,    \* backoff_ms
    status,     \* g_rtsp_state.status
    host        \* the thread or handler each handler interrupted

supVars == <<running, published, final, backoff, status, host>>
vars == <<launcherVars, supVars>>

\* std::min(backoff_ms * 2, rtsp_retry_max_ms)
Doubled(b) == IF b * 2 <= RetryMax THEN b * 2 ELSE RetryMax

Active(h) == pc[h] \notin {"idle", "done"}

\* c is interrupted by a handler and cannot take a step.
Frozen(c) == \E h \in Handlers : host[h] = c /\ Active(h)

\* run_rtsp_loop has returned: its local launcher is no longer there.
LauncherDead == pc["rtsp"] = "returned"

Init ==
    /\ LauncherInit
    /\ pc = [c \in Callers |->
               CASE c = "rtsp" -> "born" [] c = "main" -> "sleep" [] OTHER -> "idle"]
    /\ running = TRUE
    /\ published = FALSE
    /\ final = FALSE
    /\ backoff = RetryMin
    /\ status = "INIT"
    /\ host = [h \in Handlers |-> "none"]

-----------------------------------------------------------------------------
(* run_rtsp_loop                                                           *)

RtspGoto(from, to) ==
    /\ pc["rtsp"] = from
    /\ Goto("rtsp", to)
    /\ UNCHANGED <<mu, childPid, child, forks, pid, polls, running, host>>

RtspPublish ==
    /\ RtspGoto("born", "loop")
    /\ published' = TRUE
    /\ backoff' = RetryMin
    /\ UNCHANGED <<final, status>>

\* Mutated form: the loop does not look at g_running.
RtspLoopForEver ==
    /\ RtspGoto("loop", "start")
    /\ status' = "STARTING"
    /\ UNCHANGED <<published, final, backoff>>

\* while (g_running): another start(), or the final stop().
RtspLoop ==
    /\ RtspGoto("loop", IF running THEN "start" ELSE "stop")
    /\ final' = ~running
    /\ status' = IF running THEN "STARTING" ELSE status
    /\ UNCHANGED <<published, backoff>>

RtspStartFailed ==
    /\ RtspGoto("startFail", "retrySleep")
    /\ status' = IF Required THEN "FAILED_REQUIRED" ELSE "RETRY_WAIT"
    /\ UNCHANGED <<published, final, backoff>>

\* Mutated form: a failure ends the loop.
RtspGivesUp ==
    /\ RtspGoto("retrySleep", "unpublish")
    /\ UNCHANGED <<published, final, backoff, status>>

\* The wait after a failed or throwing start(): backoff_ms, which then doubles.
RtspRetry ==
    /\ RtspGoto("retrySleep", "loop")
    /\ backoff' = Doubled(backoff)
    /\ UNCHANGED <<published, final, status>>

\* start() throws before it forks (it builds the command line).
RtspStartThrows ==
    /\ RtspGoto("fork", "retrySleep")
    /\ status' = "EXCEPTION"
    /\ UNCHANGED <<published, final, backoff>>

RtspStarted ==
    /\ RtspGoto("startOk", "watch")
    /\ status' = "RUNNING"
    /\ backoff' = RetryMin
    /\ UNCHANGED <<published, final>>

\* Mutated form: the inner loop does not look at g_running.
RtspWatchForEver ==
    /\ RtspGoto("watch", "check")
    /\ UNCHANGED <<published, final, backoff, status>>

\* The inner while (g_running): the next check, or out to stop().
RtspWatch ==
    /\ RtspGoto("watch", IF running THEN "check" ELSE "stop")
    /\ UNCHANGED <<published, final, backoff, status>>

RtspAlive ==
    /\ RtspGoto("checkOk", "watch")
    /\ UNCHANGED <<published, final, backoff, status>>

RtspExited ==
    /\ RtspGoto("checkFail", "exitSleep")
    /\ status' = "RETRY_WAIT"
    /\ UNCHANGED <<published, final, backoff>>

\* The wait after ffmpeg ended in mid-run, then break and stop().
RtspExitRetry ==
    /\ RtspGoto("exitSleep", "stop")
    /\ backoff' = Doubled(backoff)
    /\ UNCHANGED <<published, final, status>>

RtspStopped ==
    /\ RtspGoto("stopped", IF final THEN "unpublish" ELSE "loop")
    /\ UNCHANGED <<published, final, backoff, status>>

RtspReturn ==
    /\ RtspGoto("unpublish", "returned")
    /\ published' = FALSE
    /\ status' = "STOPPED"
    /\ UNCHANGED <<final, backoff>>

RtspThread ==
    /\ ~Frozen("rtsp")
    /\ \/ RtspPublish \/ RtspLoop \/ RtspStartFailed \/ RtspRetry
       \/ RtspStartThrows \/ RtspStarted \/ RtspWatch \/ RtspAlive
       \/ RtspExited \/ RtspExitRetry \/ RtspStopped \/ RtspReturn
       \/ (Start("rtsp") \/ Check("rtsp") \/ Stop("rtsp")) /\ UNCHANGED supVars
-----------------------------------------------------------------------------
(* main() after it started the threads, and on_signal().                   *)

CallerGoto(c, from, to) ==
    /\ pc[c] = from
    /\ Goto(c, to)
    /\ UNCHANGED <<mu, childPid, child, forks, pid, polls,
                   published, final, backoff, status>>

\* while (g_running) sleep; then g_tcp_server->stop(), which is another module's.
MainWakes ==
    /\ ~running
    /\ CallerGoto("main", "sleep", "test")
    /\ UNCHANGED <<running, host>>

\* if (g_rtsp) g_rtsp->stop(): the pointer is read once, and used later.
TestPointer(c, otherwise) ==
    /\ CallerGoto(c, "test", IF published THEN "stop" ELSE otherwise)
    /\ UNCHANGED <<running, host>>

MainJoins ==
    /\ CallerGoto("main", "stopped", "join")
    /\ UNCHANGED <<running, host>>

\* Both joins return, and main with them (a thread that runs a handler has not
\* ended).
MainExits ==
    /\ pc["rtsp"] = "returned" /\ ~Frozen("tcp")
    /\ CallerGoto("main", "join", "exited")
    /\ UNCHANGED <<running, host>>

\* A stop() that touches the launcher after run_rtsp_loop returned.
DeadLauncher(c) ==
    /\ LauncherDead
    /\ pc[c] \in LockSteps
    /\ Goto(c, "undefined")
    /\ UNCHANGED <<mu, childPid, child, forks, pid, polls, supVars>>

MainThread ==
    /\ ~Frozen("main")
    /\ \/ MainWakes \/ TestPointer("main", "join") \/ MainJoins \/ MainExits
       \/ DeadLauncher("main")
       \/ Stop("main") /\ UNCHANGED supVars

\* The kernel picks the thread that runs handler h.
DeliveredTo(h) ==
    IF ~Frozen("main") THEN {"main"}
    ELSE {g \in Handlers : Active(g) /\ ~Frozen(g)}
         \cup {"tcp"} \cup {t \in {"rtsp"} : pc[t] # "returned"}

\* A signal is delivered; on_signal clears g_running (and stops the TCP server).
Signal(h) ==
    /\ pc["main"] # "exited"
    /\ \E t \in DeliveredTo(h) : host' = [host EXCEPT ![h] = t]
    /\ CallerGoto(h, "idle", "test")
    /\ running' = FALSE

HandlerReturns(h) ==
    /\ CallerGoto(h, "stopped", "done")
    /\ UNCHANGED <<running, host>>

Handler(h) ==
    /\ ~Frozen(h)
    /\ \/ TestPointer(h, "done") \/ HandlerReturns(h) \/ DeadLauncher(h)
       \/ Stop(h) /\ UNCHANGED supVars

Environment ==
    \/ \E p \in Pids : ChildExit(p) /\ UNCHANGED supVars
    \/ \E h \in Handlers : Signal(h)

Threads == RtspThread \/ MainThread \/ \E h \in Handlers : Handler(h)

Next == Threads \/ Environment

Spec == Init /\ [][Next]_vars

\* The scheduler runs every thread that can run, and joins and sleeps end; no
\* assumption is made about signals and about ffmpeg.
Fairness ==
    /\ WF_vars(RtspThread)
    /\ WF_vars(MainThread)
    /\ \A h \in Handlers : WF_vars(Handler(h))

FairSpec == Spec /\ Fairness
-----------------------------------------------------------------------------
(* Properties                                                              *)

RtspSteps == {"born", "loop", "retrySleep", "watch", "exitSleep", "unpublish", "returned"}
             \cup StartSteps \cup CheckSteps \cup StopSteps
HandlerSteps == {"idle", "test", "done", "undefined"} \cup StopSteps
MainSteps == {"sleep", "test", "join", "exited", "undefined"} \cup StopSteps

PcTypeOK ==
    /\ pc \in [Callers -> RtspSteps \cup MainSteps \cup HandlerSteps]
    /\ pc["rtsp"] \in RtspSteps /\ pc["main"] \in MainSteps
    /\ \A h \in Handlers : pc[h] \in HandlerSteps

TypeOK ==
    /\ LauncherTypeOK /\ PcTypeOK
    /\ running \in BOOLEAN /\ published \in BOOLEAN /\ final \in BOOLEAN
    /\ backoff \in RetryMin .. RetryMax
    /\ status \in {"INIT", "STARTING", "RUNNING", "RETRY_WAIT", "FAILED_REQUIRED",
                   "EXCEPTION", "STOPPED"}
    /\ host \in [Handlers -> Callers \cup {"tcp", "none"}]

\* No ffmpeg process is ever lost: one that is not reaped yet is the one in
\* child_pid_, except between fork() and the store of its pid.  The store of -1
\* at the end of stop() is unconditional, so this rests on when callers may
\* start a new process (rtsp_launcher.cpp:83-86, 200-203).
ChildKnown ==
    \A p \in Pids : Unreaped(p) =>
        \/ childPid = p
        \/ pc["rtsp"] \in {"pubLock", "pub"} /\ pid["rtsp"] = p

\* There is at most one ffmpeg process at a time: a restart never leaves the
\* previous pusher running beside the new one (main.cpp:245-279).
OnePusher == \A p, q \in Pids : Unreaped(p) /\ Unreaped(q) => p = q

\* When run_rtsp_loop has returned, and so when the process exits, no ffmpeg is
\* left: neither running nor a zombie, however the stop() calls of the handler,
\* main and the RTSP thread interleaved (main.cpp:187-191, 293, 333-336).
NoOrphan == pc["rtsp"] = "returned" => \A p \in Pids : ~Unreaped(p)

\* A second signal's handler waits for the mutex that a stop() beneath it holds.
Beneath(h) == {host[h]} \cup {host[g] : g \in Handlers \cap {host[h]}}
SelfDeadlock == \E h \in Handlers : pc[h] \in LockSteps /\ mu \in Beneath(h)

\* A signal ends the process, unless a stop() outlived the launcher or a second
\* signal caught a stop() with the mutex taken (main.cpp:187-191, 328-338).
ShutdownCompletes ==
    ~running ~> \/ pc["main"] = "exited"
                \/ \E c \in Callers : pc[c] = "undefined"
                \/ SelfDeadlock

\* Every pusher failure, in start() or in mid-run, is followed by another
\* start() unless the server is shutting down (main.cpp:245-291).
FailureIsRetried ==
    status \in {"RETRY_WAIT", "FAILED_REQUIRED", "EXCEPTION"}
        ~> (status = "STARTING" \/ ~running)

\* The usage text of --require-rtsp: "Exit if RTSP pusher startup fails"
\* (main.cpp:63).
RequiredFailureExits == status = "FAILED_REQUIRED" ~> pc["main"] = "exited"

\* README.md:89 "RTSP failures are retried with exponential backoff", an exit in
\* mid-run like a failed start (PROGRESS.md:188; main.cpp:273 doubles the wait for
\* it): of two ffmpeg processes that end in mid-run one after the other the second is
\* waited for longer than the minimum.
MidRunExit(n) == pc["rtsp"] = "exitSleep" /\ forks = n
MidRunExitsBackOff ==
    \A n \in Pids : [](MidRunExit(n) => [](MidRunExit(n + 1) => backoff > RetryMin))

\* One of the two promises about failures is kept: what refutes this refutes both.
FailuresAsDocumented == RequiredFailureExits \/ MidRunExitsBackOff

\* The inductive invariant behind NoOrphan, ChildKnown and OnePusher.  Its core:
\* a caller other than the RTSP thread enters stop() only when g_running is
\* already FALSE, so while it holds a pid the RTSP thread cannot be on its way to
\* another fork(), and the pid it holds is still the one in child_pid_, if any.
HoldingSteps == {"stopTerm", "stopPoll", "stopKill", "stopReap", "stopLock", "stopClear"}
PidSteps == HoldingSteps \cup {"startPoll", "startLock", "startClear",
                               "checkWait", "checkLock", "checkClear"}
ReapedSteps == {"startLock", "startClear", "checkLock", "checkClear", "stopLock", "stopClear"}
SpawnSteps == {"born", "start", "startRead", "fork", "pubLock", "pub"}
NoPusherSteps == SpawnSteps \cup {"loop", "startFail", "retrySleep", "checkFail",
                                  "exitSleep", "stopped", "unpublish", "returned"}

PidsCounted ==
    /\ \A p \in Pids : child[p] = "unborn" <=> p > forks
    /\ childPid # NoPid => childPid <= forks

NewPidKnown ==
    pc["rtsp"] \in {"pubLock", "pub"} => pid["rtsp"] # NoPid /\ pid["rtsp"] <= forks

NoPusherYet == pc["rtsp"] \in NoPusherSteps => childPid = NoPid

\* The pid a caller holds is the one in child_pid_, or child_pid_ was cleared.
HeldPid ==
    \A c \in Callers : pc[c] \in PidSteps =>
        pid[c] # NoPid /\ pid[c] <= forks /\ childPid \in {NoPid, pid[c]}

StoppersComeLate ==
    \A c \in Callers \ {"rtsp"} :
        /\ pc[c] \in StopSteps \cup {"test"} => ~running
        /\ pc[c] \in HoldingSteps => pc["rtsp"] \notin SpawnSteps

ClearedIsReaped ==
    \A c \in Callers : pc[c] \in ReapedSteps => child[pid[c]] = "reaped"

PusherInv ==
    /\ PidsCounted /\ ChildKnown /\ NewPidKnown /\ NoPusherYet
    /\ HeldPid /\ StoppersComeLate /\ ClearedIsReaped

IInv == TypeOK /\ PusherInv

\* What a client of the launcher may rely on.
Contract == INSTANCE PusherContract WITH
    Pushers <- Pids,
    live    <- {p \in Pids : Unreaped(p)},
    used    <- 1 .. forks,
    open    <- pc["rtsp"] # "returned"

ImplementsContract == Contract!Spec
=============================================================================
