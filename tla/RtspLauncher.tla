---------------------------- MODULE RtspLauncher ----------------------------
(***************************************************************************)
(* demo::server::RtspLauncher: start(), check_alive() and stop(), with the  *)
(* mutex mu_, the member child_pid_ and the ffmpeg processes it forks.      *)
(*                                                                         *)
(* The three operations are procedures that a caller executes one step at  *)
(* a time: pc[c] is the step caller c is at, pid[c] its local variable pid *)
(* and polls[c] its loop counter.  Only the RTSP thread calls start() and  *)
(* check_alive(); every caller calls stop().  A critical section is two    *)
(* steps, taking mu_ and then its body with the release, so that a signal  *)
(* handler can interrupt a thread that holds mu_.                          *)
(*                                                                         *)
(* The composing module starts an operation by setting pc[c] to "start",   *)
(* "check" or "stop", and takes over at "startOk", "startFail", "checkOk", *)
(* "checkFail" or "stopped".                                               *)
(*                                                                         *)
(* Bounds: MaxForks ffmpeg processes; StartPolls and StopPolls stand for   *)
(* the 8 and 20 waitpid polls of start() and stop().                       *)
(***************************************************************************)
EXTENDS Integers

CONSTANTS
    Handlers,    \* the invocations of the signal handler, each runs once
    MaxForks,    \* forks that can succeed
    StartPolls,  \* polls of start(): 8 in the code
    StopPolls    \* polls of stop() before SIGKILL: 20 in the code

ASSUME HandlersAssumption == Handlers \cap {"rtsp", "main", "tcp", "none"} = {}
ASSUME BoundsAssumption == MaxForks \in Nat /\ StartPolls \in Nat /\ StopPolls \in Nat

VARIABLES
    mu,        \* the caller that holds mu_, or "none"
    childPid,  \* child_pid_
    child,     \* the state of each ffmpeg process, by pid
    forks,     \* the processes forked so far; pids are 1, 2, ...
    pc,        \* the step each caller is at
    pid,       \* the local variable pid of each caller
    polls      \* the local loop counter i of each caller

launcherVars == <<mu, childPid, child, forks, pc, pid, polls>>

Callers == {"rtsp", "main"} \cup Handlers
Pids    == 1 .. MaxForks
NoPid   == -1

StartSteps == {"start", "startRead", "fork", "pubLock", "pub", "startPoll",
               "startLock", "startClear", "startOk", "startFail"}
CheckSteps == {"check", "checkRead", "checkWait", "checkLock", "checkClear",
               "checkOk", "checkFail"}
StopSteps  == {"stop", "stopRead", "stopTerm", "stopPoll", "stopKill",
               "stopReap", "stopLock", "stopClear", "stopped"}

\* Steps at which the caller blocks on mu_ or holds it.
LockSteps == {"start", "startRead", "pubLock", "pub", "startLock", "startClear",
              "check", "checkRead", "checkLock", "checkClear",
              "stop", "stopRead", "stopLock", "stopClear"}

Unreaped(p) == child[p] \in {"alive", "zombie"}

LauncherInit ==
    /\ mu = "none"
    /\ childPid = NoPid
    /\ child = [p \in Pids |-> "unborn"]
    /\ forks = 0
    /\ pid = [c \in Callers |-> NoPid]
    /\ polls = [c \in Callers |-> 0]

Goto(c, step) == pc' = [pc EXCEPT ![c] = step]

-----------------------------------------------------------------------------
(* The mutex and the kernel.                                               *)

\* std::lock_guard: the caller takes mu_ and goes on to the section's body.
Lock(c, from, to) ==
    /\ pc[c] = from
    /\ mu = "none"
    /\ mu' = c
    /\ Goto(c, to)
    /\ UNCHANGED <<childPid, child, forks, pid, polls>>

\* ffmpeg ends by itself: it fails to exec, its input or the RTSP server goes
\* away, it obeys SIGTERM.
ChildExit(p) ==
    /\ child[p] = "alive"
    /\ child' = [child EXCEPT ![p] = "zombie"]
    /\ UNCHANGED <<mu, childPid, forks, pc, pid, polls>>

\* waitpid(p, WNOHANG) for a p it can say something of: p is reaped, or it was
\* reaped before (ECHILD).
Wait(p) ==
    /\ child[p] # "alive"
    /\ child' = [child EXCEPT ![p] = "reaped"]

-----------------------------------------------------------------------------
(* start()                                                                 *)

StartRead(c) ==
    /\ pc[c] = "startRead"
    /\ mu' = "none"
    /\ Goto(c, IF childPid > 0 THEN "startOk" ELSE "fork")
    /\ UNCHANGED <<childPid, child, forks, pid, polls>>

Fork(c) ==
    /\ pc[c] = "fork"
    /\ forks < MaxForks
    /\ forks' = forks + 1
    /\ child' = [child EXCEPT ![forks + 1] = "alive"]
    /\ pid' = [pid EXCEPT ![c] = forks + 1]
    /\ Goto(c, "pubLock")
    /\ UNCHANGED <<mu, childPid, polls>>

ForkFails(c) ==
    /\ pc[c] = "fork"
    /\ Goto(c, "startFail")
    /\ UNCHANGED <<mu, childPid, child, forks, pid, polls>>

PublishPid(c) ==
    /\ pc[c] = "pub"
    /\ childPid' = pid[c]
    /\ mu' = "none"
    /\ polls' = [polls EXCEPT ![c] = 0]
    /\ Goto(c, "startPoll")
    /\ UNCHANGED <<child, forks, pid>>

\* ffmpeg still runs: sleep 100 ms and poll again.
StartPollAlive(c) ==
    /\ pc[c] = "startPoll"
    /\ polls[c] < StartPolls
    /\ child[pid[c]] = "alive"
    /\ polls' = [polls EXCEPT ![c] = @ + 1]
    /\ UNCHANGED <<mu, childPid, child, forks, pc, pid>>

StartPollsDone(c) ==
    /\ pc[c] = "startPoll"
    /\ polls[c] = StartPolls
    /\ Goto(c, "startOk")
    /\ UNCHANGED <<mu, childPid, child, forks, pid, polls>>

\* ffmpeg ended during the check, or another caller reaped it.
StartPollGone(c) ==
    /\ pc[c] = "startPoll"
    /\ polls[c] < StartPolls
    /\ Wait(pid[c])
    /\ Goto(c, "startLock")
    /\ UNCHANGED <<mu, childPid, forks, pid, polls>>

StartClear(c) ==
    /\ pc[c] = "startClear"
    /\ childPid' = NoPid
    /\ mu' = "none"
    /\ Goto(c, "startFail")
    /\ UNCHANGED <<child, forks, pid, polls>>

Start(c) ==
    \/ Lock(c, "start", "startRead") \/ StartRead(c)
    \/ Fork(c) \/ ForkFails(c)
    \/ Lock(c, "pubLock", "pub") \/ PublishPid(c)
    \/ StartPollAlive(c) \/ StartPollsDone(c) \/ StartPollGone(c)
    \/ Lock(c, "startLock", "startClear") \/ StartClear(c)

-----------------------------------------------------------------------------
(* check_alive()                                                           *)

CheckRead(c) ==
    /\ pc[c] = "checkRead"
    /\ mu' = "none"
    /\ \/ childPid > 0 /\ pid' = [pid EXCEPT ![c] = childPid] /\ Goto(c, "checkWait")
       \/ childPid <= 0 /\ UNCHANGED pid /\ Goto(c, "checkFail")
    /\ UNCHANGED <<childPid, child, forks, polls>>

CheckAlive(c) ==
    /\ pc[c] = "checkWait"
    /\ child[pid[c]] = "alive"
    /\ Goto(c, "checkOk")
    /\ UNCHANGED <<mu, childPid, child, forks, pid, polls>>

CheckGone(c) ==
    /\ pc[c] = "checkWait"
    /\ Wait(pid[c])
    /\ Goto(c, "checkLock")
    /\ UNCHANGED <<mu, childPid, forks, pid, polls>>

CheckClear(c) ==
    /\ pc[c] = "checkClear"
    /\ childPid' = IF childPid = pid[c] THEN NoPid ELSE childPid
    /\ mu' = "none"
    /\ Goto(c, "checkFail")
    /\ UNCHANGED <<child, forks, pid, polls>>

Check(c) ==
    \/ Lock(c, "check", "checkRead") \/ CheckRead(c)
    \/ CheckAlive(c) \/ CheckGone(c)
    \/ Lock(c, "checkLock", "checkClear") \/ CheckClear(c)

-----------------------------------------------------------------------------
(* stop()                                                                  *)

StopRead(c) ==
    /\ pc[c] = "stopRead"
    /\ mu' = "none"
    /\ \/ childPid > 0 /\ pid' = [pid EXCEPT ![c] = childPid] /\ Goto(c, "stopTerm")
       \/ childPid <= 0 /\ UNCHANGED pid /\ Goto(c, "stopped")
    /\ UNCHANGED <<childPid, child, forks, polls>>

\* kill(SIGTERM): ffmpeg may obey it (ChildExit) or not.
StopTerm(c) ==
    /\ pc[c] = "stopTerm"
    /\ polls' = [polls EXCEPT ![c] = 0]
    /\ Goto(c, "stopPoll")
    /\ UNCHANGED <<mu, childPid, child, forks, pid>>

StopPollAlive(c) ==
    /\ pc[c] = "stopPoll"
    /\ polls[c] < StopPolls
    /\ child[pid[c]] = "alive"
    /\ polls' = [polls EXCEPT ![c] = @ + 1]
    /\ UNCHANGED <<mu, childPid, child, forks, pc, pid>>

\* Mutated form: stop() gives up where it should send SIGKILL.
StopGivesUp(c) ==
    /\ pc[c] = "stopPoll"
    /\ polls[c] = StopPolls
    /\ Goto(c, "stopLock")
    /\ UNCHANGED <<mu, childPid, child, forks, pid, polls>>

StopPollsDone(c) ==
    /\ pc[c] = "stopPoll"
    /\ polls[c] = StopPolls
    /\ Goto(c, "stopKill")
    /\ UNCHANGED <<mu, childPid, child, forks, pid, polls>>

StopPollGone(c) ==
    /\ pc[c] = "stopPoll"
    /\ polls[c] < StopPolls
    /\ Wait(pid[c])
    /\ Goto(c, "stopLock")
    /\ UNCHANGED <<mu, childPid, forks, pid, polls>>

\* Mutated form: no waitpid after SIGKILL.
StopKillNoWait(c) ==
    /\ pc[c] = "stopKill"
    /\ child' = [child EXCEPT ![pid[c]] = IF Unreaped(pid[c]) THEN "zombie" ELSE @]
    /\ Goto(c, "stopLock")
    /\ UNCHANGED <<mu, childPid, forks, pid, polls>>

\* kill(SIGKILL): it fails (ESRCH) for a process that was reaped meanwhile.
StopKill(c) ==
    /\ pc[c] = "stopKill"
    /\ \/ /\ Unreaped(pid[c])
          /\ child' = [child EXCEPT ![pid[c]] = "zombie"]
          /\ Goto(c, "stopReap")
       \/ ~Unreaped(pid[c]) /\ UNCHANGED child /\ Goto(c, "stopLock")
    /\ UNCHANGED <<mu, childPid, forks, pid, polls>>

\* The blocking waitpid after SIGKILL.
StopReap(c) ==
    /\ pc[c] = "stopReap"
    /\ Wait(pid[c])
    /\ Goto(c, "stopLock")
    /\ UNCHANGED <<mu, childPid, forks, pid, polls>>

\* child_pid_ = -1, whatever it holds by now.
StopClear(c) ==
    /\ pc[c] = "stopClear"
    /\ childPid' = NoPid
    /\ mu' = "none"
    /\ Goto(c, "stopped")
    /\ UNCHANGED <<child, forks, pid, polls>>

Stop(c) ==
    \/ Lock(c, "stop", "stopRead") \/ StopRead(c) \/ StopTerm(c)
    \/ StopPollAlive(c) \/ StopPollsDone(c) \/ StopPollGone(c)
    \/ StopKill(c) \/ StopReap(c)
    \/ Lock(c, "stopLock", "stopClear") \/ StopClear(c)

LauncherTypeOK ==
    /\ mu \in Callers \cup {"none"}
    /\ childPid \in Pids \cup {NoPid}
    /\ child \in [Pids -> {"unborn", "alive", "zombie", "reaped"}]
    /\ forks \in 0 .. MaxForks
    /\ pid \in [Callers -> Pids \cup {NoPid}]
    /\ polls \in [Callers -> Nat]
=============================================================================
