---------------------------- MODULE TcpSimServer ----------------------------
(***************************************************************************)
(* The TCP side of sim_server: run_tcp_loop() and TcpSimServer::run() on    *)
(* the TCP thread, and TcpSimServer::stop() called by main() and by the    *)
(* signal handlers, which reach the server through g_tcp_server.           *)
(*                                                                         *)
(* One listening socket exists at a time.  `sock' is its state in the       *)
(* kernel, `fdOpen' says that its descriptor is open in the process and     *)
(* `listenFd' that listen_fd_ holds it.  The RTSP thread forks ffmpeg at    *)
(* any moment; until FD_CLOEXEC is set the new process keeps a copy of the  *)
(* descriptor.  Frames and their bytes are the business of FrameStream.     *)
(*                                                                         *)
(* Bound: MaxClients connections waiting in the listen queue.               *)
(***************************************************************************)
EXTENDS Integers

CONSTANTS
    Handlers,    \* the invocations of the signal handler
    MaxClients

ASSUME TcpAssumption == MaxClients \in Nat /\ "main" \notin Handlers

VARIABLES
    tpc,         \* the step of the TCP thread
    ret,         \* what run() returns
    gRunning,    \* g_running
    status,      \* g_tcp_state.status
    ptr,         \* g_tcp_server is not null
    flag,        \* running_ of the server
    listenFd,    \* listen_fd_ holds the descriptor (else -1)
    sock,        \* the listening socket, as the kernel sees it
    fdOpen,      \* its descriptor is open in the process
    reclosed,    \* a descriptor number was closed a second time
    foreign,     \* another program listens on the port
    client,      \* the connection that is served
    stalled,     \* its peer does not read, send() blocks
    pending,     \* connections in the listen queue
    child,       \* an ffmpeg process runs
    heirloom,    \* the sockets it inherited
    spc,         \* the step of each caller of stop()
    valid        \* the server a caller of stop() points to still exists

supervisorVars == <<ret, gRunning, status>>
serverVars     == <<ptr, flag, listenFd>>
socketVars     == <<sock, fdOpen, reclosed>>
clientVars     == <<client, stalled, pending>>
childVars      == <<child, heirloom>>
stopperVars    == <<spc, valid>>
vars == <<tpc, supervisorVars, serverVars, socketVars, foreign, clientVars,
          childVars, stopperVars>>

Stoppers == {"main"} \cup Handlers

Init ==
    /\ tpc = "loop" /\ ret = 0 /\ gRunning = TRUE /\ status = "INIT"
    /\ ptr = FALSE /\ flag = TRUE /\ listenFd = FALSE
    /\ sock = "none" /\ fdOpen = FALSE /\ reclosed = FALSE
    /\ foreign \in BOOLEAN
    /\ client = "none" /\ stalled = FALSE /\ pending = 0
    /\ child = FALSE /\ heirloom = {}
    /\ spc = [c \in Stoppers |-> IF c = "main" THEN "sleep" ELSE "idle"]
    /\ valid = [c \in Stoppers |-> FALSE]

\* A listener the process no longer owns but ffmpeg inherited keeps the port.
PortTaken == foreign \/ "stale" \in heirloom

\* The TCP thread goes from one step to the next; what it never touches.
Step(from, to) ==
    /\ tpc = from
    /\ tpc' = to
    /\ UNCHANGED <<gRunning, foreign, child, stopperVars>>

\* A step that changes nothing else.
Move(from, to) ==
    /\ Step(from, to)
    /\ UNCHANGED <<ret, status, serverVars, socketVars, clientVars, heirloom>>

\* close() on the listening socket's descriptor.  Without shutdown() the socket
\* goes on listening in an ffmpeg that inherited it.
CloseListener ==
    /\ reclosed' = (reclosed \/ ~fdOpen)
    /\ fdOpen' = FALSE
    /\ sock' = "none"
    /\ pending' = 0
    /\ heirloom' = (heirloom \ {"listener"}) \cup
                   {s \in {"stale"} : "listener" \in heirloom /\ sock = "listening"}
    /\ UNCHANGED <<client, stalled>>

-----------------------------------------------------------------------------
(* run_tcp_loop                                                            *)

Loop ==
    /\ Step("loop", IF gRunning THEN "make" ELSE "done")
    /\ status' = IF gRunning THEN "STARTING" ELSE "STOPPED"
    /\ UNCHANGED <<ret, serverVars, socketVars, clientVars, heirloom>>

\* make_unique and the move into g_tcp_server.
Make ==
    /\ Step("make", "run")
    /\ ptr' = TRUE /\ flag' = TRUE /\ listenFd' = FALSE
    /\ status' = "RUNNING"
    /\ UNCHANGED <<ret, socketVars, clientVars, heirloom>>

MakeThrows ==
    /\ Step("make", "sleep")
    /\ status' = "EXCEPTION"
    /\ UNCHANGED <<ret, serverVars, socketVars, clientVars, heirloom>>

\* Mutated form: a failed run() ends the supervisor.
AfterRunGivesUp == "done"

AfterRun == IF ~gRunning THEN "done" ELSE IF ret = 0 THEN "loop" ELSE "sleep"

\* g_tcp_server.reset() after run() returned; then the tests of g_running and ret.
Return ==
    /\ tpc = "return"
    /\ tpc' = AfterRun
    /\ status' = IF ~gRunning \/ ret = 0 THEN "STOPPED" ELSE "RETRY_WAIT"
    /\ ptr' = FALSE
    /\ valid' = [c \in Stoppers |-> FALSE]
    /\ UNCHANGED <<ret, gRunning, flag, listenFd, socketVars, foreign, clientVars,
                   childVars, spc>>

RetrySleep == Move("sleep", "loop")

-----------------------------------------------------------------------------
(* TcpSimServer::run                                                       *)

\* running_ = true, whatever stop() made of it before.
RunFlag ==
    /\ Step("run", "socket")
    /\ flag' = TRUE
    /\ UNCHANGED <<ret, status, ptr, listenFd, socketVars, clientVars, heirloom>>

Socket ==
    /\ Step("socket", "store")
    /\ sock' = "new" /\ fdOpen' = TRUE
    /\ UNCHANGED <<ret, status, serverVars, reclosed, clientVars, heirloom>>

SocketFails ==
    /\ Step("socket", "return")
    /\ ret' = 1
    /\ UNCHANGED <<status, serverVars, socketVars, clientVars, heirloom>>

StoreFd ==
    /\ Step("store", "cloexec")
    /\ listenFd' = TRUE
    /\ UNCHANGED <<ret, status, ptr, flag, socketVars, clientVars, heirloom>>

SetCloexec == Move("cloexec", "bind")

Bind ==
    /\ fdOpen /\ ~PortTaken
    /\ Step("bind", "listen")
    /\ sock' = "bound"
    /\ UNCHANGED <<ret, status, serverVars, fdOpen, reclosed, clientVars, heirloom>>

Listen ==
    /\ fdOpen /\ ~PortTaken
    /\ Step("listen", "while")
    /\ sock' = "listening"
    /\ UNCHANGED <<ret, status, serverVars, fdOpen, reclosed, clientVars, heirloom>>

\* The port is taken, or stop() closed the descriptor under run()'s feet.
BindOrListenFails ==
    /\ ~fdOpen \/ PortTaken
    /\ Move("bind", "failClose") \/ Move("listen", "failClose")

\* Mutated form: it leaves the descriptor open.
FailForgets == Move("failClose", "failClear")

\* The failure path closes its local copy of the descriptor ...
FailClose ==
    /\ Step("failClose", "failClear")
    /\ CloseListener
    /\ UNCHANGED <<ret, status, serverVars>>

\* Mutated form: it falls through to the epilogue, which closes again.
FailFallsThrough ==
    /\ Step("failClear", "finish")
    /\ ret' = 1
    /\ UNCHANGED <<status, serverVars, socketVars, clientVars, heirloom>>

\* ... and then clears listen_fd_.
FailClear ==
    /\ Step("failClear", "return")
    /\ listenFd' = FALSE
    /\ ret' = 1
    /\ UNCHANGED <<status, ptr, flag, socketVars, clientVars, heirloom>>

While ==
    /\ Step("while", IF flag THEN "accept" ELSE "finish")
    /\ ret' = 0
    /\ UNCHANGED <<status, serverVars, socketVars, clientVars, heirloom>>

Accept ==
    /\ sock = "listening" /\ pending > 0
    /\ Step("accept", "clientCloexec")
    /\ pending' = pending - 1
    /\ client' = "open" /\ stalled' = FALSE
    /\ UNCHANGED <<ret, status, serverVars, socketVars, heirloom>>

\* Mutated form: the loop does not look at running_ again.
AcceptRetries ==
    /\ sock # "listening"
    /\ Move("accept", "accept")

\* accept() fails for want of a socket: out if the server was stopped, else 300 ms
\* and again.
AcceptFails ==
    /\ sock # "listening"
    /\ Move("accept", IF flag THEN "while" ELSE "finish")

\* It may also fail on a socket that listens (EINTR, no descriptor left), or not:
\* no step of the thread's own, so that nothing relies on it.
AcceptInterrupted ==
    /\ sock = "listening"
    /\ Move("accept", IF flag THEN "while" ELSE "finish")

ClientCloexec == Move("clientCloexec", "serve")

\* while (running_)
ServeTest == Move("serve", IF flag THEN "send" ELSE "closeClient")

\* One frame; it blocks while the peer does not read, and may still succeed when
\* the peer has left.
Send ==
    /\ ~stalled
    /\ Move("send", "nap")

SendFails ==
    /\ client = "gone"
    /\ Move("send", "closeClient")

Nap == Move("nap", "serve")

CloseClient ==
    /\ Step("closeClient", "while")
    /\ client' = "none" /\ stalled' = FALSE
    /\ UNCHANGED <<ret, status, serverVars, socketVars, pending, heirloom>>

\* An exception while the class map is read or a frame is made, never in send(): the
\* client's descriptor is left open and nobody serves it.
ServeThrows ==
    /\ \/ Step("clientCloexec", "finish")
       \/ flag /\ Step("serve", "finish")
    /\ ret' = 1
    /\ client' = "none" /\ stalled' = FALSE
    /\ UNCHANGED <<status, serverVars, socketVars, pending, heirloom>>

\* if (listen_fd_ >= 0) { close(listen_fd_); listen_fd_ = -1; }: three accesses.
Finish == Move("finish", IF listenFd THEN "finishClose" ELSE "return")

FinishClose ==
    /\ Step("finishClose", "finishClear")
    /\ \/ listenFd /\ CloseListener
       \/ ~listenFd /\ UNCHANGED <<socketVars, clientVars, heirloom>>
    /\ UNCHANGED <<ret, status, serverVars>>

FinishClear ==
    /\ Step("finishClear", "return")
    /\ listenFd' = FALSE
    /\ UNCHANGED <<ret, status, ptr, flag, socketVars, clientVars, heirloom>>

TcpThread ==
    \/ Loop \/ Make \/ MakeThrows \/ Return \/ RetrySleep
    \/ RunFlag \/ Socket \/ SocketFails \/ StoreFd \/ SetCloexec
    \/ Bind \/ Listen \/ BindOrListenFails \/ FailClose \/ FailClear
    \/ While \/ Accept \/ AcceptFails \/ ClientCloexec
    \/ ServeTest \/ Send \/ SendFails \/ Nap \/ CloseClient \/ ServeThrows
    \/ Finish \/ FinishClose \/ FinishClear

-----------------------------------------------------------------------------
(* TcpSimServer::stop, called through g_tcp_server by main and on_signal.   *)

StopStep(c, from, to) ==
    /\ spc[c] = from
    /\ spc' = [spc EXCEPT ![c] = to]
    /\ UNCHANGED <<tpc, ret, status, ptr, foreign, client, stalled, child>>

\* on_signal: g_running = false comes first.
Signal(h) ==
    /\ spc["main"] # "exited"
    /\ StopStep(h, "idle", "test")
    /\ gRunning' = FALSE
    /\ UNCHANGED <<flag, listenFd, socketVars, pending, heirloom, valid>>

MainWakes ==
    /\ ~gRunning
    /\ StopStep("main", "sleep", "test")
    /\ UNCHANGED <<gRunning, flag, listenFd, socketVars, pending, heirloom, valid>>

\* if (g_tcp_server)
StopTest(c) ==
    /\ StopStep(c, "test", IF ptr THEN "flag" ELSE "done")
    /\ valid' = [valid EXCEPT ![c] = ptr]
    /\ UNCHANGED <<gRunning, flag, listenFd, socketVars, pending, heirloom>>

\* running_ = false.  On a server that was deleted meanwhile the store is lost.
StopFlag(c) ==
    /\ StopStep(c, "flag", "exchange")
    /\ flag' = (flag /\ ~valid[c])
    /\ UNCHANGED <<gRunning, listenFd, socketVars, pending, heirloom, valid>>

\* fd = listen_fd_.exchange(-1)
StopExchange(c) ==
    /\ StopStep(c, "exchange", IF valid[c] /\ listenFd THEN "close" ELSE "done")
    /\ listenFd' = (listenFd /\ ~valid[c])
    /\ UNCHANGED <<gRunning, flag, socketVars, pending, heirloom, valid>>

\* Mutated form: the descriptor is not closed, so accept() is not woken.
StopForgetsClose(c) ==
    /\ StopStep(c, "close", "done")
    /\ UNCHANGED <<gRunning, flag, listenFd, socketVars, pending, heirloom, valid>>

\* shutdown(fd) and close(fd): the socket no longer listens, in ffmpeg neither.
StopClose(c) ==
    /\ StopStep(c, "close", "done")
    /\ reclosed' = (reclosed \/ ~fdOpen)
    /\ fdOpen' = FALSE
    /\ sock' = "none"
    /\ pending' = 0
    /\ heirloom' = heirloom \ {"listener"}
    /\ UNCHANGED <<gRunning, flag, listenFd, valid>>

\* A deleted server is used: whatever follows is undefined, a crash at best.
StopDeadServer(c) ==
    /\ ~valid[c]
    /\ StopStep(c, "flag", "undefined") \/ StopStep(c, "exchange", "undefined")
    /\ UNCHANGED <<gRunning, flag, listenFd, socketVars, pending, heirloom, valid>>

\* main joins the TCP thread and ends.
MainExits ==
    /\ tpc = "done"
    /\ StopStep("main", "done", "exited")
    /\ UNCHANGED <<gRunning, flag, listenFd, socketVars, pending, heirloom, valid>>

Stop(c) == StopTest(c) \/ StopFlag(c) \/ StopExchange(c) \/ StopClose(c) \/ StopDeadServer(c)

\* A signal may be delivered to any thread, so main and the handlers interleave.
MainThread == MainWakes \/ Stop("main") \/ MainExits

-----------------------------------------------------------------------------
(* Clients, ffmpeg and other programs.                                     *)

ServerUnchanged ==
    UNCHANGED <<tpc, supervisorVars, serverVars, socketVars, stopperVars>>

ClientConnects ==
    /\ sock = "listening" /\ pending < MaxClients
    /\ pending' = pending + 1
    /\ ServerUnchanged /\ UNCHANGED <<client, stalled, foreign, childVars>>

ClientLeaves ==
    /\ client = "open"
    /\ client' = "gone" /\ stalled' = FALSE
    /\ ServerUnchanged /\ UNCHANGED <<pending, foreign, childVars>>

\* The connection's buffers are full; only a frame that was sent can fill them.
ClientStalls ==
    /\ client = "open" /\ ~stalled /\ tpc # "send"
    /\ stalled' = TRUE
    /\ ServerUnchanged /\ UNCHANGED <<client, pending, foreign, childVars>>

\* The peer makes room for a frame.
ClientReads ==
    /\ stalled
    /\ stalled' = FALSE
    /\ ServerUnchanged /\ UNCHANGED <<client, pending, foreign, childVars>>

ForeignListener ==
    /\ foreign \/ (sock # "listening" /\ ~PortTaken)
    /\ foreign' = ~foreign
    /\ ServerUnchanged /\ UNCHANGED <<clientVars, childVars>>

\* fork and exec of ffmpeg: it keeps the sockets not yet marked FD_CLOEXEC.
ForkChild ==
    /\ ~child
    /\ child' = TRUE
    /\ heirloom' = {s \in {"listener"} : fdOpen /\ tpc \in {"store", "cloexec"}}
                   \cup {s \in {"client"} : tpc = "clientCloexec"}
    /\ ServerUnchanged /\ UNCHANGED <<clientVars, foreign>>

ChildEnds ==
    /\ child
    /\ child' = FALSE
    /\ heirloom' = {}
    /\ ServerUnchanged /\ UNCHANGED <<clientVars, foreign>>

Environment ==
    \/ ClientConnects \/ ClientLeaves \/ ClientStalls \/ ClientReads
    \/ ForeignListener \/ ForkChild \/ ChildEnds

Next ==
    \/ TcpThread \/ AcceptInterrupted \/ MainThread
    \/ \E h \in Handlers : Stop(h) \/ Signal(h)
    \/ Environment

Spec == Init /\ [][Next]_vars

\* Threads run, and a client that does not read resumes or leaves: send() has no
\* time limit.
Fairness ==
    /\ WF_vars(TcpThread)
    /\ WF_vars(MainThread)
    /\ \A h \in Handlers : WF_vars(Stop(h))
    /\ WF_vars(ClientReads)

FairSpec == Spec /\ Fairness
-----------------------------------------------------------------------------
(* Properties                                                              *)

\* The steps of run() after running_ = true and before the return.
InRun == tpc \in {"socket", "store", "cloexec", "bind", "listen", "while", "accept",
                  "clientCloexec", "serve", "send", "nap", "closeClient"}
Serving == tpc \in {"while", "accept", "clientCloexec", "serve", "send", "nap", "closeClient"}

TypeOK ==
    /\ tpc \in {"loop", "make", "sleep", "done", "run", "socket", "store", "cloexec",
                "bind", "listen", "failClose", "failClear", "while", "accept",
                "clientCloexec", "serve", "send", "nap", "closeClient", "finish", "finishClose", "finishClear",
                "return"}
    /\ ret \in {0, 1} /\ gRunning \in BOOLEAN
    /\ status \in {"INIT", "STARTING", "RUNNING", "RETRY_WAIT", "EXCEPTION", "STOPPED"}
    /\ ptr \in BOOLEAN /\ flag \in BOOLEAN /\ listenFd \in BOOLEAN
    /\ sock \in {"none", "new", "bound", "listening"}
    /\ fdOpen \in BOOLEAN /\ reclosed \in BOOLEAN /\ foreign \in BOOLEAN
    /\ client \in {"none", "open", "gone"} /\ stalled \in BOOLEAN
    /\ pending \in 0 .. MaxClients
    /\ child \in BOOLEAN /\ heirloom \subseteq {"listener", "stale", "client"}
    /\ spc \in [Stoppers -> {"sleep", "idle", "test", "flag", "exchange", "close",
                             "done", "undefined", "exited"}]
    /\ valid \in [Stoppers -> BOOLEAN]

\* Between two runs the process has no listening socket left open, but for one a
\* stop() took out of listen_fd_ and is about to close: the descriptor passes
\* from run() to whoever exchanges it out and is not lost on any path
\* (tcp_sim_server.cpp:126-127, 133-134, 235-238, 246-249, 255-259).
NoDescriptorLeak ==
    ~ptr => ~fdOpen \/ \E c \in Stoppers : spc[c] = "close"

\* No descriptor number is closed twice, and no server that was deleted is
\* used, before a shutdown has begun (tcp_sim_server.cpp:126, 258; main.cpp:215).
RaceOnlyInShutdown ==
    reclosed \/ (\E c \in Stoppers : spc[c] = "undefined") => ~gRunning

\* While the process is to run, the accept and send loops have their listening
\* socket: nothing closes it behind run() (tcp_sim_server.cpp:139-233).
ListeningWhileServing ==
    Serving /\ gRunning => sock = "listening" /\ fdOpen /\ listenFd /\ flag

\* The invariant of the proofs.  The listening socket's descriptor always has an
\* owner: run() before it is stored, listen_fd_, or the stop() that took it out.
Holding == {"cloexec", "bind", "listen", "failClose", "while", "accept", "clientCloexec",
            "serve", "send", "nap", "closeClient", "finish", "finishClose"}
DescriptorHasOwner ==
    fdOpen => \/ \E c \in Stoppers : spc[c] = "close"
              \/ tpc = "store"
              \/ listenFd /\ tpc \in Holding

PointerIsSet == ptr <=> tpc \notin {"loop", "make", "sleep", "done"}

\* And until a signal comes run() has it all to itself.
Undisturbed ==
    gRunning =>
        /\ ~reclosed /\ \A c \in Stoppers : spc[c] \in {"sleep", "idle"}
        /\ tpc \in Holding \cup {"store"} => fdOpen
        /\ InRun => flag
        /\ Serving => sock = "listening" /\ listenFd
        /\ tpc \in {"cloexec", "bind", "listen"} => listenFd

IInv == TypeOK /\ DescriptorHasOwner /\ PointerIsSet /\ Undisturbed

\* A run() that failed is followed by another one unless the process is shutting
\* down (main.cpp:194-236).
FailureIsRetried ==
    status \in {"RETRY_WAIT", "EXCEPTION"} ~> (status = "STARTING" \/ ~gRunning)

\* Once running_ is false behind line 102, run() returns: stop() wakes a blocked
\* accept(), and the send loop sees the flag (tcp_sim_server.cpp:139-145, 162).
StopEndsRun == InRun /\ ~flag ~> tpc = "return"

\* Every stop() so far came before line 102, and run() serves on.
StopLost ==
    /\ InRun /\ flag
    /\ \A c \in Stoppers : spc[c] \in {"idle", "done"}

\* A signal ends the process unless running_ = true overwrote what every stop()
\* wrote, main's own included, or a stop() used the deleted server
\* (main.cpp:187-191, 328-336; tcp_sim_server.cpp:102).
ShutdownCompletes ==
    ~gRunning ~> \/ spc["main"] = "exited"
                 \/ \E c \in Stoppers : spc[c] = "undefined"
                 \/ StopLost

\* "TCP listen_fd/client_fd are set FD_CLOEXEC, to keep ffmpeg from inheriting
\* the socket" (PROGRESS.md:199).
NoSocketInherited == heirloom = {}
=============================================================================
