--------------------------- MODULE TelemetryClient ---------------------------
(***************************************************************************)
(* MainWindow's side of the telemetry connection, composed with              *)
(* TcpClientWorker: the start and stop buttons, which queue slot calls to    *)
(* the worker's thread, and the TCP lamp, which the worker's queued signals   *)
(* switch.  The two threads share the two queues and nothing else.           *)
(*                                                                         *)
(* Bounds: MaxCalls slot calls under way, and the worker's MaxNews.          *)
(***************************************************************************)
EXTENDS TcpClientWorker

CONSTANTS MaxCalls

ASSUME ClientAssumption == MaxCalls \in Nat

VARIABLES
    lamp,        \* tcpConnected_
    blink,       \* connBlinkTimer_ is active
    wanted       \* the last button pressed was the start button

windowVars == <<lamp, blink, wanted>>
vars == <<workerVars, calls, news, windowVars>>

Init == WorkerInit /\ lamp = FALSE /\ blink = FALSE /\ wanted = FALSE

StartAll ==
    /\ Len(calls) < MaxCalls
    /\ calls' = Append(calls, "start")
    /\ lamp' = FALSE
    /\ wanted' = TRUE
    /\ UNCHANGED <<workerVars, news, blink>>

\* Mutated form: the stop overtakes the calls under way.
StopAllOvertakes ==
    /\ Len(calls) < MaxCalls
    /\ calls' = <<"stop">> \o calls
    /\ lamp' = FALSE /\ blink' = FALSE
    /\ wanted' = FALSE
    /\ UNCHANGED <<workerVars, news>>

StopAll ==
    /\ Len(calls) < MaxCalls
    /\ calls' = Append(calls, "stop")
    /\ lamp' = FALSE /\ blink' = FALSE
    /\ wanted' = FALSE
    /\ UNCHANGED <<workerVars, news>>

\* Mutated form: no state is taken for a connection.
ContainsRunning(state) == state = "running"

\* state.contains("connected"): "disconnected" does.  (No worker says "running".)
Contains(state) == state \in {"connected", "disconnected"}

OnTelemetry ==
    /\ news # <<>> /\ Head(news) = "telemetry"
    /\ news' = Tail(news)
    /\ lamp' = TRUE
    /\ UNCHANGED <<workerVars, calls, blink, wanted>>

OnConnectionStateChanged ==
    /\ news # <<>> /\ Head(news) # "telemetry"
    /\ news' = Tail(news)
    /\ lamp' = Contains(Head(news))
    /\ blink' = Contains(Head(news))
    /\ UNCHANGED <<workerVars, calls, wanted>>

Worker == (Slot \/ Timeout \/ Attempt \/ Peer) /\ UNCHANGED windowVars
Window == OnTelemetry \/ OnConnectionStateChanged
User   == StartAll \/ StopAll

Next == Worker \/ Window \/ User

Spec == Init /\ [][Next]_vars

\* Both event loops run; a connection attempt ends, one way or the other.
Fairness ==
    /\ WF_vars(Window)
    /\ SF_vars(Slot /\ UNCHANGED windowVars)
    /\ SF_vars(Timeout /\ UNCHANGED windowVars)
    /\ SF_vars(Attempt /\ UNCHANGED windowVars)

FairSpec == Spec /\ Fairness
-----------------------------------------------------------------------------
(* Properties                                                              *)

TypeOK ==
    /\ WorkerTypeOK
    /\ Len(calls) <= MaxCalls
    /\ lamp \in BOOLEAN /\ blink \in BOOLEAN /\ wanted \in BOOLEAN

\* A connection that is lost while the worker runs is followed by an attempt or
\* by an armed timer (tcp_client_worker.cpp:56-60).
LostConnectionIsRetried ==
    [][socket = "connected" /\ socket' # "connected" /\ running'
           => timer' \/ socket' = "connecting"]_vars

\* When the queues are empty an open connection lights the lamp, whatever the
\* order in which buttons and signals crossed (main_window.cpp:564-599, 672-683).
ConnectedLightsLamp ==
    calls = <<>> /\ news = <<>> /\ socket = "connected" => lamp

\* When the queues are empty the worker does what the last button asked for
\* (main_window.cpp:574, 589).
WorkerObeys == calls = <<>> => running = wanted

\* What the queues will make of worker and window.  The lamp will be what the
\* last signal under way makes of it, and every one but "connecting" lights it;
\* the last call under way is the last button's.
LampToCome == IF news = <<>> THEN lamp ELSE news[Len(news)] # "connecting"
CallToCome == IF calls = <<>> THEN running ELSE calls[Len(calls)] = "start"
ClientInv ==
    /\ StoppedIsQuiet
    /\ CallToCome = wanted
    /\ calls = <<>> /\ socket = "connected" => LampToCome

\* The inductive invariant.
IInv == TypeOK /\ ClientInv

\* After a stop the connection comes down for good, an attempt under way
\* included, unless the start button is pressed (tcp_client_worker.cpp:45-49).
StopBringsDown == ~wanted ~> wanted \/ (~running /\ socket = "unconnected")

\* "TCP: is it connected" (PROGRESS.md:11): when the queues are empty a lit lamp
\* stands for a connection.
LampMeansConnected ==
    calls = <<>> /\ news = <<>> /\ lamp => socket = "connected"

\* "Reconnect interval (ms)" (main_window.cpp:403): a client that runs without a
\* connection tries again after the interval.
DownIsRetried == running /\ socket = "unconnected" => timer

\* One of the two promises about the connection is kept: what refutes this refutes
\* both.
ConnectionAsDocumented == []LampMeansConnected \/ []DownIsRetried
=============================================================================
