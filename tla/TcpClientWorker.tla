--------------------------- MODULE TcpClientWorker ---------------------------
(***************************************************************************)
(* TcpClientWorker: the client's end of the telemetry connection, in a      *)
(* thread of its own.  The thread runs one event at a time: a slot call the *)
(* window queued, the reconnect timer, or an event of the QTcpSocket.  Each  *)
(* is an action, with the signals QTcpSocket emits in the course of it and   *)
(* the slots they run.                                                      *)
(*                                                                         *)
(* QTcpSocket is external.  What it does here: disconnected() is emitted by *)
(* a socket that was connected and by no other; disconnectFromHost() on a    *)
(* socket that is connecting is put off until the attempt succeeds; abort()  *)
(* gives up at once; an attempt that fails emits errorOccurred() alone.      *)
(*                                                                         *)
(* Bound: MaxNews signals under way to the window.                          *)
(***************************************************************************)
EXTENDS Sequences, Naturals

CONSTANTS MaxNews

ASSUME WorkerAssumption == MaxNews \in Nat

VARIABLES
    running,     \* running_
    timer,       \* reconnectTimer_ is armed
    socket,      \* the state of socket_
    putOff,      \* a disconnectFromHost() waits for the attempt to succeed
    calls,       \* slot calls queued by the window
    news         \* signals queued to the window

workerVars == <<running, timer, socket, putOff>>

WorkerInit ==
    /\ running = FALSE /\ timer = FALSE
    /\ socket = "unconnected" /\ putOff = FALSE
    /\ calls = <<>> /\ news = <<>>

\* No event emits more than two signals.
RoomForNews == Len(news) + 2 <= MaxNews

Emit(signal) == news' = Append(news, signal)
EmitBoth(first, second) == news' = Append(Append(news, first), second)

\* Mutated form: the timer is not started again.
TimerForgotten(run) == timer

\* onDisconnected, in the course of whatever ends a connection.
EmitDisconnected ==
    IF socket = "connected" THEN Emit("disconnected") ELSE UNCHANGED news
TimerAfterDisconnect(run) == timer \/ (socket = "connected" /\ run)

\* connectionStateChanged("connecting"), abort(), connectToHost().
Reconnect ==
    /\ IF socket = "connected" THEN EmitBoth("connecting", "disconnected")
                               ELSE Emit("connecting")
    /\ socket' = "connecting"
    /\ putOff' = FALSE

Start ==
    /\ calls # <<>> /\ Head(calls) = "start"
    /\ calls' = Tail(calls)
    /\ running' = TRUE
    /\ Reconnect
    /\ timer' = TimerAfterDisconnect(TRUE)

\* The single-shot timer is disarmed before its slot runs; abort() may rearm it.
TimerFires ==
    /\ timer
    /\ IF running
       THEN Reconnect /\ timer' = (socket = "connected")
       ELSE timer' = FALSE /\ UNCHANGED <<socket, putOff, news>>
    /\ UNCHANGED <<running, calls>>

\* Mutated form: disconnectFromHost() comes before running_ = false.
StopTooLate ==
    /\ calls # <<>> /\ Head(calls) = "stop"
    /\ calls' = Tail(calls)
    /\ running' = FALSE
    /\ timer' = (socket = "connected")
    /\ EmitDisconnected
    /\ socket' = IF socket = "connecting" THEN "connecting" ELSE "unconnected"
    /\ putOff' = (socket = "connecting")

\* Mutated form: the timer goes on.
StopKeepsTimer ==
    /\ calls # <<>> /\ Head(calls) = "stop"
    /\ calls' = Tail(calls)
    /\ running' = FALSE
    /\ EmitDisconnected
    /\ socket' = IF socket = "connecting" THEN "connecting" ELSE "unconnected"
    /\ putOff' = (socket = "connecting")
    /\ UNCHANGED timer

\* Mutated form: only an open connection is closed.
StopConnectedOnly ==
    /\ calls # <<>> /\ Head(calls) = "stop"
    /\ calls' = Tail(calls)
    /\ running' = FALSE
    /\ timer' = FALSE
    /\ EmitDisconnected
    /\ socket' = IF socket = "connecting" THEN "connecting" ELSE "unconnected"
    /\ UNCHANGED putOff

\* running_ = false, the timer, and only then disconnectFromHost().
Stop ==
    /\ calls # <<>> /\ Head(calls) = "stop"
    /\ calls' = Tail(calls)
    /\ running' = FALSE
    /\ timer' = FALSE
    /\ EmitDisconnected
    /\ socket' = IF socket = "connecting" THEN "connecting" ELSE "unconnected"
    /\ putOff' = (socket = "connecting")

\* onConnected.  A disconnectFromHost() that was put off is done now.
Connected ==
    /\ socket = "connecting"
    /\ \/ ~putOff /\ socket' = "connected" /\ Emit("connected") /\ UNCHANGED timer
       \/ putOff /\ socket' = "unconnected" /\ EmitBoth("connected", "disconnected")
          /\ timer' = (timer \/ running)
    /\ putOff' = FALSE
    /\ UNCHANGED <<running, calls>>

\* errorOccurred() has no slot: nothing else happens.
ConnectFails ==
    /\ socket = "connecting"
    /\ socket' = "unconnected"
    /\ putOff' = FALSE
    /\ UNCHANGED <<running, timer, calls, news>>

\* The server closes the connection, or the network does.
PeerCloses ==
    /\ socket = "connected"
    /\ socket' = "unconnected"
    /\ EmitDisconnected
    /\ timer' = TimerAfterDisconnect(running)
    /\ UNCHANGED <<running, putOff, calls>>

\* onReadyRead with a complete message (FrameStream says how it is found).
Telemetry ==
    /\ socket = "connected"
    /\ Emit("telemetry")
    /\ UNCHANGED <<workerVars, calls>>

Slot == RoomForNews /\ (Start \/ Stop)
Timeout == RoomForNews /\ TimerFires
Attempt == RoomForNews /\ (Connected \/ ConnectFails)
Peer == RoomForNews /\ (PeerCloses \/ Telemetry)
-----------------------------------------------------------------------------
WorkerTypeOK ==
    /\ running \in BOOLEAN /\ timer \in BOOLEAN /\ putOff \in BOOLEAN
    /\ socket \in {"unconnected", "connecting", "connected"}
    /\ calls \in Seq({"start", "stop"})
    /\ news \in Seq({"connecting", "connected", "disconnected", "telemetry"})
    /\ Len(news) <= MaxNews

\* A worker that was stopped stays down: no timer is armed, no connection is
\* open, and an attempt under way will be closed should it succeed
\* (tcp_client_worker.cpp:45-49, 56-60).
StoppedIsQuiet ==
    ~running => ~timer /\ socket # "connected" /\ (socket = "connecting" => putOff)
=============================================================================
