------------------------------ MODULE LiveView ------------------------------
(***************************************************************************)
(* The live page of the window with its StreamWorker: the RTSP lamp, and the *)
(* binding lamp that pairs the frames with the telemetry.                   *)
(*                                                                         *)
(* The TCP client (TelemetryClient) is reduced to the packets it posts, which  *)
(* may come at any time, after onStopAll() too.                             *)
(***************************************************************************)
EXTENDS StreamWorker

CONSTANT BindLimit  \* 5000 ms between a frame and a packet

ASSUME LiveViewAssumption == BindLimit \in Nat /\ BindLimit <= Old

VARIABLES
    wanted,          \* between onStartAll() and onStopAll()
    rtspConnected,   \* the lamps
    responseBound,
    packetAge,       \* since the last packet
    packets          \* a packet is under way to the event loop

lampVars == <<wanted, rtspConnected, responseBound>>
packetVars == <<packetAge, packets>>
vars == <<streamVars, frameAge, frames, source, lampVars, packetVars>>

Init ==
    /\ StreamInit
    /\ wanted = FALSE /\ rtspConnected = FALSE /\ responseBound = FALSE
    /\ packetAge = Old /\ packets = FALSE

\* onStartAll(): also while it runs.
StartAll ==
    /\ wanted' = TRUE /\ rtspConnected' = FALSE /\ responseBound' = FALSE
    /\ StreamStart
    /\ UNCHANGED <<frameAge, frames, source, packetVars>>

\* onStopAll()
StopAll ==
    /\ wanted' = FALSE /\ rtspConnected' = FALSE /\ responseBound' = FALSE
    /\ StreamStop
    /\ UNCHANGED <<frameAge, frames, source, packetVars>>

\* Mutated form: a limit of 5, as if the timestamps were seconds.
PairsInSeconds(age) == age = 0

\* qAbs(lastFrameTsMs_ - lastTelemetryTsMs_) < 5000 when one of them is now.
Pairs(age) == age < BindLimit

\* onFrameChanged() and the frameArrived signal it emits into onFrame().
OnFrame ==
    /\ frames
    /\ StreamFrame
    /\ frames' = FALSE /\ frameAge' = 0
    /\ rtspConnected' = TRUE
    /\ responseBound' = Pairs(packetAge)
    /\ UNCHANGED <<source, wanted, packetVars>>

\* onTelemetry()
OnTelemetry ==
    /\ packets
    /\ packets' = FALSE /\ packetAge' = 0
    /\ responseBound' = Pairs(frameAge)
    /\ UNCHANGED <<streamVars, frameAge, frames, source, wanted, rtspConnected>>

WatchdogFires == CheckStreamAlive /\ UNCHANGED <<lampVars, packetVars>>

SourceMoves == SourceChanges /\ UNCHANGED <<lampVars, packetVars>>

\* The clock; with it comes a packet, or none.
Tick ==
    /\ ~packets
    /\ StreamTick
    /\ packetAge' = Aged(packetAge) /\ packets' \in BOOLEAN
    /\ UNCHANGED lampVars

Next ==
    \/ StartAll \/ StopAll \/ OnFrame \/ OnTelemetry
    \/ WatchdogFires \/ SourceMoves \/ Tick

Spec == Init /\ [][Next]_vars

\* The event loop runs what is posted and due, and time passes; nobody has to
\* press a button, and a packet need not come.
FairSpec ==
    Spec /\ WF_vars(OnFrame) /\ WF_vars(OnTelemetry) /\ WF_vars(WatchdogFires) /\ WF_vars(Tick)

-----------------------------------------------------------------------------
TypeOK ==
    /\ StreamTypeOK
    /\ wanted \in BOOLEAN /\ rtspConnected \in BOOLEAN /\ responseBound \in BOOLEAN
    /\ packetAge \in 0 .. Old /\ packets \in BOOLEAN

\* After onStopAll() the worker never plays again by itself: the watchdog, which
\* restarts the player on silence, is stopped with it, and only with it.
StoppedStaysStopped ==
    /\ wanted <=> watchdog # Off
    /\ wanted <=> playing

\* The watchdog never restarts a stream that shows its frames, at whatever moment
\* of its period they began.  Only one whose first frame is still in the event
\* loop when the timer is due can be interrupted, by one tick.
LiveStreamIsLeftAlone ==
    [][CheckStreamAlive /\ Flowing /\ (frames => frameAge = 1) => Flowing']_vars

NoMoreStarts == <>[][~StartAll]_vars

\* The watchdog is back at the plain URL, and what was opened for it is closed: no
\* restart opens it again, for the URL does not change any more.
ClosedForGood == url = "plain" /\ triedTcpParam /\ ~opened

\* A source that stays up on the configured URL is shown in the end, whatever it
\* did before and with whichever URL the watchdog is trying, unless it went when the
\* watchdog was back at the plain URL: one start() and two restarts are what it has.
SourceUpIsShown ==
    NoMoreStarts /\ <>[](wanted /\ "plain" \in source) =>
        <>[](Flowing /\ rtspConnected /\ frameAge <= 1) \/ <>[]ClosedForGood

\* A source that serves only TCP is shown after a start(): the first restart
\* asks for it, and the watchdog lets it be.
TcpOnlyIsShown ==
    NoMoreStarts =>
        (wanted /\ ~triedTcpParam /\ ~seen /\ source = {"tcp"}
            ~> Flowing \/ ~wanted \/ source # {"tcp"})

\* While frames flow and packets come often enough, the binding lamp stays lit:
\* a start() puts it out, and no order of the two kinds of signal does.
BothFlowingIsBound ==
    <>[](Flowing /\ packetAge < BindLimit) => <>[]responseBound

\* "RTSP: is it connected" (PROGRESS.md:11): the lamp of a stream that is closed
\* and not opened again goes out.
LampMeansStream == rtspConnected /\ ~opened ~> ~rtspConnected \/ opened

\* "RTSP no frame timeout, reconnecting..." (stream_worker.cpp:67): a stream that is
\* closed while its source serves it is opened again.
SilentIsReconnected ==
    wanted /\ ClosedForGood /\ "plain" \in source ~>
        opened \/ ~wanted \/ ~triedTcpParam \/ "plain" \notin source

\* One of the two promises about the stream is kept: what refutes this refutes both.
StreamAsDocumented == LampMeansStream \/ SilentIsReconnected

\* What keeps LiveStreamIsLeftAlone true.  A stream whose first frame has been
\* delivered has shown its last one in this tick; and a start() sets the watchdog
\* back with lastFrameTsMs_, so a stream nothing was seen of has been played for
\* no longer than the last frame is old, before the watchdog is due.
FreshFlow == Flowing /\ ~frames => seen /\ frameAge = 0
FrameSeen == seen \/ frameAge = Old \/ watchdog + frameAge >= WatchPeriod
IInv ==
    /\ TypeOK /\ StoppedStaysStopped
    /\ FreshFlow /\ FrameSeen
=============================================================================
