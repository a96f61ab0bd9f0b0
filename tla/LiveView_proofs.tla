--------------------------- MODULE LiveView_proofs ---------------------------
(***************************************************************************)
(* What LiveView promises for every period, limit and start-up time.        *)
(***************************************************************************)
EXTENDS LiveView, TLAPS

\* The periods and limits, one by one.
LEMMA Params ==
    /\ WatchPeriod \in Nat /\ AliveLimit \in Nat /\ StartUp \in Nat /\ Old \in Nat
    /\ 0 < StartUp /\ 1 < WatchPeriod /\ 1 < AliveLimit /\ AliveLimit <= Old
    /\ BindLimit \in Nat
BY StreamWorkerAssumption, LiveViewAssumption DEF StreamWorkerAssumption, LiveViewAssumption

USE Params

\* The state after the constructor.
LEMMA InitIInv == Init => IInv
<1> SUFFICES ASSUME Init PROVE IInv
    OBVIOUS
<1> USE DEF Init, StreamInit
<1>1. TypeOK
    <2>1. 0 \in 0 .. StartUp /\ Off \in 0 .. Off /\ Old \in 0 .. Old
        BY DEF Off
    <2> QED
        BY <2>1, Zenon DEF TypeOK, StreamTypeOK
<1>2. StoppedStaysStopped
    BY DEF StoppedStaysStopped
<1>3. FreshFlow /\ FrameSeen
    BY DEF FreshFlow, Flowing, FrameSeen
<1> QED
    BY <1>1, <1>2, <1>3 DEF IInv

\* Ages stay in their range.
LEMMA AgedRange ==
    ASSUME NEW age \in 0 .. Old
    PROVE  Aged(age) \in 0 .. Old
BY DEF Aged

\* onStartAll() resets the watchdog, what it has seen and the lamp together.
LEMMA StartAllIInv == IInv /\ StartAll => IInv'
<1> SUFFICES ASSUME IInv, StartAll PROVE IInv'
    OBVIOUS
<1> USE DEF StartAll, StreamStart, Play, packetVars
<1>1. TypeOK'
    <2>1. ready' \in 0 .. StartUp /\ watchdog' \in 0 .. Off
        BY DEF Off
    <2>2. url' \in Transports \cup {None} /\ opened' \in BOOLEAN /\ playing' \in BOOLEAN
        BY Zenon DEF IInv, TypeOK, StreamTypeOK, Transports
    <2>3. /\ frameAge' \in 0 .. Old /\ packetAge' \in 0 .. Old /\ source' \subseteq Transports
          /\ triedTcpParam' \in BOOLEAN /\ seen' \in BOOLEAN /\ frames' \in BOOLEAN
          /\ wanted' \in BOOLEAN /\ rtspConnected' \in BOOLEAN
          /\ responseBound' \in BOOLEAN /\ packets' \in BOOLEAN
        BY DEF IInv, TypeOK, StreamTypeOK
    <2> QED
        BY <2>1, <2>2, <2>3, Zenon DEF TypeOK, StreamTypeOK
<1>2. StoppedStaysStopped'
    BY DEF StoppedStaysStopped, Off
<1>3. FreshFlow'
    BY DEF FreshFlow, Flowing
<1>4. FrameSeen'
    BY DEF IInv, TypeOK, StreamTypeOK, FrameSeen
<1> QED
    BY <1>1, <1>2, <1>3, <1>4 DEF IInv

\* onStopAll() stops the watchdog with the player.
LEMMA StopAllIInv == IInv /\ StopAll => IInv'
<1> SUFFICES ASSUME IInv, StopAll PROVE IInv'
    OBVIOUS
<1> USE DEF StopAll, StreamStop, packetVars
<1>1. TypeOK'
    <2>1. ready' \in 0 .. StartUp /\ watchdog' \in 0 .. Off
        BY DEF Off
    <2>2. url' \in Transports \cup {None} /\ opened' \in BOOLEAN /\ playing' \in BOOLEAN
        BY Zenon DEF IInv, TypeOK, StreamTypeOK, Transports
    <2>3. /\ frameAge' \in 0 .. Old /\ packetAge' \in 0 .. Old /\ source' \subseteq Transports
          /\ triedTcpParam' \in BOOLEAN /\ seen' \in BOOLEAN /\ frames' \in BOOLEAN
          /\ wanted' \in BOOLEAN /\ rtspConnected' \in BOOLEAN
          /\ responseBound' \in BOOLEAN /\ packets' \in BOOLEAN
        BY DEF IInv, TypeOK, StreamTypeOK
    <2> QED
        BY <2>1, <2>2, <2>3, Zenon DEF TypeOK, StreamTypeOK
<1>2. StoppedStaysStopped'
    BY DEF StoppedStaysStopped
<1>3. FreshFlow'
    BY DEF FreshFlow, Flowing
<1>4. FrameSeen'
    BY DEF IInv, TypeOK, StreamTypeOK, FrameSeen, Off
<1> QED
    BY <1>1, <1>2, <1>3, <1>4 DEF IInv

\* A frame lights the lamp and is seen by the watchdog, in one handler.
LEMMA OnFrameIInv == IInv /\ OnFrame => IInv'
<1> SUFFICES ASSUME IInv, OnFrame PROVE IInv'
    OBVIOUS
<1> USE DEF OnFrame, StreamFrame, playerVars, packetVars
<1>1. TypeOK'
    <2>1. 0 \in 0 .. Old /\ Pairs(packetAge) \in BOOLEAN
        BY DEF Pairs
    <2> QED
        BY <2>1, Zenon DEF IInv, TypeOK, StreamTypeOK
<1>2. StoppedStaysStopped'
    BY DEF IInv, StoppedStaysStopped, Off
<1>3. FreshFlow' /\ FrameSeen'
    BY DEF FreshFlow, FrameSeen
<1> QED
    BY <1>1, <1>2, <1>3 DEF IInv

\* A packet touches the binding lamp alone.
LEMMA OnTelemetryIInv == IInv /\ OnTelemetry => IInv'
<1> SUFFICES ASSUME IInv, OnTelemetry PROVE IInv'
    OBVIOUS
<1> USE DEF OnTelemetry, streamVars, playerVars
<1>1. TypeOK'
    <2>1. 0 \in 0 .. Old /\ Pairs(frameAge) \in BOOLEAN
        BY DEF Pairs
    <2> QED
        BY <2>1, Zenon DEF IInv, TypeOK, StreamTypeOK, Off
<1>2. StoppedStaysStopped'
    BY DEF IInv, StoppedStaysStopped, Off
<1>3. FreshFlow' /\ FrameSeen'
    BY DEF IInv, FreshFlow, FrameSeen, Flowing
<1> QED
    BY <1>1, <1>2, <1>3 DEF IInv

\* The watchdog leaves the player or has it play again.
LEMMA WatchdogIInv == IInv /\ WatchdogFires => IInv'
<1> SUFFICES ASSUME IInv, WatchdogFires PROVE IInv'
    OBVIOUS
<1> USE DEF WatchdogFires, CheckStreamAlive, playerVars, lampVars, packetVars
<1>1. wanted
    BY DEF IInv, StoppedStaysStopped, Off
<1>2. CASE Alive /\ UNCHANGED <<playerVars, triedTcpParam>>
    <2>1. TypeOK'
        BY <1>2 DEF IInv, TypeOK, StreamTypeOK, Off
    <2>2. StoppedStaysStopped'
        BY <1>1, <1>2 DEF IInv, StoppedStaysStopped, Off
    <2>3. FreshFlow'
        BY <1>2 DEF IInv, FreshFlow, Flowing
    <2>4. FrameSeen'
        BY DEF IInv, TypeOK, StreamTypeOK, FrameSeen
    <2> QED
        BY <2>1, <2>2, <2>3, <2>4 DEF IInv
<1>3. CASE ~Alive /\ Play(NextUrl) /\ triedTcpParam' = TRUE
    <2>1. NextUrl \in Transports
        BY DEF NextUrl, Transports
    <2>2. url' = NextUrl /\ playing' /\ ready' = 0 /\ opened' \in BOOLEAN /\ playing' \in BOOLEAN
        BY <1>3, Zenon DEF Play
    <2>3. TypeOK'
        BY <1>3, <2>1, <2>2 DEF IInv, TypeOK, StreamTypeOK, Off
    <2>4. StoppedStaysStopped'
        BY <1>1, <2>1, <2>2 DEF IInv, StoppedStaysStopped, Off
    <2>5. FreshFlow'
        BY <2>2 DEF FreshFlow, Flowing
    <2>6. FrameSeen'
        BY DEF IInv, TypeOK, StreamTypeOK, FrameSeen
    <2> QED
        BY <2>3, <2>4, <2>5, <2>6 DEF IInv
<1> QED
    BY <1>2, <1>3

\* A source that leaves closes what was opened, and does not stop the player.
LEMMA SourceMovesIInv == IInv /\ SourceMoves => IInv'
<1> SUFFICES ASSUME IInv, SourceMoves PROVE IInv'
    OBVIOUS
<1> USE DEF SourceMoves, SourceChanges, lampVars, packetVars
<1>1. source' \subseteq Transports
    OBVIOUS
<1>2. CASE opened' = FALSE /\ ready' = 0
    <2>1. opened' \in BOOLEAN
        BY <1>2, Zenon
    <2>2. ready' \in 0 .. StartUp
        BY <1>2, StreamWorkerAssumption DEF IInv, TypeOK, StreamTypeOK
    <2>3. TypeOK'
        BY <1>1, <2>1, <2>2 DEF IInv, TypeOK, StreamTypeOK, Off
    <2>4. StoppedStaysStopped'
        BY <1>2 DEF IInv, StoppedStaysStopped, Off
    <2>5. FreshFlow' /\ FrameSeen'
        BY <1>2 DEF IInv, FreshFlow, FrameSeen, Flowing
    <2> QED
        BY <2>3, <2>4, <2>5 DEF IInv
<1>3. CASE UNCHANGED <<opened, ready>>
    <2>1. TypeOK'
        BY <1>1, <1>3 DEF IInv, TypeOK, StreamTypeOK, Off
    <2>2. StoppedStaysStopped'
        BY <1>3 DEF IInv, StoppedStaysStopped, Off
    <2>3. FreshFlow' /\ FrameSeen'
        BY <1>3 DEF IInv, FreshFlow, FrameSeen, Flowing
    <2> QED
        BY <2>1, <2>2, <2>3 DEF IInv
<1> QED
    BY <1>2, <1>3

\* The watchdog comes one tick nearer as the last frame becomes one tick older.
LEMMA TickIInv == IInv /\ Tick => IInv'
<1> SUFFICES ASSUME IInv, Tick PROVE IInv'
    OBVIOUS
<1> USE DEF Tick, StreamTick, lampVars
<1>1. watchdog \in 0 .. Off /\ frameAge \in 0 .. Old /\ packetAge \in 0 .. Old
    BY DEF IInv, TypeOK, StreamTypeOK
<1>2. frameAge' \in 0 .. Old /\ packetAge' \in 0 .. Old
    BY <1>1, AgedRange
<1>3. /\ watchdog' \in 0 .. Off
      /\ watchdog = Off <=> watchdog' = Off
    BY <1>1 DEF Off
<1>4. opened' \in BOOLEAN /\ ready' \in 0 .. StartUp
    <2>1. CASE Served
        BY <2>1 DEF IInv, TypeOK, StreamTypeOK, Flowing
    <2>2. CASE ~Served
        BY <2>2 DEF IInv, TypeOK, StreamTypeOK
    <2> QED
        BY <2>1, <2>2
<1>5. TypeOK'
    <2>1. frames' \in BOOLEAN
        OBVIOUS
    <2> QED
        BY <1>2, <1>3, <1>4, <2>1 DEF IInv, TypeOK, StreamTypeOK, Off
<1>6. StoppedStaysStopped'
    BY <1>3, <1>4 DEF IInv, StoppedStaysStopped, Off
<1>7. FreshFlow'
    BY DEF FreshFlow, Flowing
<1>8. FrameSeen'
    <2>1. CASE frameAge = Old
        BY <2>1 DEF FrameSeen, Aged
    <2>2. CASE frameAge < Old
        <3>1. frameAge' = frameAge + 1
            BY <2>2 DEF Aged
        <3>2. watchdog' = Off \/ watchdog' = watchdog - 1
            OBVIOUS
        <3>3. CASE seen
            BY <3>3 DEF FrameSeen
        <3>4. CASE watchdog + frameAge >= WatchPeriod
            <4>1. watchdog' + frameAge' >= WatchPeriod
                BY <1>1, <3>1, <3>2, <3>4 DEF Off
            <4> QED
                BY <4>1 DEF FrameSeen
        <3> QED
            BY <1>1, <2>2, <3>3, <3>4 DEF IInv, FrameSeen
    <2> QED
        BY <1>1, <2>1, <2>2
<1> QED
    BY <1>5, <1>6, <1>7, <1>8 DEF IInv

\* A stuttering step.
LEMMA StutterIInv == IInv /\ UNCHANGED vars => IInv'
BY DEF IInv, vars, streamVars, playerVars, lampVars, packetVars, TypeOK, StreamTypeOK,
    StoppedStaysStopped, FreshFlow, FrameSeen, Flowing, Off

\* The live page and its worker agree in every reachable state: on whether the
\* stream is wanted, and on what was seen of it.
THEOREM Invariance == Spec => []IInv
<1>1. IInv /\ [Next]_vars => IInv'
    BY StartAllIInv, StopAllIInv, OnFrameIInv, OnTelemetryIInv, WatchdogIInv,
        SourceMovesIInv, TickIInv, StutterIInv DEF Next
<1> QED
    BY InitIInv, <1>1, PTL DEF Spec

\* Every variable keeps to its range.
THEOREM TypeCorrect == Spec => []TypeOK
<1>1. IInv => TypeOK
    BY DEF IInv
<1> QED
    BY Invariance, <1>1, PTL

\* After onStopAll() nothing plays and the watchdog is off (stop(), line 32).
THEOREM Stopped == Spec => []StoppedStaysStopped
<1>1. IInv => StoppedStaysStopped
    BY DEF IInv
<1> QED
    BY Invariance, <1>1, PTL

\* checkStreamAlive() interrupts no stream that shows its frames, whatever the
\* period and the limit, as long as both are above the time between two frames.
THEOREM LeftAlone == Spec => LiveStreamIsLeftAlone
<1>1. ASSUME IInv, CheckStreamAlive, Flowing, frames => frameAge = 1
      PROVE  Flowing'
    <2>1. watchdog = 0 /\ frameAge \in 0 .. Old
        BY <1>1 DEF IInv, TypeOK, StreamTypeOK, CheckStreamAlive
    <2>2. CASE ~frames
        <3>1. Alive
            BY <1>1, <2>2 DEF IInv, FreshFlow, Alive
        <3> QED
            BY <1>1, <3>1 DEF CheckStreamAlive, playerVars, Flowing
    <2>3. CASE frameAge = 1
        <3>1. seen
            BY <1>1, <2>1, <2>3 DEF IInv, FrameSeen
        <3>2. Alive
            BY <2>3, <3>1 DEF Alive
        <3> QED
            BY <1>1, <3>2 DEF CheckStreamAlive, playerVars, Flowing
    <2> QED
        BY <1>1, <2>2, <2>3
<1>2. IInv /\ [Next]_vars =>
        [CheckStreamAlive /\ Flowing /\ (frames => frameAge = 1) => Flowing']_vars
    BY <1>1
<1> QED
    BY Invariance, <1>2, PTL DEF Spec, LiveStreamIsLeftAlone
=============================================================================
