----------------------------- MODULE StreamWorker -----------------------------
(***************************************************************************)
(* StreamWorker: the client's RTSP player and the watchdog that restarts it. *)
(* It lives in the window's thread: its slots and its timer run one after     *)
(* the other with the window's own handlers.  Time passes in Ticks, and ages  *)
(* are counted up to Old, beyond which nothing looks at them.                 *)
(*                                                                         *)
(* QMediaPlayer and the RTSP source are external.  setSource() stops the player  *)
(* and opens the URL, unless it is the one the player has: then it returns, and  *)
(* play() goes on with what was opened before.  While the source serves the       *)
(* transport of a player that plays, the first frame comes StartUp ticks after     *)
(* play() and then one every tick, posted to the window's event loop from the      *)
(* player's thread.  What was opened is closed when its source goes or is given up  *)
(* waiting for, and QMediaPlayer does not open it again.                        *)
(***************************************************************************)
EXTENDS Naturals

CONSTANTS
    WatchPeriod,  \* the interval of watchdog_
    AliveLimit,   \* 3500 ms in checkStreamAlive()
    StartUp,      \* the first frame's delay
    Old           \* no age above it is told from it

ASSUME StreamWorkerAssumption ==
    /\ {WatchPeriod, AliveLimit, StartUp, Old} \subseteq Nat
    /\ 0 < StartUp /\ 1 < WatchPeriod /\ 1 < AliveLimit /\ AliveLimit <= Old

VARIABLES
    url,          \* the source of player_: the plain URL, that with "tcp", or None
    opened,       \* what was opened for it has not been closed since
    playing,      \* between play() and stop()
    ready,        \* ticks the player has been served since play(), up to StartUp
    watchdog,     \* ticks until watchdog_ fires, or Off
    triedTcpParam,
    seen,         \* lastFrameTsMs_ > 0
    frameAge,     \* since the last frame
    frames,       \* a frame is under way to the event loop
    source        \* the transports the source serves

playerVars == <<url, opened, playing, ready>>
streamVars == <<playerVars, watchdog, triedTcpParam, seen>>

Off == WatchPeriod + 1
None == "none"
Transports == {"plain", "tcp"}

StreamInit ==
    /\ url = None /\ opened = FALSE /\ playing = FALSE /\ ready = 0 /\ watchdog = Off
    /\ triedTcpParam = FALSE /\ seen = FALSE
    /\ frameAge = Old /\ frames = FALSE
    /\ source \in SUBSET Transports

Aged(age) == IF age < Old THEN age + 1 ELSE Old

\* player_->setSource(to), player_->play()
Play(to) ==
    /\ url' = to
    /\ opened' = (opened \/ url # to)
    /\ playing' = TRUE /\ ready' = 0

\* Mutated form: the watchdog is started only if it is off.
StreamStartKeepsTimer ==
    /\ Play("plain")
    /\ triedTcpParam' = FALSE /\ seen' = FALSE
    /\ watchdog' = IF watchdog = Off THEN WatchPeriod ELSE watchdog

\* start(): also on a player that runs.
StreamStart ==
    /\ Play("plain")
    /\ triedTcpParam' = FALSE /\ seen' = FALSE
    /\ watchdog' = WatchPeriod

\* Mutated form: the watchdog goes on.
StreamStopKeepsWatchdog ==
    /\ playing' = FALSE /\ ready' = 0
    /\ UNCHANGED <<url, opened, triedTcpParam, seen, watchdog>>

\* stop(): the watchdog first, then the player.
StreamStop ==
    /\ watchdog' = Off
    /\ playing' = FALSE /\ ready' = 0
    /\ UNCHANGED <<url, opened, triedTcpParam, seen>>

\* onFrameChanged with a valid frame (the empty one of a stopping player is not).
StreamFrame ==
    /\ seen' = TRUE
    /\ UNCHANGED <<playerVars, watchdog, triedTcpParam>>

\* Mutated form: a limit of 35 ms.
AliveForLess == seen /\ frameAge = 0

Alive == seen /\ frameAge < AliveLimit

\* Mutated form: the first restart is for TCP, and so is every other one.
NextUrlTcp == "tcp"

\* Mutated form: the parameter is never added.
NextUrlPlain == "plain"

\* TCP once after a start(), and from then on the plain URL.
NextUrl == IF triedTcpParam THEN "plain" ELSE "tcp"

\* checkStreamAlive(): on a silent stream the player is stopped, given the next URL
\* and started.
CheckStreamAlive ==
    /\ watchdog = 0
    /\ watchdog' = WatchPeriod
    /\ \/ Alive /\ UNCHANGED <<playerVars, triedTcpParam>>
       \/ ~Alive /\ Play(NextUrl) /\ triedTcpParam' = TRUE
    /\ UNCHANGED <<seen, frameAge, frames, source>>

Served == playing /\ opened /\ url \in source
Flowing == ready = StartUp

\* A tick of the clock: one more frame of a stream that flows.  The event loop
\* has run what was posted and due before.
StreamTick ==
    /\ watchdog # 0 /\ ~frames
    /\ watchdog' = IF watchdog = Off THEN Off ELSE watchdog - 1
    /\ frameAge' = Aged(frameAge)
    /\ \/ /\ Served
          /\ ready' = IF Flowing THEN ready ELSE ready + 1
          /\ UNCHANGED opened
       \/ /\ ~Served
          /\ opened' \in {FALSE, opened}
          /\ UNCHANGED ready
    /\ frames' = (ready' = StartUp)
    /\ UNCHANGED <<url, playing, triedTcpParam, seen, source>>

\* The source comes, goes or changes; what it no longer serves is closed.
SourceChanges ==
    /\ source' \in (SUBSET Transports) \ {source}
    /\ IF url \in source \ source'
       THEN opened' = FALSE /\ ready' = 0
       ELSE UNCHANGED <<opened, ready>>
    /\ UNCHANGED <<url, playing, watchdog, triedTcpParam, seen, frameAge, frames>>

StreamTypeOK ==
    /\ url \in Transports \cup {None} /\ opened \in BOOLEAN /\ playing \in BOOLEAN
    /\ ready \in 0 .. StartUp
    /\ watchdog \in 0 .. Off /\ triedTcpParam \in BOOLEAN /\ seen \in BOOLEAN
    /\ frameAge \in 0 .. Old /\ frames \in BOOLEAN /\ source \subseteq Transports
=============================================================================
