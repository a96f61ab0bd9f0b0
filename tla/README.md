# Verification of qt_rtsp

qt_rtsp is a pair of programs for trying out a video-and-telemetry link.
`sim_server` pushes a video to an RTSP server through ffmpeg and sends detection
and GPS frames over TCP; `qt_client` shows both, raises an alert, stores what
arrives in SQLite and records the video.  This directory holds TLA+ models of
their concurrent and stateful parts, the TLC configurations that check them, and
TLAPS proofs of the most important properties.  Source paths are relative to
`src/src/`; the documents are `src/README.md` and `src/PROGRESS.md`.

## 1. Inventory

| Part | State | Operations | Talks to |
|---|---|---|---|
| `RtspLauncher` (server/media) | `mu_`, `child_pid_`, ffmpeg processes | `start`, `check_alive`, `stop` | the kernel (fork, waitpid, kill) |
| RTSP supervisor (server/app/main.cpp) | `g_running`, `g_rtsp`, backoff, status | `run_rtsp_loop`, `main`, `on_signal` | one launcher, a local of the loop, called by three callers |
| `TcpSimServer`, `run_tcp_loop` | `g_tcp_server`, `running_`, `listen_fd_`, sockets | `run`, `stop`, the retry loop | clients, other listeners, ffmpeg processes that inherit descriptors |
| frames (common/protocol, common/msg) | none | a length and a payload | server to client over TCP |
| `TcpClientWorker` (client/network) | `running_`, timer, socket, `buf_` | `start`, `stop`, the socket's and timer's slots | queued calls from the window, queued signals to it |
| main window, connection | `tcpConnected_`, `rtspConnected_`, `responseBound_`, lamps, blink timer | start and stop buttons, telemetry, frames, state changes | `TcpClientWorker`, `StreamWorker` |
| main window, storage | form, `config_`, `lastPkt_`, `lastFrameImage_`, `alertActive_` | start, stop, save, packets, frames, capture, refresh, destructor | database and recorder threads, by queued and by blocking calls |
| `SQLiteDatabaseService`, `AppRepository` | connection, the database file | `initialize`, `loadConfig`, `queryEvents` and the queued inserts and saves | SQLite |
| `RecordWorker` (client/media) | running, counters, names; directories, videos | `start`, `stop`, `enqueue` | the file system, ffmpeg |
| `StreamWorker` (client/media) | player, watchdog, `triedTcpParam_`, `lastFrameTsMs_` | `start`, `stop`, frames, watchdog | QMediaPlayer, the RTSP source, the window |
| `ServerOptions` (server/app/main.cpp) | the options | `parse_options`, what `main` makes of them | everything in the server |
| detections (server/network) | class map, label file | `loadClassMap`, `loadYoloObjects`, the simulation | another program that writes the files; the alert of the window |
| playback and log pages, themes, paths, media_core, build | display or sequential | | |

What is hard here:

* *signals*: `on_signal` takes a mutex and stops both subsystems on top of
  whatever thread it interrupted, and `main` does the same a moment later;
* *processes*: ffmpeg may end at any moment; between `fork` and the store of its
  pid nobody else knows of it;
* *descriptors*: the listening socket is closed by `run` and by `stop`, and each
  `fork` copies what is not yet `FD_CLOEXEC`;
* *lifetime*: `g_rtsp` and `g_tcp_server` are tested by one thread while another
  ends what they point to;
* *retries*: exponential backoff (RTSP), a fixed interval (TCP), a single-shot
  timer (client);
* *time*: a watchdog, the frames and the packets each have a period of their own, and
  two lamps and the restarts of the player depend on how they fall;
* *files of somebody else*: labels are read for every frame, the class map for every
  connection, while both may be rewritten;
* *queues*: calls and signals of the client cross each other; three calls block the
  window; the last save is posted just before the threads are told to quit;
* *crash and failure*: nothing in the client is a transaction; every statement,
  picture and composition may be the last one or fail.

What makes each part correct: no ffmpeg process is lost, doubled or left behind;
no descriptor leaks and no double close happens outside a shutdown; every failure
is retried and every stop comes through; frames arrive in order; the workers obey the
buttons and the lamps show what they stand for; a live stream is left alone and a silent
one brought back; the alert follows its rule from the label file on; stored rows refer to one
another and stay in order; a recording holds one session.

`PROJECT.json` lists the hazards with their lines and the properties about them.

## 2. Modules

| Module | Models | Composition |
|---|---|---|
| `RtspLauncher` | the launcher, one step per lock, fork, waitpid, kill | extended by the next |
| `RtspSupervisor` | loop, main, handler | composes launcher and callers |
| `PusherContract` | what a user of the launcher may rely on | abstract specification, refined by `RtspSupervisor` |
| `TcpSimServer` | server, its supervisor, `stop`, clients, forks | |
| `TcpClientWorker` | the worker, one action per event of its thread | extended by the next |
| `TelemetryClient` | the window's buttons and TCP lamp, two queues | composes worker and window |
| `FrameStream` | bytes, `buf_`, the parsing loop | |
| `FrameChannel` | frames arrive in order | abstract specification, refined by `FrameStream` |
| `ServerOptions` | the command line, word by word | extended by the next |
| `Detections` | class map, label file, simulation, alert rule: operators only | extended by the next |
| `TelemetryPath` | the files, the send loop, the alert | composes `FrameStream` and `Detections` |
| `StreamWorker` | player, frames, watchdog, with the source and the clock | extended by the next |
| `LiveView` | buttons, RTSP and binding lamp | composes window and `StreamWorker` |
| `WorkerThreads` | the queue and the end of a QThread | extended by the next two |
| `SQLiteDatabaseService` | the database worker, one action per statement | |
| `RecordWorker` | the recorder | |
| `ClientStorage` | the window's handlers, several runs of the program | composes window, database and recorder |
| `RtspSupervisor_proofs`, `TcpSimServer_proofs`, `TelemetryClient_proofs`, `FrameStream_proofs`, `TelemetryPath_proofs`, `LiveView_proofs`, `ServerOptions_proofs`, `ClientStorage_proofs` | | proofs |
| `MC*` | | values of the constants for TLC |

### How they correspond to the code

**Server.**  A variable stands for each global and member (`running` is
`g_running`, `childPid` is `child_pid_`, `flag` is `running_`, `listenFd` says
whether `listen_fd_` holds the descriptor), and `pc`, `tpc` and `spc` for the
place each thread or handler is at.  Everything between two accesses to shared
state is one action; a critical section is two (take `mu_`; body and release), so
that a handler can interrupt its holder.  In `RtspSupervisor`, `host[h]` is the
thread that runs handler `h`: it does not move until the handler is done, which is
what makes a self-deadlock possible.  In `TcpSimServer`, `stop` takes no lock, so
handlers simply interleave; a descriptor, the socket behind it and the copies that
ffmpeg inherited (`heirloom`) are kept apart.

Two uses of an object after its end are undefined: `stop` on the launcher after
`run_rtsp_loop` returned, and `stop` on a server that `run_tcp_loop` deleted.
Each becomes a choice between going on as if the object were intact and a step
to `"undefined"`, where nothing more is promised.

**Client connection.**  An action is one event of the worker's thread: a queued
call, the timer, or an event of QTcpSocket, with the signals emitted in its course.
`calls` and `news` are the two queues.  QTcpSocket is external and modelled by what
the worker sees of it; the heading of `TcpClientWorker` lists the assumptions, the
important one being that `disconnected()` is emitted only by a socket that was
connected.

**Frames.**  A byte is named by its frame and place.  Once a frame is cut in the
wrong place its bytes may be read as any length in `Garbage` and as any message,
since their values are left out.

**From the label file to the alert.**  A label file is the set of its usable lines,
a class map file a partial function; what `stoi` and `stod` read from a word is the
table `Number`.  `content` is a history variable: the file and the class map each
frame was made from, so that the alert can be compared with what the files said when
they were read, and not with what they say by then.

**Live page.**  `StreamWorker` lives in the window's thread, so an action is a whole
slot with the signals it emits.  Time passes in ticks: frames, packets and the timer
that are due are handled before the next one.  QMediaPlayer and the source are
external and assumed to behave as Qt 6 does: `setSource()` stops the player and opens the
URL, unless it is the one the player has; then it only stops and returns, and `play()`
goes on with what was opened before (`opened`).  While the source serves that
transport the first frame comes `StartUp` ticks later and then one every tick.  A source
that goes, or that is waited for in vain, closes what was opened, and the player does not
open it again by itself.  The URL is taken to be an `rtsp` one, which alone gets the parameter, and the
wall clock, which `lastFrameTsMs_` uses, not to jump.

**Storage.**  `queue["db"]` and `queue["rec"]` are the posted calls.  `disk`,
`frameDirs`, `videos` and `meta` survive the end of the program; everything else is
set back by `Off`, which `ThreadsJoined` (an orderly end) and `Crash` (any other)
share.  `migrate()` drops the table of events at each start (`DropEvents`); no property of
the run `storage` needs it to: `since` is the time the last run ended, and what is said of
the events page is said of the events of this run (`OfThisRun`).  A blocking call is a posted call and a `life` of the window in which it
does nothing but wait for `reply`.  `inputs` is also the clock: a packet's `at` is
the input it was, and `eventTo` is compared with it.  `threshold` in a packet
records `alertThreshold_` as evaluated; it, `since`, `captures` and `asked` are history
variables.

A thread's loop, as Qt writes it, runs what is queued, looks at `quit`, and sleeps.
`loop[t]` is `"drain"` from the first call of a batch to the last; the loop may end
only from `"idle"`.  A call posted in the gap between the last look at the queue and
the look at the flag is never run, so the save the destructor posts may be lost.

Definitions called *mutated form* are not part of the model: each is a faulty
version of the definition after it, and shows which property would notice.

## 3. Runs

| Run | Question | Bounds | States |
|---|---|---|---|
| `rtsp` | Can two signals, main and the loop lose, double or orphan an ffmpeg? Does a signal end the process, is every failure retried, is the contract kept? | 2 signals, 2 forks, 1 poll | 418 k |
| `rtsp_failures` | Does `--require-rtsp` exit, or at least a repeated exit of ffmpeg back off? **Neither** | no signal, 2 forks | |
| `tcp` | Leaks, double closes, retries; does `stop` end `run`, and a signal the process? | 2 signals, 1 waiting client | 210 k |
| `tcp_inherit` | Is a socket never inherited by ffmpeg? **No** | no signal | |
| `client` | Do worker, queues, timer and lamp agree? | 3 calls and 6 signals under way | 15 k |
| `client_documents` | Does a lit TCP lamp mean a connection, or at least a client without one try again? **Neither** | 2 calls, 2 signals | |
| `stream` | Do frames arrive in order, over any portions and losses, and does the alert say what the files said? Does the order of the options matter? | 3 frames of 1 or 2 bytes, 2 losses, 5926 command lines, 2 of them served | 188 k |
| `stream_documents` | Is a length always read at a frame's start, or at least the alert raised for a person and a rod only? **Neither** | 3 frames, 1 loss | |
| `storage` | Are database, recordings and window consistent? | eight plans, below; a query returns 2 rows | 593 k |
| `storage_documents` | Is the alert threshold persisted, or at least the table of events? **Neither** | a change, a frame and a snapshot, then a second run | |
| `live` | Does the watchdog leave a live stream alone and bring a silent one back; is the binding lamp right? | one tick is a second | 23 k |
| `live_documents` | Does the RTSP lamp go out with the stream, or at least a silent stream get opened again? **Neither** | as `live` | |

`IInv`, in the runs that list it, is the inductive invariant of its proofs, with the type invariant
as its first conjunct.

### What the runs that find a violation show

Each of these runs but `tcp_inherit` asks about two promises of the documents, or of the
program's own texts, at once: its property is their disjunction, `[]P \/ []Q` or the
like, so the one behaviour that refutes it refutes both.

* `rtsp_failures`: the usage text (server/app/main.cpp:63) says that the server exits if
  the pusher's start fails; the loop reports `FAILED_REQUIRED`, waits and retries for ever
  (`RequiredFailureExits`).  And README.md:89 and PROGRESS.md:188 promise an exponential
  backoff for an ffmpeg that ends in mid-run as well; line 273 doubles the wait for it, but
  line 264 has set it to the minimum at the start before, so it never grows
  (`MidRunExitsBackOff`): only starts that fail, and exceptions, back off.
* `tcp_inherit`: `FD_CLOEXEC` is set by a second call; an ffmpeg forked by the other
  thread in between inherits the listening or the client's socket, which PROGRESS.md:199
  says it does not.
* `client_documents`: the state `"disconnected"` contains `"connected"`, so the loss of a
  connection lights the lamp and starts its blinking (`LampMeansConnected`).  And an attempt
  that fails emits `errorOccurred()` alone, which has no slot; the timer is armed by
  `disconnected()` only, so that a client started before the server never connects
  (`DownIsRetried`).
* `stream_documents`: `buf_` is not cleared on a reconnection; what was left of a frame is
  continued with the new connection's bytes (`LengthIsALength`; README.md:40).  And with the
  threshold at 0, which the spin box allows, a packet with neither person nor rod raises
  the alert, since an absent label counts as 0 and `>=` is the comparison
  (`AlertNeedsBoth`; README.md:94).
* `storage_documents`: `app_config` has no column for the threshold (`ThresholdIsPersisted`;
  README.md:97, PROGRESS.md:21).  And `migrate()` drops `snapshot_events` at every start
  (`EventsArePersisted`), which README.md:102-109 lists among the persisted tables.
* `live_documents`: the RTSP lamp, which PROGRESS.md:11 says shows whether RTSP is
  connected, is put out by the buttons alone and stays lit when the stream is lost
  (`LampMeansStream`).  And the watchdog, which reports a reconnection
  (client/media/stream_worker.cpp:67), sets the URL the player has already, from the second
  restart on: with the assumption about `setSource()` above, a stream that was closed is not
  opened again though its source is back (`SilentIsReconnected`).

### Why the bounds are enough

* Two signals are the least with which a handler interrupts a handler, or meets the
  mutex held by the thread it runs on.  A second fork is the first restart.  The
  polls of `start` and `stop` (8 and 20 in the code) only repeat a test: one poll
  has the outcomes "seen" and "not seen", two have "seen later".
* One waiting client is the difference between an `accept` that returns and one that
  blocks; the server serves one client at a time.
* Two signals are the most one event of the worker emits.  Three calls are enough for
  start, stop, start to be under way together.
* One tick of `live` is a second: the watchdog's period is 3, its limit 4 (3.5 s: the
  first whole second that is too old), the pairing limit 5, the first frame 2 ticks after
  `play()`.
  `Old`, 5, is the age from which no comparison can tell more.  A start that takes as
  long as the watchdog's period or longer is outside `live` (section 5).
* Frames of one and two bytes behind a header of four give every way to split a frame
  over two portions and to have two in one; two losses give a second torn frame.  A
  label file is empty or has a label twice and one known by the class map alone, in
  another spelling; the threshold is 0 or the default (`AlertIsTheRule` is about those above 0,
  `AlertNeedsBoth` about all).  Command lines have two or
  three words, two options, or three waits with values in and out of the bounds; of
  the servers they start, the two of `Served` go on: with the simulation, and with files.
* The plans of `storage` split its questions (`storage_documents` has one of its own):
  each bounds the inputs to those its
  part reacts to.  `Alerts`: a frame, packets and a change of the threshold before a
  capture.  `Queries` and `Ranges`: a snapshot and a refresh, within the page's range
  or later, with and without a packet, and the next run.  `Many`: more snapshots than the
  `RowLimit` of a query, 2 here and 300 in the code.  `Faulty`: one failure
  anywhere and a second run.  `Configs`: saves by button, start and destructor, one
  failure, and what the next run loads.  `TwoVideos`, `OneVideo`: two recorded
  sessions, or one that is stopped twice, with a failure.  In every plan the program
  may be killed at every state.  `FrameEvery` and `MetaEvery` are 1 and 2 instead of
  2 and 15: one picture in one, one line in two, so that few frames reach both.

`rtsp*`, `tcp*`, `stream*` and `storage*` set `CHECK_DEADLOCK FALSE`: there the
system may stop (main has exited, all frames have arrived, the plan is used up;
with two signals, `mu_` may be waited for by its holder's handler).

### Fairness

* Server: weak fairness of every thread and handler: the scheduler runs what can
  run, sleeps end.  None of signals, clients or ffmpeg, except that in
  `TcpSimServer` a client that stopped reading reads again or leaves (`ClientReads`).
  `StopEndsRun` and `ShutdownCompletes` need it: nothing but the peer ends a blocking
  `send()`, and without this fairness TLC finds the shutdown that waits for one that is
  alive and never reads.  Exceptions come before `send()`, never out of it
  (`ServeThrows`), and a failing `accept()` on a socket that listens
  (`AcceptInterrupted`) is not fair, so no property leans on either.
* Client connection: weak fairness of the window's loop, strong fairness of the
  worker's events.  Strong, because the bound on `news` disables them from time to
  time, which the real queue does not; `Attempt` is fair since connecting succeeds or
  fails in the end.
* Frames: what is on the wire is delivered and parsed (`Collect`, `Receive`, `Wait`);
  the server need not send.
* Live page: the event loop runs frames, packets and the timer that are due, and time
  passes.  Buttons, source and packets are not fair; the properties name what they
  assume of them (`NoMoreStarts`, `"plain" \in source`).  `SourceUpIsShown` also
  names the way in which a source that stays up is not shown, `ClosedForGood`.
* Storage: the window's and both workers' loops run.  The user and `Crash` are not
  fair.

`ShutdownCompletes` of the RTSP side says that a signal ends the process, except in
two ways that it names: `SelfDeadlock`, in which the second signal's handler runs on a
thread that holds `mu_`, directly or in the first handler, and waits for it for ever
(server/app/main.cpp:190); and a `stop` that outlived the launcher.  That of the TCP
side names two as well: a `stop` on the deleted server, and `StopLost`: every `stop`,
`main`'s own included, came between the test of `g_running` (main.cpp:194) and
`running_ = true` (tcp_sim_server.cpp:102), and `main` waits in `join`.  All four are
reachable; the properties say that there is no fifth.

## 4. Proofs

The `_proofs` modules are checked by tlapm for every value of the constants that
satisfies the named assumptions: any number of handlers with names of their own, any
natural numbers of forks, polls and clients, `0 < RetryMin <= RetryMax`; any natural
bounds of the queues; any frames with a payload, any number of losses; any intervals of
watchdog and limits with `0 < StartUp`, `1 < WatchPeriod` and `1 < AliveLimit <= Old`; any
command lines, any label and class map files with finitely many lines, any thresholds
that are not negative (`PathAssumption`), numbers read as integers (`NumberAssumption`);
any plans, detections, limit of a query
(`StorageAssumption`, `StoreAssumption`) and intervals of pictures and lines
(`RecordAssumption`).
Where a run checks `IInv`, so do the proofs, in three facts: `Init` implies it, every
step keeps it, and it implies the property.

**RTSP supervisor.**  `TypeCorrect`, `Invariant` (`IInv`), `PusherIsKnown`,
`PusherIsAlone`, `NoPusherLost` (`NoOrphan`) and `Implementation` (`PusherContract`).

`NoOrphan` is not inductive.  The danger is the last line of `stop`, which sets
`child_pid_` to -1 unconditionally: were a new pid stored there meanwhile, it would
be forgotten.  What rules this out is a chain over three actors, which `IInv` states:

1. a caller other than the RTSP thread enters `stop` only when `g_running` is false
   (`StoppersComeLate`), and it is never set again;
2. while such a caller holds a pid, the RTSP thread is not on its way to a `fork`
   (also `StoppersComeLate`): it had a pusher then, and does not go round its loop
   again;
3. so a pid someone holds is still the one in `child_pid_`, or that is -1
   (`HeldPid`), and whoever clears it has reaped it (`ClearedIsReaped`);
4. outside the part of the loop that watches a pusher there is none
   (`NoPusherYet`), so that the end of the loop leaves none.

The refinement maps the live
processes to the contract's, and uses the invariant to show that a new one comes
only when there is none, and none once the loop has returned.

**TCP server.**  `TypeCorrect`, `Invariance`, `NoLeak` (`NoDescriptorLeak`),
`RaceNeedsShutdown` (`RaceOnlyInShutdown`) and `Listens`.  The argument is ownership: an
open descriptor of the listening socket belongs to `run` between `socket()` and the
store, to `listen_fd_` after it, or to the `stop` that exchanged it for -1 and has not
closed it yet (`DescriptorHasOwner`); and until a signal comes no `stop` is under way,
so nothing disturbs what `run` set up (`Undisturbed`).

**Client connection.**  `TypeCorrect`, `Invariant` (`IInv`), `StoppedStaysDown`,
`LastButtonObeyed`, `ConnectionIsShown` and `LostIsRetried`.
Worker and window meet only through the queues, so the invariant says what the
queues will make of them: the last call under way is the last button's
(`CallToCome`), and the last signal under way decides the lamp (`LampToCome`); when a
queue is empty these become the properties.

**Frames.**  `Invariant`, `Implementation` (`FrameChannel`) and `Aligned`.  `Framed`
says of `buf \o wire` that from each byte on the rest of its frame follows, and behind
that the first byte of the next, up to the last frame sent.  It speaks of places only,
so no induction over frames is needed: a frame sent is appended (`FramedAppend`), a
portion read moves the border between `buf` and `wire` (`ReadMoves`), and a frame cut
off leaves the same behind (`FramedTail`).  While it holds, four bytes of `buf` can only
be read as the length of the first frame, and its payload as that frame
(`ReadRight`), which makes `CutFrame` the channel's `Deliver`.  A connection lost
between two frames leaves nothing, which is framed; one lost within a frame sets `torn`,
and nothing is promised any more.  `TelemetryPath_proofs` shows that the composition
with files and window is a behaviour of `FrameStream` and keeps all this.

**From the label file to the alert.**  `PathTypeCorrect`, `AlertRight`
(`AlertIsTheRule`) and `Order` (`OrderIsIrrelevant`).  `PathTypeOK` says that every frame
sent has its contents in `content` and that they are contents the files can have.  With
it a payload that is a frame's is made of finitely many objects with a number for the
confidence; the names they carry are spelt as the class map's file means them
(`NameMeant`), so the objects say what the two files said (`ObjectsSay`), and the best
confidence, the maximum of a finite set and 0, reaches the threshold exactly when an
object does or the threshold is 0 (`ConfidenceMeets`): above 0 that is the rule of the
documents.

**Live page.**  `TypeCorrect`, `Invariance`, `Stopped` and `LeftAlone`.
`LeftAlone` is the subtle one: a flowing stream has a fresh frame (`FreshFlow`), except
in the tick its first one is under way, and then the age the watchdog looks at is tied
to its own countdown (`FrameSeen`).

**Options.**  `ClampInRange`: whatever integers the bounds at the end of `parse_options()`
are given, the waits come out at least 100 ms and the bounds of the backoff in order, which
is what the RTSP proofs assume of `RetryMin` and `RetryMax`.  `OptionsInRange`: every
command line, understood or not, leaves numbers where numbers are asked for, so these
bounds hold for all of them.  `PartsMaySwap`: if a command line is accepted and its first
part is complete in itself, begins with an option and shares none with the rest, the two
parts may change places: `Order` applies it at each place of `argv`.

The loop over `argv` is a recursive function (`Parsed`), whose values after 0, 1, 2, ...
words are the states of the loop (`TraceSteps`).  The two theorems need induction over
them, which the library offers only with an operator as parameter.  It is got from a
theorem that has none, the well-foundedness of the strict subset relation on the subsets
of a finite set: from it follow that a finite set of integers has a maximum
(`MaxOfFinite`), and that a set which contains 0 and with each number below `n` the next
one contains all up to `n` (`CountingUp`).  Each induction is then
about the set of the numbers of words after which its hypothesis holds: that the state is
well formed (`ParseOK`); that two loops over the same words, begun in different states, are
alike (`Alike`): each option they have both from these words, or both from where they began.
So a part of the command line does the same wherever it stands.

**Storage.**  `Invariant` (`IInv`), `NoDangling` (`NoDanglingReference`), `Targets`
(`TargetsMeetTheRule`), `Order` (`RowsInArrivalOrder`), `LastSave` (`LastSaveWins`),
`Videos` (`VideoIsOneSession`), `VideosKeep` (`VideosKeepTheirSession`) and `Refresh`
(`RefreshShowsCaptures`).  What is stored is decided when a call is posted and happens
statements later, so every part of the invariant follows its subject through the queue:

1. the window waits for one call at most, and that is the last in the queue; its answer
   finds the queue empty (`CallsAreAwaited`).  So nothing is posted behind a query before
   the window has seen its result;
2. between two statements of a call, the row inserted is the last one and holds the call's
   packet, and no event refers to it yet (`CallIsUnderWay`): the event inserted next
   refers to its own row, and if it is never inserted, nothing does;
3. no packet is later than the present, and rows, queued packets and the last packet are
   in the order of arrival (`PacketsArrived`, `ArrivalsInOrder`);
4. the alert and each queued snapshot agree with the rule for their packet, whatever the
   threshold has become since (`AlertsMeetTheRule`);
5. a queued save is the newest one or has a newer one behind it (`SavesInOrder`);
6. once the start of a run has got through without a failure its tables are there
   (`TablesAreThere`), and what this run receives and stores is later than `since`, when
   the last one ended (`RunIsLater`);
7. without a failure, for every period, the captures are as many as the events of this run
   and the queued snapshots together (`CapturesAreCounted`): the call that takes one snapshot off
   the queue adds one event to the set, never one it held, since each event refers to a
   row of its own;
8. a session has its directory and video to itself while it runs and while ffmpeg
   composes (`SessionsAreApart`).

`Refresh` then counts: with an answer there and the queue empty, the events of this run are
as many as the captures, and those the query returns are the newest; events of earlier
runs, if there were any, are older and come after them (`RefreshIsExact`).  The proof does
not use that `migrate()` drops them.

**Model-checked only.**  The liveness properties: `ShutdownCompletes` and
`FailureIsRetried` (RTSP and TCP), `StopEndsRun`, `StopBringsDown`, `EveryFrameArrives`,
`WindowIsNeverStuck`, `SourceUpIsShown`, `TcpOnlyIsShown` and `BothFlowingIsBound`.
Liveness under fairness is out of the prover's reach.  Every other property of a passing
run is a theorem's; those that a run refutes are nobody's.

## 5. Not modelled

* `app_logs` and the log page: written and displayed only.  Log calls share the
  database's queue, and are left out of it.
* Playback page, themes, menus, layout: presentation.
* Paths and the copy of a legacy database: one copy before the threads start.
* The handler of fatal signals in the client, its environment variables: it writes a
  line and exits; the end of the process at any moment is in the model.
* Boxes, GPS and times of a frame, and `--fixed-msg`, which only moves the boxes: no
  rule reads them.
* media_core: a wrapper of one command, linked to neither program.
* In what is modelled: the fields of a packet beyond its two best confidences; the
  several objects of one packet are one detail, inserted or not; the reason field of
  the events page (empty); names of more than one half-hour bucket; reuse of pids; a
  partial `send`.

Some behaviour is in the models and breaks no stated property, yet a reader should
know it.

* *Lamps.*  A frame that was under way when the stop button was pressed lights the RTSP
  lamp again.
* *Watchdog.*  `triedTcpParam_` is set back by `start` only.  A source that serves only
  TCP is shown after a start and lost for good after its first interruption; a source
  whose first frame takes the watchdog's 3 s or longer is restarted before it comes, for
  ever.
* *Alert.*  An empty label file, as an editor leaves it for a
  moment, is replaced by the simulated person and rod, which raise it at any threshold up to
  0.88.
* *Options.*  A port of 70000 is taken as 4464; `--help` ends the program even as the
  value of an option.
* *Server.*  An exception while a client is served leaves that client's descriptor open.
* *Storage.*  A load that failed is followed
  by a save of the defaults at exit; the start button saves a configuration without the
  window's geometry; a packet that triggers a snapshot is stored twice; each stop
  composes the video anew over the old file; the events page shows nothing later than
  60 s after the start unless its range is edited.

## 6. Plan

Done: RTSP supervisor; TCP server; client connection; frames, with the options, the label
files and the alert; live page; storage; proofs of every safety property the runs check.

Next:

1. An abstract archive (what was captured, what is shown) that `ClientStorage` refines, from
   the invariant that is proved.
2. Both supervisors under one signal handler: `on_signal` stops the TCP server and
   then the launcher, and the TCP thread may be the host.
3. `RecordWorker`: names across a change of the half-hour bucket, and an abstract
   recording (sessions and their videos) that it refines.
4. The live page with the whole of `TelemetryClient` in place of the packets it posts.

New questions go into existing runs where the constants allow.
