--------------------------- MODULE ClientStorage ---------------------------
(***************************************************************************)
(* What the client keeps: the main window, its database worker and its        *)
(* recording worker, through several runs of the program.  The window's        *)
(* handlers run to their end one after the other; they post calls to the two   *)
(* threads, and wait for the answer of three of them: initialize(),            *)
(* loadConfig() and queryEvents().                                          *)
(*                                                                         *)
(* Bounds: a behaviour follows one of the Plans: plan.inputs buttons, edits,     *)
(* packets and frames, of the kinds in plan.only, plan.runs starts of the     *)
(* program, plan.faults failures, and plan.minute inputs within the 60 s after  *)
(* a start that the events page shows unless its range is edited.            *)
(***************************************************************************)
EXTENDS SQLiteDatabaseService, RecordWorker

CONSTANTS
    Detections,  \* [person, rod]: the best confidence of each, 0 when absent
    Thresholds,  \* values of the threshold's spin box
    Plans        \* bounds: [inputs: number, only: which, faults, runs, minute: numbers]

ASSUME StorageAssumption ==
    /\ Detections \subseteq [person : Nat, rod : Nat]
    /\ Thresholds \subseteq Nat /\ DefaultThreshold \in Thresholds
    /\ \A p \in Plans : {p.inputs, p.faults, p.runs, p.minute} \subseteq Nat

VARIABLES
    life,        \* what the main window is doing
    ui,          \* the values of the form (geometry: of the window)
    config,      \* config_
    lastPkt, alertActive,
    hasFrame,    \* lastFrameImage_ is not null
    captured,    \* lastAutoCaptureMs_ > 0
    eventTo,     \* the end of the events page's range
    runs,
    since,       \* the clock when the last run ended: what this run brings is later
    asked,       \* thresholds of the configurations saved, in order
    captures     \* the packets of the snapshots posted in this run of the program

windowVars == <<life, ui, config, lastPkt, alertActive, hasFrame, captured, eventTo>>
countVars == <<inputs, runs, since, asked, captures>>
vars == <<threadVars, storeVars, recordVars, windowVars, countVars, faults, plan>>

\* at: its arrival; threshold: alertThreshold_ when it was evaluated.
NoPacket == [at |-> 0, person |-> 0, rod |-> 0, threshold |-> 0]

\* Everything that is lost when the program ends, however it ends, the calls that
\* were not run included.
Off ==
    /\ life' = "off" /\ ui' = DefaultConfig /\ config' = DefaultConfig
    /\ lastPkt' = NoPacket /\ alertActive' = FALSE
    /\ hasFrame' = FALSE /\ captured' = FALSE /\ captures' = <<>> /\ eventTo' = 0
    /\ queue' = Idle /\ loop' = AllAt("off") /\ quit' = FALSE
    /\ open' = FALSE /\ stmt' = "idle" /\ row' = 0 /\ reply' = NoReply
    /\ rec' = Stopped /\ ffmpeg' = FALSE
    /\ asked' = SubSeq(asked, 1, disk.config.no) /\ since' = inputs
    /\ UNCHANGED <<disk, faults, plan, frameDirs, videos, meta, inputs, runs>>

Init ==
    /\ StoreInit /\ RecordInit
    /\ life = "off" /\ ui = DefaultConfig /\ config = DefaultConfig
    /\ lastPkt = NoPacket /\ alertActive = FALSE /\ hasFrame = FALSE /\ captured = FALSE
    /\ inputs = 0 /\ runs = 0 /\ since = 0 /\ asked = <<>> /\ captures = <<>> /\ eventTo = 0
    /\ queue = Idle /\ loop = AllAt("off") /\ quit = FALSE /\ faults = 0 /\ plan \in Plans

WorkersUnchanged == UNCHANGED <<storeVars, recordVars, faults, plan>>

\* The constructor, up to and with the two calls it waits for.
Launch ==
    /\ life = "off" /\ runs < plan.runs
    /\ runs' = runs + 1 /\ life' = "init" /\ eventTo' = inputs + plan.minute
    /\ loop' = AllAt("idle")
    /\ queue' = Posted(queue, "db", <<[op |-> "init"]>>)
    /\ WorkersUnchanged
    /\ UNCHANGED <<quit, ui, config, lastPkt, alertActive, hasFrame, captured, inputs,
                   since, asked, captures>>

\* A migration that failed is logged, and the configuration loaded all the same.
Initialized ==
    /\ life = "init" /\ reply # NoReply
    /\ life' = "load" /\ reply' = NoReply
    /\ queue' = Posted(queue, "db", <<[op |-> "load"]>>)
    /\ UNCHANGED <<disk, open, stmt, row, faults, plan, recordVars, loop, quit, ui, config,
                   lastPkt, alertActive, hasFrame, captured, eventTo, countVars>>

ApplyConfigToUi ==
    /\ life = "load" /\ reply # NoReply
    /\ life' = "running" /\ reply' = NoReply
    /\ config' = reply.cfg /\ ui' = reply.cfg
    /\ UNCHANGED <<disk, open, stmt, row, faults, plan, recordVars, threadVars, lastPkt,
                   alertActive, hasFrame, captured, eventTo, countVars>>

\* A user action or something that arrives.
InputOrFault(kind) ==
    /\ life = "running" /\ inputs < plan.inputs /\ kind \in plan.only
    /\ inputs' = inputs + 1
    /\ UNCHANGED <<storeVars, recordVars, plan, loop, quit, runs, since>>
Input(kind) == InputOrFault(kind) /\ UNCHANGED faults
WindowKeeps == UNCHANGED <<lastPkt, alertActive, hasFrame, captured, captures>>

Edit ==
    /\ Input("edit")
    /\ \/ ui' = [ui EXCEPT !.record = ~@] /\ UNCHANGED eventTo
       \/ \E t \in Thresholds \ {ui.threshold} : ui' = [ui EXCEPT !.threshold = t]
          /\ UNCHANGED eventTo
       \/ eventTo' = plan.inputs /\ UNCHANGED ui
    /\ WindowKeeps /\ UNCHANGED <<life, config, queue, asked>>

Query == [op |-> "events", to |-> eventTo]

Save(cfg) == [op |-> "config", cfg |-> cfg, no |-> Len(asked) + 1]

\* The form has no geometry.
CollectConfigFromUi == [ui EXCEPT !.geometry = FALSE]

OnStartAll ==
    /\ Input("start")
    /\ config' = CollectConfigFromUi
    /\ asked' = Append(asked, ui.threshold)
    /\ queue' = Posted(Posted(queue, "db", <<Save(config'), Query>>),
                       "rec", IF config'.record THEN <<[op |-> "start"]>> ELSE <<>>)
    /\ life' = "refresh"
    /\ WindowKeeps /\ UNCHANGED <<ui, eventTo>>

OnStopAll ==
    /\ Input("stop")
    /\ queue' = Posted(queue, "rec", <<[op |-> "stop"]>>)
    /\ WindowKeeps /\ UNCHANGED <<life, ui, config, eventTo, asked>>

OnSaveConfig ==
    /\ Input("save")
    /\ config' = [CollectConfigFromUi EXCEPT !.geometry = TRUE]
    /\ asked' = Append(asked, ui.threshold)
    /\ queue' = Posted(queue, "db", <<Save(config')>>)
    /\ WindowKeeps /\ UNCHANGED <<life, ui, eventTo>>

Hit(pkt) == pkt.person >= ui.threshold /\ pkt.rod >= ui.threshold

Snapshot(pkt, reason, target) ==
    [op |-> "snapshot", pkt |-> pkt, reason |-> reason, target |-> target]

\* Mutated form: an alert stays until the program ends.
AlertLatched(pkt) == alertActive \/ Hit(pkt)
EvaluatePersonRodAlert(pkt) == Hit(pkt)

\* The last automatic capture may or may not be 2000 ms ago.
OnTelemetry ==
    /\ Input("telemetry")
    /\ \E d \in Detections :
        LET pkt == [at |-> inputs', person |-> d.person, rod |-> d.rod,
                    threshold |-> ui.threshold]
            store == [op |-> "telemetry", pkt |-> pkt]
        IN /\ lastPkt' = pkt
           /\ alertActive' = EvaluatePersonRodAlert(pkt)
           /\ \/ /\ alertActive' /\ hasFrame
                 /\ captured' = TRUE /\ captures' = Append(captures, pkt)
                 /\ queue' = Posted(queue, "db", <<Snapshot(pkt, "auto_event", TRUE), store>>)
              \/ /\ ~(alertActive' /\ hasFrame) \/ captured
                 /\ queue' = Posted(queue, "db", <<store>>)
                 /\ UNCHANGED <<captured, captures>>
    /\ UNCHANGED <<life, ui, config, hasFrame, eventTo, asked>>

\* A frame that cannot be mapped leaves the last picture and has none itself.
OnFrame ==
    /\ InputOrFault("frame")
    /\ \E image \in BOOLEAN :
        /\ IF image THEN UNCHANGED faults ELSE Fault
        /\ hasFrame' = (hasFrame \/ image)
        /\ queue' = Posted(queue, "rec",
                      IF config.record
                      THEN <<[op |-> "frame", image |-> image, at |-> lastPkt.at]>> ELSE <<>>)
    /\ UNCHANGED <<life, ui, config, lastPkt, alertActive, captured, eventTo, asked, captures>>

OnCaptureScreenshot ==
    /\ Input("capture") /\ hasFrame
    /\ queue' = Posted(queue, "db", <<Snapshot(lastPkt, "manual", alertActive)>>)
    /\ captures' = Append(captures, lastPkt)
    /\ UNCHANGED <<life, ui, config, lastPkt, alertActive, hasFrame, captured, eventTo, asked>>

OnRefreshEvents ==
    /\ Input("refresh")
    /\ queue' = Posted(queue, "db", <<Query>>)
    /\ life' = "refresh"
    /\ WindowKeeps /\ UNCHANGED <<ui, config, eventTo, asked>>

Refreshed ==
    /\ life = "refresh" /\ reply # NoReply
    /\ life' = "running" /\ reply' = NoReply
    /\ UNCHANGED <<disk, open, stmt, row, faults, plan, recordVars, threadVars, ui, config,
                   lastPkt, alertActive, hasFrame, captured, eventTo, countVars>>

\* The destructor: stop, save, quit the threads, wait for them.
Close ==
    /\ life = "running"
    /\ life' = "closing"
    /\ config' = [CollectConfigFromUi EXCEPT !.geometry = TRUE]
    /\ asked' = Append(asked, ui.threshold)
    /\ queue' = Posted(Posted(queue, "db", <<Save(config')>>), "rec", <<[op |-> "stop"]>>)
    /\ WorkersUnchanged /\ WindowKeeps
    /\ UNCHANGED <<loop, quit, ui, eventTo, inputs, runs, since>>

QuitThreads ==
    /\ life = "closing"
    /\ life' = "quit" /\ quit' = TRUE
    /\ WorkersUnchanged /\ WindowKeeps
    /\ UNCHANGED <<queue, loop, ui, config, eventTo, inputs, runs, since, asked>>

ThreadsJoined == life = "quit" /\ loop = AllAt("off") /\ Off

Crash == life # "off" /\ Off

DatabaseThread ==
    \/ ThreadEnds("db")
       /\ UNCHANGED <<storeVars, recordVars, windowVars, countVars, faults, plan>>
    \/ StoreStep /\ UNCHANGED <<recordVars, windowVars, countVars, plan>>
RecordThread ==
    \/ ThreadEnds("rec")
       /\ UNCHANGED <<storeVars, recordVars, windowVars, countVars, faults, plan>>
    \/ RecordStep /\ UNCHANGED <<storeVars, windowVars, countVars, plan>>
WindowStep == Initialized \/ ApplyConfigToUi \/ Refreshed \/ QuitThreads \/ ThreadsJoined
User ==
    \/ Edit \/ OnStartAll \/ OnStopAll \/ OnSaveConfig \/ OnTelemetry \/ OnFrame
    \/ OnCaptureScreenshot \/ OnRefreshEvents \/ Close

Next == Launch \/ WindowStep \/ User \/ DatabaseThread \/ RecordThread \/ Crash
Spec == Init /\ [][Next]_vars

\* Each thread keeps running while it has something to do.
FairSpec ==
    Spec /\ WF_vars(WindowStep) /\ WF_vars(DatabaseThread) /\ WF_vars(RecordThread)

-----------------------------------------------------------------------------
\* What the values may be.
Packets == [at : Nat, person : Nat, rod : Nat, threshold : Nat]
Reasons == {"auto_event", "manual"}
Forms == [record : BOOLEAN, threshold : Thresholds, geometry : BOOLEAN]
DbCalls ==
    [op : {"init", "load"}] \cup [op : {"events"}, to : Nat]
    \cup [op : {"config"}, cfg : Forms, no : Nat] \cup [op : {"telemetry"}, pkt : Packets]
    \cup [op : {"snapshot"}, pkt : Packets, reason : Reasons, target : BOOLEAN]
RecCalls == [op : {"start", "stop"}] \cup [op : {"frame"}, image : BOOLEAN, at : Nat]
EventRows == [row : Nat, ts : Nat, pkt : Packets, reason : Reasons, target : BOOLEAN]
ConfigRows == [record : BOOLEAN, geometry : BOOLEAN, no : Nat]
Replies ==
    [of : {"none"}] \cup [of : {"init"}, ok : BOOLEAN] \cup [of : {"load"}, cfg : Forms]
    \cup [of : {"events"}, rows : SUBSET EventRows]

Files ==
    [schema : SUBSET {"app_config", "telemetry", "detection_object", "gps", "snapshot_events"},
     telemetry : Seq(Packets), details : SUBSET (Nat \X {"detection_object", "gps"}),
     events : SUBSET EventRows, config : ConfigRows \cup {NoRow}]

FileTypeOK ==
    /\ disk \in Files /\ IsFiniteSet(disk.events)
    /\ open \in BOOLEAN /\ row \in Nat /\ reply \in Replies
    /\ stmt \in {"idle", "drop", "recreate", "detection_object", "gps", "event"}

RecorderTypeOK ==
    /\ frameDirs \in Seq(SUBSET Nat) /\ meta \in Seq(Nat)
    /\ videos \in Seq([dir : 1..Len(frameDirs), frames : SUBSET Nat])
    /\ rec \in [running : BOOLEAN, count : Nat, seq : Nat, dir : 0..Len(frameDirs),
                video : 0..(Len(videos) + 1)]
    /\ ffmpeg \in BOOLEAN

TypeOK ==
    /\ ThreadsTypeOK /\ FileTypeOK /\ RecorderTypeOK /\ plan \in Plans
    /\ queue["db"] \in Seq(DbCalls) /\ queue["rec"] \in Seq(RecCalls)
    /\ life \in {"off", "init", "load", "running", "refresh", "closing", "quit"}
    /\ config \in Forms /\ ui \in Forms /\ lastPkt \in Packets
    /\ alertActive \in BOOLEAN /\ hasFrame \in BOOLEAN /\ captured \in BOOLEAN
    /\ inputs \in 0..plan.inputs /\ eventTo \in 0..(plan.inputs + plan.minute)
    /\ runs \in Nat /\ asked \in Seq(Thresholds) /\ captures \in Seq(Packets)

\* A snapshot event refers to a row of telemetry that is there and holds the very
\* packet the snapshot was taken with, and no detail belongs to a missing row:
\* wherever the program ended and whichever statements failed before.
NoDanglingReference ==
    /\ \A e \in disk.events :
        e.row \in DOMAIN disk.telemetry /\ disk.telemetry[e.row] = e.pkt
    /\ \A d \in disk.details : d[1] \in DOMAIN disk.telemetry

\* An event is marked as a target when both confidences of the packet stored with it
\* reached the threshold in force when it arrived, and at no other time: for manual
\* snapshots too, which are taken later, by then perhaps with another threshold, and
\* stored later still.  An automatic one always is a target.
OnTarget(pkt) == pkt.at > 0 /\ pkt.person >= pkt.threshold /\ pkt.rod >= pkt.threshold
MeetsTheRule(s) == (s.target <=> OnTarget(s.pkt)) /\ (s.reason = "auto_event" => s.target)
TargetsMeetTheRule == \A e \in disk.events : MeetsTheRule(e)

\* Telemetry is stored in the order it arrived in, the copies made for snapshots
\* included (a snapshot taken before any packet stores an empty one).
NotBefore(a, b) == a.at <= b.at \/ b.at = 0
RowsInArrivalOrder ==
    \A i, j \in DOMAIN disk.telemetry :
        i < j => NotBefore(disk.telemetry[i], disk.telemetry[j])

\* A refresh shows every snapshot taken in this run of the program whose packet lies
\* in the range of the page, one row for each, unless something failed; while the range
\* reaches to the present those without a packet, too.  Of more snapshots than one query
\* returns it shows as many as that, the newest.  Events of earlier runs, if the table
\* has any, take no place from those of this run.
OfThisRun(events) == {e \in events : e.ts > since}
RefreshShowsCaptures ==
    life = "refresh" /\ reply # NoReply /\ faults = 0 =>
        LET shown == OfThisRun(reply.rows)
        IN  /\ Len(captures) <= RowLimit =>
                  /\ Cardinality({e \in shown : e.pkt # NoPacket})
                       = Cardinality({i \in DOMAIN captures : captures[i].at \in 1..eventTo})
                  /\ inputs <= eventTo => Cardinality(shown) = Len(captures)
            /\ Len(captures) > RowLimit /\ inputs <= eventTo =>
                  /\ Cardinality(shown) = RowLimit
                  /\ \A e \in OfThisRun(disk.events) \ shown, f \in shown : e.ts <= f.ts

\* The row of app_config holds the configuration saved last, unless its call is
\* still to run or something failed.
LastSaveWins ==
    \/ faults > 0
    \/ \E i \in DOMAIN queue["db"] : queue["db"][i].op = "config"
    \/ disk.config.no = Len(asked)

\* Two videos never come from one session, and a video holds nothing but the first
\* uninterrupted pictures of its session's directory (or is being written anew).
VideoIsOneSession ==
    \A n \in DOMAIN videos :
        /\ \A k \in DOMAIN videos : videos[k].dir = videos[n].dir => k = n
        /\ videos[n].frames \in {{}, Readable(frameDirs[videos[n].dir])}

\* A video file is never written over with the pictures of another session.
VideosKeepTheirSession ==
    [][\A n \in DOMAIN videos :
          n \in DOMAIN videos' /\ videos'[n].dir = videos[n].dir]_vars

\* The main window is never stuck: whatever it waits for comes.
WindowIsNeverStuck ==
    life \in {"init", "load", "refresh", "closing", "quit"}
        ~> life \in {"running", "off"}

\* README.md:97 and PROGRESS.md:21 say that the threshold is configurable and persisted:
\* the configuration loaded has the threshold that was saved.
ThresholdIsPersisted ==
    reply.of = "load" /\ disk.config # NoRow /\ faults = 0
        => reply.cfg.threshold = asked[disk.config.no]

\* README.md:102-109 has snapshot_events among the tables in which data persist: a
\* snapshot's event that was stored is there ever after.
Stored(n) == \E e \in disk.events : e.row = n
EventsArePersisted ==
    \A p \in Plans : \A n \in 1..p.inputs : [](Stored(n) => []Stored(n))

\* One of these two promises is kept.  A behaviour that refutes this refutes both.
StorageAsDocumented == []ThresholdIsPersisted \/ EventsArePersisted

-----------------------------------------------------------------------------
\* What makes the invariants above inductive; IInv puts it together.

\* The window waits for one call at most, the last one posted; before the two of the
\* constructor have been answered there is no other.
Blocking == {"init", "load", "events"}
Waiting == life \in {"init", "load", "refresh"} /\ reply = NoReply
AwaitedCall ==
    CASE life = "init" -> [op |-> "init"]
      [] life = "load" -> [op |-> "load"]
      [] OTHER -> Query
CallsAreAwaited ==
    /\ \A i \in DOMAIN queue["db"] :
          /\ queue["db"][i].op \in Blocking => Waiting /\ i = Len(queue["db"])
          /\ life \in {"off", "init", "load"} => queue["db"][i].op \in Blocking
    /\ Waiting => queue["db"] # <<>> /\ queue["db"][Len(queue["db"])] = AwaitedCall
    /\ reply # NoReply =>
          /\ life \in {"init", "load", "refresh"} /\ queue["db"] = <<>>
          /\ reply.of = (IF life = "refresh" THEN "events" ELSE life)
    /\ life = "off" => queue = Idle /\ reply = NoReply /\ captures = <<>> /\ stmt = "idle"
    /\ life = "init" => captures = <<>>

\* Between the statements of a call: the row inserted is its packet's and the last.
HasPacket(call) == call.op \in {"telemetry", "snapshot"}
Inserted == stmt \in {"detection_object", "gps", "event"}
CallIsUnderWay ==
    /\ stmt # "idle" => queue["db"] # <<>>
    /\ stmt \in {"drop", "recreate"} => Call.op = "init"
    /\ Inserted => /\ HasPacket(Call)
                   /\ row = Len(disk.telemetry) /\ row > 0 /\ disk.telemetry[row] = Call.pkt
                   /\ \A e \in disk.events : e.row < row
    /\ stmt = "event" => Call.op = "snapshot"

\* Only a packet that arrived has a time, and none is later than the present.
PacketOK(pkt) == pkt.at <= inputs /\ (pkt.at = 0 => pkt = NoPacket)
PacketsArrived ==
    /\ PacketOK(lastPkt)
    /\ \A n \in DOMAIN disk.telemetry : disk.telemetry[n].at <= inputs
    /\ \A i \in DOMAIN queue["db"] : HasPacket(queue["db"][i]) => PacketOK(queue["db"][i].pkt)
    /\ \A i \in DOMAIN captures : captures[i].at <= inputs
    /\ \A e \in disk.events :
          /\ e.ts <= inputs /\ (e.pkt.at = 0 => e.pkt = NoPacket)
          /\ e.pkt.at > 0 => e.ts = e.pkt.at

\* The rows stored, the packets queued and the last one are in order.
ArrivalsInOrder ==
    /\ RowsInArrivalOrder
    /\ \A n \in DOMAIN disk.telemetry : NotBefore(disk.telemetry[n], lastPkt)
    /\ \A i \in DOMAIN queue["db"] : HasPacket(queue["db"][i]) =>
          /\ NotBefore(queue["db"][i].pkt, lastPkt)
          /\ \A n \in DOMAIN disk.telemetry : NotBefore(disk.telemetry[n], queue["db"][i].pkt)
          /\ \A k \in DOMAIN queue["db"] : i < k /\ HasPacket(queue["db"][k]) =>
                NotBefore(queue["db"][i].pkt, queue["db"][k].pkt)

\* The alert and the snapshots that wait say what the rule says of their packets.
AlertsMeetTheRule ==
    /\ alertActive <=> OnTarget(lastPkt)
    /\ \A i \in DOMAIN queue["db"] :
          queue["db"][i].op = "snapshot" => MeetsTheRule(queue["db"][i])

\* A save that waits is the newest, or a newer one waits behind it.
SavesInOrder ==
    /\ disk.config.no <= Len(asked)
    /\ \A i \in DOMAIN queue["db"] : queue["db"][i].op = "config" =>
          /\ queue["db"][i].no <= Len(asked)
          /\ \/ queue["db"][i].no = Len(asked)
             \/ \E k \in DOMAIN queue["db"] : i < k /\ queue["db"][k].op = "config"

\* Tables that were made stay.
Migrated == life \notin {"off", "init"} \/ reply # NoReply
TablesAreThere ==
    /\ stmt \in {"drop", "recreate"} => {Tables[i] : i \in 1..Len(Tables)} \subseteq disk.schema
    /\ Migrated /\ faults = 0 =>
          {Tables[i] : i \in 1..Len(Tables)} \cup {"snapshot_events"} \subseteq disk.schema

\* What this run of the program posts and stores is later than the last run's end.
RunIsLater ==
    /\ since \in 0..inputs /\ (life \in {"off", "init"} => since = inputs)
    /\ lastPkt.at = 0 \/ lastPkt.at > since
    /\ \A i \in DOMAIN queue["db"] : queue["db"][i].op = "snapshot" =>
          inputs > since /\ (queue["db"][i].pkt.at = 0 \/ queue["db"][i].pkt.at > since)

\* Each capture with a packet of these times is an event, or its snapshot waits.
Counted(times) ==
    Cardinality({e \in OfThisRun(disk.events) : e.pkt.at \in times})
      + Cardinality({i \in DOMAIN queue["db"] :
                        queue["db"][i].op = "snapshot" /\ queue["db"][i].pkt.at \in times})
    = Cardinality({i \in DOMAIN captures : captures[i].at \in times})
CapturesAreCounted ==
    /\ Migrated /\ faults = 0 =>
          Counted(Nat) /\ \A to \in 0..(plan.inputs + plan.minute) : Counted(1..to)
    /\ life = "refresh" /\ reply # NoReply /\ faults = 0 =>
          reply.rows \in Newest({e \in disk.events : e.ts <= eventTo})

\* A session records to the directory and the video it was given alone; while it
\* runs, or ffmpeg composes, that video is nobody else's.
SessionsAreApart ==
    /\ VideoIsOneSession
    /\ rec.dir > 0 =>
          /\ rec.video > 0
          /\ \A n \in DOMAIN videos : videos[n].dir = rec.dir <=> n = rec.video
    /\ rec.running => rec.dir > 0 /\ rec.video \notin DOMAIN videos
    /\ ffmpeg => /\ queue["rec"] # <<>> /\ Request.op = "stop"
                 /\ rec.dir > 0 /\ ~rec.running

IInv ==
    /\ TypeOK
    /\ CallsAreAwaited /\ CallIsUnderWay
    /\ NoDanglingReference
    /\ PacketsArrived /\ ArrivalsInOrder
    /\ AlertsMeetTheRule /\ TargetsMeetTheRule
    /\ SavesInOrder /\ LastSaveWins
    /\ TablesAreThere /\ RunIsLater /\ CapturesAreCounted
    /\ SessionsAreApart

=============================================================================
