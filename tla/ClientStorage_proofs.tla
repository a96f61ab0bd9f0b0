------------------------ MODULE ClientStorage_proofs ------------------------
(***************************************************************************)
(* What the client keeps is consistent, for any plan, packets, thresholds     *)
(* and bounds.  The invariant is proved part by part: what each action does   *)
(* to the two queues comes first, the parts after it.                        *)
(***************************************************************************)
EXTENDS ClientStorage, SequenceTheorems, FiniteSetTheorems, TLAPS

-----------------------------------------------------------------------------
\* Sequences: what is posted comes behind the rest, what is run leaves the front.
LEMMA PostedOne ==
    ASSUME NEW S, NEW q \in Seq(S), NEW x \in S
    PROVE  LET p == q \o <<x>>
           IN  /\ p \in Seq(S) /\ Len(p) = Len(q) + 1
               /\ DOMAIN p = 1..(Len(q) + 1) /\ DOMAIN q = 1..Len(q)
               /\ p[Len(q) + 1] = x /\ \A i \in 1..Len(q) : p[i] = q[i]
               /\ p # <<>>
<1> DEFINE p == q \o <<x>>
<1>1. <<x>> \in Seq(S) /\ Len(<<x>>) = 1 /\ <<x>>[1] = x
    OBVIOUS
<1>2. /\ p \in Seq(S) /\ Len(p) = Len(q) + 1
      /\ \A i \in 1..(Len(q) + Len(<<x>>)) :
            p[i] = IF i <= Len(q) THEN q[i] ELSE <<x>>[i - Len(q)]
    BY <1>1, ConcatProperties
<1>3. Len(q) \in Nat /\ DOMAIN q = 1..Len(q) /\ DOMAIN p = 1..Len(p)
    BY <1>2, LenProperties
<1>4. p # <<>>
    BY <1>2, <1>3, EmptySeq
<1> HIDE DEF p
<1> QED
    BY <1>1, <1>2, <1>3, <1>4 DEF p

LEMMA PostedTwo ==
    ASSUME NEW S, NEW q \in Seq(S), NEW x \in S, NEW y \in S
    PROVE  LET p == q \o <<x, y>>
           IN  /\ p \in Seq(S) /\ Len(p) = Len(q) + 2
               /\ DOMAIN p = 1..(Len(q) + 2) /\ DOMAIN q = 1..Len(q)
               /\ p[Len(q) + 1] = x /\ p[Len(q) + 2] = y
               /\ \A i \in 1..Len(q) : p[i] = q[i]
               /\ p # <<>>
<1> DEFINE p == q \o <<x, y>>
           c == <<x, y>>
<1>1. c \in Seq(S) /\ Len(c) = 2 /\ c[1] = x /\ c[2] = y
    OBVIOUS
<1> HIDE DEF c
<1>2. /\ p \in Seq(S) /\ Len(p) = Len(q) + 2
      /\ \A i \in 1..(Len(q) + Len(c)) :
            p[i] = IF i <= Len(q) THEN q[i] ELSE c[i - Len(q)]
    BY <1>1, ConcatProperties DEF c
<1>3. Len(q) \in Nat /\ DOMAIN q = 1..Len(q) /\ DOMAIN p = 1..Len(p)
    BY <1>2, LenProperties
<1>4. p # <<>>
    BY <1>2, <1>3, EmptySeq
<1> HIDE DEF p
<1> QED
    BY <1>1, <1>2, <1>3, <1>4 DEF p

LEMMA TailOf ==
    ASSUME NEW S, NEW q \in Seq(S), q # <<>>
    PROVE  /\ Tail(q) \in Seq(S) /\ Len(q) \in Nat \ {0} /\ Len(Tail(q)) = Len(q) - 1
           /\ DOMAIN Tail(q) = 1..(Len(q) - 1) /\ DOMAIN q = 1..Len(q)
           /\ \A i \in 1..(Len(q) - 1) : Tail(q)[i] = q[i + 1]
           /\ Head(q) = q[1] /\ Head(q) \in S
           /\ Tail(q) = <<>> <=> Len(q) = 1
<1>1. /\ Tail(q) \in Seq(S) /\ Len(q) \in Nat \ {0} /\ Len(Tail(q)) = Len(q) - 1
      /\ DOMAIN Tail(q) = 1..(Len(q) - 1) /\ DOMAIN q = 1..Len(q)
      /\ \A i \in 1..(Len(q) - 1) : Tail(q)[i] = q[i + 1]
      /\ Head(q) = q[1] /\ Head(q) \in S
    BY HeadTailProperties, LenProperties, EmptySeq
<1>2. Tail(q) = <<>> <=> Len(Tail(q)) = 0
    BY <1>1, EmptySeq
<1>3. Len(q) - 1 = 0 <=> Len(q) = 1
    BY <1>1
<1>4. Tail(q) = <<>> <=> Len(q) = 1
    BY <1>1, <1>2, <1>3, Zenon
<1> QED
    BY <1>1, <1>4, Zenon

-----------------------------------------------------------------------------
\* The queues: Posted adds to one of them only (QMetaObject::invokeMethod,
\* main_window.cpp:574-591, 795-797).
LEMMA PostedIs ==
    ASSUME NEW q, DOMAIN q = Threads, NEW c
    PROVE  /\ DOMAIN Posted(q, "db", c) = Threads /\ DOMAIN Posted(q, "rec", c) = Threads
           /\ Posted(q, "db", c)["db"] = q["db"] \o c /\ Posted(q, "db", c)["rec"] = q["rec"]
           /\ Posted(q, "rec", c)["rec"] = q["rec"] \o c /\ Posted(q, "rec", c)["db"] = q["db"]
<1> QED
    BY DEF Posted, Threads

\* What a step does to the database's queue and to the recorder's.
DbKeeps == queue'["db"] = queue["db"]
DbGets(c) == queue'["db"] = queue["db"] \o c
DbReturns == queue'["db"] = Tail(queue["db"])
RecKeeps == queue'["rec"] = queue["rec"]
RecGets(c) == queue'["rec"] = queue["rec"] \o c
RecReturns == queue'["rec"] = Tail(queue["rec"])
Paired == DOMAIN queue' = Threads

LEMMA PostedNow ==
    ASSUME DOMAIN queue = Threads, NEW c
    PROVE  /\ queue' = Posted(queue, "db", c) => Paired /\ RecKeeps /\ DbGets(c)
           /\ queue' = Posted(queue, "rec", c) => Paired /\ DbKeeps /\ RecGets(c)
<1>1. /\ DOMAIN Posted(queue, "db", c) = Threads /\ DOMAIN Posted(queue, "rec", c) = Threads
      /\ Posted(queue, "db", c)["db"] = queue["db"] \o c
      /\ Posted(queue, "db", c)["rec"] = queue["rec"]
      /\ Posted(queue, "rec", c)["rec"] = queue["rec"] \o c
      /\ Posted(queue, "rec", c)["db"] = queue["db"]
    BY PostedIs
<1>2. ASSUME queue' = Posted(queue, "db", c) PROVE Paired /\ RecKeeps /\ DbGets(c)
    BY <1>1, <1>2, Zenon DEF Paired, RecKeeps, DbGets
<1>3. ASSUME queue' = Posted(queue, "rec", c) PROVE Paired /\ DbKeeps /\ RecGets(c)
    BY <1>1, <1>3, Zenon DEF Paired, DbKeeps, RecGets
<1> QED
    BY <1>2, <1>3

\* The window's handlers post at most two calls to a thread.
LEMMA WindowPosts ==
    ASSUME DOMAIN queue = Threads
    PROVE  /\ Launch => Paired /\ RecKeeps /\ DbGets(<<[op |-> "init"]>>)
           /\ Initialized => Paired /\ RecKeeps /\ DbGets(<<[op |-> "load"]>>)
           /\ OnStartAll => /\ Paired /\ DbGets(<<Save(config'), Query>>)
                            /\ RecGets(IF config'.record THEN <<[op |-> "start"]>> ELSE <<>>)
           /\ OnStopAll => Paired /\ DbKeeps /\ RecGets(<<[op |-> "stop"]>>)
           /\ OnSaveConfig => Paired /\ RecKeeps /\ DbGets(<<Save(config')>>)
           /\ OnFrame => /\ Paired /\ DbKeeps
                         /\ \E image \in BOOLEAN :
                               RecGets(IF config.record
                                       THEN <<[op |-> "frame", image |-> image, at |-> lastPkt.at]>>
                                       ELSE <<>>)
           /\ OnCaptureScreenshot =>
                 Paired /\ RecKeeps /\ DbGets(<<Snapshot(lastPkt, "manual", alertActive)>>)
           /\ OnRefreshEvents => Paired /\ RecKeeps /\ DbGets(<<Query>>)
           /\ Close => /\ Paired /\ DbGets(<<Save(config')>>) /\ RecGets(<<[op |-> "stop"]>>)
<1>1. Launch => Paired /\ RecKeeps /\ DbGets(<<[op |-> "init"]>>)
    BY PostedNow DEF Launch
<1>2. Initialized => Paired /\ RecKeeps /\ DbGets(<<[op |-> "load"]>>)
    BY PostedNow DEF Initialized
<1>3. OnSaveConfig => Paired /\ RecKeeps /\ DbGets(<<Save(config')>>)
    <2>1. OnSaveConfig => queue' = Posted(queue, "db", <<Save(config')>>)
        BY DEF OnSaveConfig
    <2> QED
        BY <2>1, PostedNow
<1>4. OnStopAll => Paired /\ DbKeeps /\ RecGets(<<[op |-> "stop"]>>)
    <2>1. OnStopAll => queue' = Posted(queue, "rec", <<[op |-> "stop"]>>)
        BY DEF OnStopAll
    <2> QED
        BY <2>1, PostedNow
<1>5. OnCaptureScreenshot =>
          Paired /\ RecKeeps /\ DbGets(<<Snapshot(lastPkt, "manual", alertActive)>>)
    BY PostedNow DEF OnCaptureScreenshot
<1>6. OnRefreshEvents => Paired /\ RecKeeps /\ DbGets(<<Query>>)
    BY PostedNow DEF OnRefreshEvents
<1>7. ASSUME OnFrame
      PROVE  /\ Paired /\ DbKeeps
             /\ \E image \in BOOLEAN :
                   RecGets(IF config.record
                           THEN <<[op |-> "frame", image |-> image, at |-> lastPkt.at]>> ELSE <<>>)
    <2> DEFINE c(image) == IF config.record
                           THEN <<[op |-> "frame", image |-> image, at |-> lastPkt.at]>> ELSE <<>>
    <2>1. PICK image \in BOOLEAN : queue' = Posted(queue, "rec", c(image))
        BY <1>7 DEF OnFrame
    <2> HIDE DEF c
    <2>2. Paired /\ DbKeeps /\ RecGets(c(image))
        BY <2>1, PostedNow
    <2> QED
        BY <2>2 DEF c
<1>8. ASSUME OnStartAll \/ Close
      PROVE  /\ OnStartAll => /\ Paired /\ DbGets(<<Save(config'), Query>>)
                              /\ RecGets(IF config'.record THEN <<[op |-> "start"]>> ELSE <<>>)
             /\ Close => /\ Paired /\ DbGets(<<Save(config')>>) /\ RecGets(<<[op |-> "stop"]>>)
    <2>1. \A c, d : LET q == Posted(queue, "db", c)
                    IN  /\ DOMAIN Posted(q, "rec", d) = Threads
                        /\ Posted(q, "rec", d)["db"] = queue["db"] \o c
                        /\ Posted(q, "rec", d)["rec"] = queue["rec"] \o d
        <3> TAKE c, d
        <3> DEFINE q == Posted(queue, "db", c)
        <3>1. DOMAIN q = Threads /\ q["db"] = queue["db"] \o c /\ q["rec"] = queue["rec"]
            BY PostedIs
        <3> HIDE DEF q
        <3>2. /\ DOMAIN Posted(q, "rec", d) = Threads /\ Posted(q, "rec", d)["db"] = q["db"]
              /\ Posted(q, "rec", d)["rec"] = q["rec"] \o d
            BY <3>1, PostedIs
        <3> QED
            BY <3>1, <3>2 DEF q
    <2> QED
        BY <1>8, <2>1, Zenon DEF OnStartAll, Close, Paired, DbGets, RecGets
<1> QED
    BY <1>1, <1>2, <1>3, <1>4, <1>5, <1>6, <1>7, <1>8

\* A packet is posted behind the snapshot it triggered (main_window.cpp:629-639).
TelemetryArrives(pkt) ==
    /\ pkt = [at |-> inputs', person |-> pkt.person, rod |-> pkt.rod, threshold |-> ui.threshold]
    /\ pkt.person \in Nat /\ pkt.rod \in Nat
    /\ lastPkt' = pkt /\ (alertActive' <=> Hit(pkt)) /\ alertActive' \in BOOLEAN
    /\ Paired /\ RecKeeps
    /\ \/ /\ alertActive' /\ hasFrame /\ captured' = TRUE
          /\ captures' = Append(captures, pkt)
          /\ DbGets(<<Snapshot(pkt, "auto_event", TRUE), [op |-> "telemetry", pkt |-> pkt]>>)
       \/ /\ UNCHANGED <<captured, captures>>
          /\ DbGets(<<[op |-> "telemetry", pkt |-> pkt]>>)
LEMMA TelemetryPosts ==
    ASSUME DOMAIN queue = Threads, OnTelemetry
    PROVE  \E pkt : TelemetryArrives(pkt)
<1> DEFINE Pkt(d) == [at |-> inputs', person |-> d.person, rod |-> d.rod,
                      threshold |-> ui.threshold]
           store(d) == [op |-> "telemetry", pkt |-> Pkt(d)]
           snap(d) == Snapshot(Pkt(d), "auto_event", TRUE)
<1>1. PICK d \in Detections :
          /\ lastPkt' = Pkt(d)
          /\ alertActive' = EvaluatePersonRodAlert(Pkt(d))
          /\ \/ /\ alertActive' /\ hasFrame
                /\ captured' = TRUE /\ captures' = Append(captures, Pkt(d))
                /\ queue' = Posted(queue, "db", <<snap(d), store(d)>>)
             \/ /\ ~(alertActive' /\ hasFrame) \/ captured
                /\ queue' = Posted(queue, "db", <<store(d)>>)
                /\ UNCHANGED <<captured, captures>>
    BY DEF OnTelemetry
<1>2. d.person \in Nat /\ d.rod \in Nat
    BY StorageAssumption DEF StorageAssumption
<1> DEFINE pkt == Pkt(d)
<1>3. /\ pkt = [at |-> inputs', person |-> pkt.person, rod |-> pkt.rod, threshold |-> ui.threshold]
      /\ pkt.person \in Nat /\ pkt.rod \in Nat
    BY <1>2
<1>4. (alertActive' <=> Hit(pkt)) /\ alertActive' \in BOOLEAN
    <2>1. alertActive' = Hit(pkt)
        BY <1>1 DEF EvaluatePersonRodAlert
    <2>2. Hit(pkt) \in BOOLEAN
        BY DEF Hit
    <2> QED
        BY <2>1, <2>2
<1>5. /\ Paired /\ RecKeeps
      /\ \/ /\ alertActive' /\ hasFrame /\ captured' = TRUE
            /\ captures' = Append(captures, pkt)
            /\ DbGets(<<snap(d), store(d)>>)
         \/ /\ UNCHANGED <<captured, captures>>
            /\ DbGets(<<store(d)>>)
    <2>1. \A c : queue' = Posted(queue, "db", c) => Paired /\ RecKeeps /\ DbGets(c)
        BY PostedNow
    <2> HIDE DEF store, snap, Pkt
    <2>2. CASE queue' = Posted(queue, "db", <<snap(d), store(d)>>)
        BY <1>1, <2>1, <2>2
    <2>3. CASE queue' = Posted(queue, "db", <<store(d)>>)
        BY <1>1, <2>1, <2>3
    <2> QED
        BY <1>1, <2>2, <2>3
<1>6. TelemetryArrives(pkt)
    BY <1>1, <1>3, <1>4, <1>5 DEF TelemetryArrives
<1> QED
    BY <1>6

\* The database thread runs the call at the front, or takes it off the queue.
LEMMA ThreadMoves ==
    ASSUME TypeOK, NEW t \in Threads
    PROVE  /\ Begun(t) => loop' \in [Threads -> {"idle", "drain", "off"}]
           /\ Finished(t) => /\ loop' \in [Threads -> {"idle", "drain", "off"}]
                             /\ Paired /\ queue'[t] = Tail(queue[t])
                             /\ \A u \in Threads \ {t} : queue'[u] = queue[u]
<1> QED
    BY DEF TypeOK, ThreadsTypeOK, Begun, Finished, Paired

LEMMA StoreQueue ==
    ASSUME TypeOK, StoreStep
    PROVE  /\ Running("db") /\ queue["db"] # <<>>
           /\ Paired /\ RecKeeps /\ (DbKeeps \/ DbReturns)
           /\ quit' = quit /\ loop' \in [Threads -> {"idle", "drain", "off"}]
           /\ faults' = faults \/ Fault
<1>1. "db" \in Threads /\ "rec" \in Threads \ {"db"} /\ DOMAIN queue = Threads
    BY DEF Threads, TypeOK, ThreadsTypeOK
<1>2. Running("db") /\ queue["db"] # <<>>
    BY DEF StoreStep, Running, At, EnsureConnection, CreateTables, DropEvents, CreateEvents,
           LoadConfig, QueryEvents, SaveConfigAsync, InsertTelemetry, InsertObjects, InsertGps,
           InsertSnapshotEvent
<1>3. \/ Finished("db") /\ quit' = quit
      \/ Begun("db") /\ UNCHANGED <<queue, quit>>
    BY DEF StoreStep, EnsureConnection, CreateTables, DropEvents, CreateEvents,
           LoadConfig, QueryEvents, SaveConfigAsync, InsertTelemetry, InsertObjects, InsertGps,
           InsertSnapshotEvent, Return, ReturnNothing, Answer, Continue
<1>4. faults' = faults \/ Fault
    BY DEF StoreStep, EnsureConnection, CreateTables, DropEvents, CreateEvents,
           LoadConfig, QueryEvents, SaveConfigAsync, InsertTelemetry, InsertObjects, InsertGps,
           InsertSnapshotEvent, InsertDetail, Works, Fails
<1>5. CASE Finished("db") /\ quit' = quit
    BY <1>1, <1>2, <1>4, <1>5, ThreadMoves DEF RecKeeps, DbReturns
<1>6. CASE Begun("db") /\ UNCHANGED <<queue, quit>>
    BY <1>1, <1>2, <1>4, <1>6, ThreadMoves DEF RecKeeps, DbKeeps, Paired
<1> QED
    BY <1>3, <1>5, <1>6

LEMMA RecordQueue ==
    ASSUME TypeOK, RecordStep, ffmpeg => queue["rec"] # <<>>
    PROVE  /\ queue["rec"] # <<>>
           /\ Paired /\ DbKeeps /\ (RecKeeps \/ RecReturns)
           /\ quit' = quit /\ loop' \in [Threads -> {"idle", "drain", "off"}]
           /\ faults' = faults \/ Fault
<1>1. "rec" \in Threads /\ "db" \in Threads \ {"rec"} /\ DOMAIN queue = Threads
    BY DEF Threads, TypeOK, ThreadsTypeOK
<1>2. queue["rec"] # <<>>
    BY DEF RecordStep, Running, RecordStart, Enqueue, RecordStop, Compose
<1>3. \/ Finished("rec") /\ quit' = quit
      \/ Begun("rec") /\ UNCHANGED <<queue, quit>>
    BY DEF RecordStep, RecordStart, Enqueue, RecordStop, Compose, Served
<1>4. faults' = faults \/ Fault
    BY DEF RecordStep, RecordStart, Enqueue, RecordStop, Compose
<1>5. CASE Finished("rec") /\ quit' = quit
    BY <1>1, <1>2, <1>4, <1>5, ThreadMoves DEF DbKeeps, RecReturns
<1>6. CASE Begun("rec") /\ UNCHANGED <<queue, quit>>
    BY <1>1, <1>2, <1>4, <1>6, ThreadMoves DEF RecKeeps, DbKeeps, Paired
<1> QED
    BY <1>3, <1>5, <1>6

-----------------------------------------------------------------------------
\* Types.
LEMMA CallFields ==
    ASSUME NEW c \in DbCalls
    PROVE  /\ c.op \in {"init", "load", "events", "config", "telemetry", "snapshot"}
           /\ c.op = "events" => c.to \in Nat
           /\ c.op = "config" => c.cfg \in Forms /\ c.no \in Nat
           /\ c.op = "telemetry" => c.pkt \in Packets
           /\ c.op = "snapshot" => c.pkt \in Packets /\ c.reason \in Reasons /\ c.target \in BOOLEAN
<1> QED
    BY DEF DbCalls

LEMMA BoundsAreNat ==
    ASSUME TypeOK
    PROVE  /\ plan.inputs \in Nat /\ plan.faults \in Nat /\ plan.runs \in Nat /\ plan.minute \in Nat
           /\ inputs \in Nat /\ faults \in Nat /\ eventTo \in Nat
<1>1. /\ plan.inputs \in Nat /\ plan.faults \in Nat /\ plan.runs \in Nat /\ plan.minute \in Nat
    BY StorageAssumption DEF StorageAssumption, TypeOK
<1> QED
    BY <1>1 DEF TypeOK, ThreadsTypeOK

LEMMA DefaultFits == DefaultConfig \in Forms
BY StorageAssumption DEF StorageAssumption, DefaultConfig, Forms

LEMMA TableNames ==
    /\ Len(Tables) = 4
    /\ {Tables[i] : i \in 1..Len(Tables)}
          = {"app_config", "telemetry", "detection_object", "gps"}
    /\ \A i \in 1..4 : Tables[i] \in {"app_config", "telemetry", "detection_object", "gps"}
<1>1. /\ Tables[1] = "app_config" /\ Tables[2] = "telemetry"
      /\ Tables[3] = "detection_object" /\ Tables[4] = "gps" /\ Len(Tables) = 4
    BY DEF Tables
<1>2. \A i : i \in 1..4 <=> i = 1 \/ i = 2 \/ i = 3 \/ i = 4
    OBVIOUS
<1> QED
    BY <1>1, <1>2, Zenon

LEMMA FilePart ==
    ASSUME TypeOK, StoreStep, CallIsUnderWay
    PROVE  FileTypeOK'
<1>1. queue["db"] # <<>> /\ Call \in DbCalls
    BY StoreQueue, TailOf DEF TypeOK, Call
<1>2. /\ disk \in Files /\ IsFiniteSet(disk.events) /\ open \in BOOLEAN /\ row \in Nat
      /\ reply \in Replies
      /\ stmt \in {"idle", "drop", "recreate", "detection_object", "gps", "event"}
    BY DEF TypeOK, FileTypeOK
<1>3. CASE EnsureConnection
    <2>1. Refused(Call.op) \in Replies
        BY <1>1, <1>2, DefaultFits, CallFields DEF Refused, Replies
    <2> QED
        BY <1>2, <1>3, <2>1 DEF EnsureConnection, Answer, Return, FileTypeOK
<1>4. CASE CreateTables
    <2>1. PICK n \in 0..Len(Tables) :
              /\ disk' = [disk EXCEPT !.schema = @ \cup {Tables[i] : i \in 1..n}]
              /\ IF n = Len(Tables)
                   THEN Continue("drop") /\ UNCHANGED <<row, faults>>
                   ELSE Fault /\ Answer([of |-> "init", ok |-> FALSE])
        BY <1>4 DEF CreateTables
    <2>2. disk' \in Files /\ disk'.events = disk.events
        <3>1. {Tables[i] : i \in 1..n} \subseteq
                  {"app_config", "telemetry", "detection_object", "gps"}
            BY TableNames
        <3> QED
            BY <1>2, <2>1, <3>1 DEF Files
    <2>3. [of |-> "init", ok |-> FALSE] \in Replies
        BY DEF Replies
    <2>4. open' = open
        BY <2>1 DEF Continue, Answer, Return
    <2> QED
        BY <1>2, <2>1, <2>2, <2>3, <2>4 DEF Continue, Answer, Return, FileTypeOK
<1>5. CASE DropEvents
    <2>1. disk' \in Files /\ (disk'.events = disk.events \/ disk'.events = {})
        BY <1>2, <1>5 DEF DropEvents, Files
    <2>2. IsFiniteSet(disk'.events)
        BY <1>2, <2>1, FS_EmptySet, Zenon
    <2> QED
        BY <1>2, <1>5, <2>1, <2>2 DEF DropEvents, Continue, FileTypeOK
<1>6. CASE CreateEvents
    <2>1. disk' \in Files /\ IsFiniteSet(disk'.events)
        BY <1>2, <1>6 DEF CreateEvents, Files
    <2>2. \A b \in BOOLEAN : [of |-> "init", ok |-> b] \in Replies
        BY DEF Replies
    <2> QED
        BY <1>2, <1>6, <2>1, <2>2 DEF CreateEvents, Answer, Return, FileTypeOK
<1>7. CASE LoadConfig
    <2>1. /\ [of |-> "load", cfg |-> IF disk.config = NoRow THEN DefaultConfig
                             ELSE [DefaultConfig EXCEPT !.record = disk.config.record,
                                                        !.geometry = disk.config.geometry]]
                \in Replies
          /\ Refused("load") \in Replies
        <3>1. disk.config # NoRow => disk.config \in ConfigRows
            BY <1>2 DEF Files
        <3> QED
            BY <3>1, DefaultFits DEF Replies, Refused, Forms, ConfigRows
    <2> QED
        BY <1>2, <1>7, <2>1 DEF LoadConfig, Answer, Return, FileTypeOK
<1>8. CASE QueryEvents
    <2>1. /\ \A shown \in Newest({e \in disk.events : e.ts <= Call.to}) :
                [of |-> "events", rows |-> shown] \in Replies
          /\ Refused("events") \in Replies
        BY <1>2 DEF Replies, Refused, Files, Newest
    <2>2. reply' \in Replies /\ UNCHANGED <<disk, open, row>> /\ stmt' = "idle"
        BY <1>8, <2>1 DEF QueryEvents, Answer, Return
    <2> QED
        BY <1>2, <2>2 DEF FileTypeOK
<1>9. CASE SaveConfigAsync
    <2>1. FirstStatement[Call.op] = "replace"
        BY <1>2, <1>9 DEF SaveConfigAsync, At
    <2>2. Call.op = "config"
        BY <1>1, <2>1, CallFields DEF FirstStatement
    <2>3. Call.cfg \in Forms /\ Call.no \in Nat
        BY <1>1, <2>2, CallFields
    <2>4. [record |-> Call.cfg.record, geometry |-> Call.cfg.geometry, no |-> Call.no]
              \in ConfigRows
        BY <2>3 DEF ConfigRows, Forms
    <2>5. disk' \in Files /\ disk'.events = disk.events
        BY <1>2, <1>9, <2>4 DEF SaveConfigAsync, Files
    <2> QED
        BY <1>2, <1>9, <2>5 DEF SaveConfigAsync, ReturnNothing, Return, FileTypeOK
<1>10. CASE InsertTelemetry
    <2>1. FirstStatement[Call.op] = "insert"
        BY <1>2, <1>10 DEF InsertTelemetry, At
    <2>2. Call.pkt \in Packets
        BY <1>1, <2>1, CallFields DEF FirstStatement
    <2>3. disk.telemetry \in Seq(Packets) /\ Len(disk.telemetry) \in Nat
        BY <1>2 DEF Files
    <2>4. Append(disk.telemetry, Call.pkt) \in Seq(Packets)
        BY <2>2, <2>3
    <2>5. disk' \in Files /\ disk'.events = disk.events
        BY <1>2, <1>10, <2>4 DEF InsertTelemetry, Files
    <2> QED
        BY <1>2, <1>10, <2>3, <2>5
        DEF InsertTelemetry, Continue, ReturnNothing, Return, FileTypeOK
<1>11. CASE InsertObjects \/ InsertGps
    <2>1. \A table \in {"detection_object", "gps"} :
              InsertDetail(table) => disk' \in Files /\ disk'.events = disk.events
        BY <1>2 DEF InsertDetail, Files
    <2>2. disk' \in Files /\ disk'.events = disk.events
        BY <1>2, <1>11, <2>1 DEF InsertObjects, InsertGps
    <2> QED
        BY <1>2, <1>11, <2>2
        DEF InsertObjects, InsertGps, Continue, ReturnNothing, Return, FileTypeOK
<1>12. CASE InsertSnapshotEvent
    <2> DEFINE new == [row |-> row, ts |-> EventTime(Call.pkt), pkt |-> Call.pkt,
                       reason |-> Call.reason, target |-> Call.target]
    <2>1. Call.op = "snapshot"
        <3>1. stmt = "event"
            BY <1>1, <1>2, <1>12, CallFields DEF InsertSnapshotEvent, At, FirstStatement
        <3> QED
            BY <3>1 DEF CallIsUnderWay
    <2>2. new \in EventRows
        BY <1>1, <1>2, <2>1, CallFields, BoundsAreNat DEF EventRows, EventTime, Packets
    <2> HIDE DEF new
    <2>3. IsFiniteSet(disk.events \cup {new})
        BY <1>2, FS_AddElement
    <2>4. disk' = disk \/ disk' = [disk EXCEPT !.events = @ \cup {new}]
        BY <1>12 DEF InsertSnapshotEvent, new
    <2>5. /\ disk' \in Files
          /\ disk'.events = disk.events \/ disk'.events = disk.events \cup {new}
        BY <1>2, <2>2, <2>4 DEF Files
    <2>6. IsFiniteSet(disk'.events)
        BY <1>2, <2>3, <2>5, Zenon
    <2> QED
        BY <1>2, <1>12, <2>5, <2>6 DEF InsertSnapshotEvent, ReturnNothing, Return, FileTypeOK
<1> QED
    BY <1>3, <1>4, <1>5, <1>6, <1>7, <1>8, <1>9, <1>10, <1>11, <1>12 DEF StoreStep

LEMMA RequestFields ==
    ASSUME NEW c \in RecCalls
    PROVE  /\ c.op \in {"start", "stop", "frame"}
           /\ c.op = "frame" => c.image \in BOOLEAN /\ c.at \in Nat
<1> QED
    BY DEF RecCalls

\* The part number of a new session is that of no video (record_worker.cpp:33-48).
LEMMA FreeNameIs ==
    ASSUME NEW S, NEW files \in Seq(S)
    PROVE  FreeName(files) = Len(files) + 1
<1>1. DOMAIN files = 1..Len(files) /\ Len(files) \in Nat
    BY LenProperties
<1>2. \E n \in 1..(Len(files) + 1) : n \notin DOMAIN files
    BY <1>1
<1>3. FreeName(files) \in 1..(Len(files) + 1) /\ FreeName(files) \notin DOMAIN files
    BY <1>2 DEF FreeName
<1> QED
    BY <1>1, <1>3

\* The session's video is replaced, or a new one is put behind the others.
VideoRows == [dir : 1..Len(frameDirs), frames : SUBSET Nat]
LEMMA WrittenIs ==
    ASSUME RecorderTypeOK, rec.dir > 0, rec.video > 0, NEW frames \in SUBSET Nat
    PROVE  LET w == Written(frames)
           IN  /\ w \in Seq(VideoRows)
               /\ rec.video \in DOMAIN w /\ w[rec.video] = [dir |-> rec.dir, frames |-> frames]
               /\ DOMAIN w = DOMAIN videos \cup {rec.video}
               /\ \A n \in DOMAIN videos : n # rec.video => w[n] = videos[n]
               /\ Len(w) \in Nat /\ Len(w) >= Len(videos)
<1> DEFINE video == [dir |-> rec.dir, frames |-> frames]
           w == Written(frames)
<1>1. /\ videos \in Seq(VideoRows) /\ Len(videos) \in Nat /\ DOMAIN videos = 1..Len(videos)
      /\ rec.video \in 1..(Len(videos) + 1) /\ rec.dir \in 1..Len(frameDirs)
    <2>1. videos \in Seq(VideoRows)
        BY DEF RecorderTypeOK, VideoRows
    <2>2. Len(videos) \in Nat /\ DOMAIN videos = 1..Len(videos)
        BY <2>1, LenProperties
    <2>3. Len(frameDirs) \in Nat
        BY LenProperties DEF RecorderTypeOK
    <2> QED
        BY <2>1, <2>2, <2>3 DEF RecorderTypeOK
<1>2. video \in VideoRows
    BY <1>1 DEF VideoRows
<1> HIDE DEF video
<1>3. CASE rec.video \in DOMAIN videos
    <2>1. w = [videos EXCEPT ![rec.video] = video]
        BY <1>3 DEF Written, video
    <2>2. w \in Seq(VideoRows) /\ Len(w) = Len(videos)
        BY <1>1, <1>2, <1>3, <2>1, ExceptSeq
    <2>3. /\ DOMAIN w = DOMAIN videos /\ w[rec.video] = video
          /\ \A n \in DOMAIN videos : n # rec.video => w[n] = videos[n]
        BY <1>3, <2>1
    <2> HIDE DEF w
    <2> QED
        BY <1>1, <1>3, <2>2, <2>3 DEF w, video
<1>4. CASE rec.video \notin DOMAIN videos
    <2>1. w = Append(videos, video)
        BY <1>4 DEF Written, video
    <2>2. rec.video = Len(videos) + 1
        BY <1>1, <1>4
    <2>3. /\ w \in Seq(VideoRows) /\ Len(w) = Len(videos) + 1
          /\ \A n \in 1..Len(videos) : w[n] = videos[n]
          /\ w[Len(videos) + 1] = video
        BY <1>1, <1>2, <2>1, AppendProperties
    <2>4. DOMAIN w = 1..(Len(videos) + 1)
        BY <2>3, LenProperties
    <2> HIDE DEF w
    <2> QED
        BY <1>1, <2>2, <2>3, <2>4 DEF w, video
<1> QED
    BY <1>3, <1>4

LEMMA RecorderPart ==
    ASSUME TypeOK, RecordStep, SessionsAreApart
    PROVE  RecorderTypeOK'
<1>1. /\ frameDirs \in Seq(SUBSET Nat) /\ meta \in Seq(Nat) /\ ffmpeg \in BOOLEAN
      /\ videos \in Seq(VideoRows) /\ Len(videos) \in Nat /\ Len(frameDirs) \in Nat
      /\ rec \in [running : BOOLEAN, count : Nat, seq : Nat, dir : 0..Len(frameDirs),
                  video : 0..(Len(videos) + 1)]
      /\ DOMAIN frameDirs = 1..Len(frameDirs)
    BY LenProperties DEF TypeOK, RecorderTypeOK, VideoRows
<1>2. queue["rec"] # <<>> /\ Request \in RecCalls
    BY RecordQueue, TailOf DEF TypeOK, Request, SessionsAreApart
<1>3. CASE RecordStart
    <2>1. /\ frameDirs' \in Seq(SUBSET Nat) /\ Len(frameDirs') = Len(frameDirs) + 1
        BY <1>1, <1>3, AppendProperties DEF RecordStart
    <2>2. VideoRows \subseteq VideoRows'
        BY <1>1, <2>1 DEF VideoRows
    <2>3. videos' \in Seq(VideoRows')
        BY <1>1, <1>3, <2>2, SeqMonotonic DEF RecordStart
    <2>4. FreeName(videos) = Len(videos) + 1
        BY <1>1, FreeNameIs
    <2> QED
        BY <1>1, <1>3, <2>1, <2>3, <2>4 DEF RecordStart, RecorderTypeOK, VideoRows
<1>4. CASE Enqueue
    <2>1. Request.at \in Nat
        BY <1>2, <1>4, RequestFields DEF Enqueue
    <2>2. \A seq \in Nat : rec.running =>
              LET d == [frameDirs EXCEPT ![rec.dir] = @ \cup {seq}]
              IN  d \in Seq(SUBSET Nat) /\ Len(d) = Len(frameDirs)
        <3> SUFFICES ASSUME NEW seq \in Nat, rec.running
                     PROVE  LET d == [frameDirs EXCEPT ![rec.dir] = @ \cup {seq}]
                            IN  d \in Seq(SUBSET Nat) /\ Len(d) = Len(frameDirs)
            OBVIOUS
        <3>1. rec.dir \in 1..Len(frameDirs)
            BY <1>1 DEF SessionsAreApart
        <3>2. frameDirs[rec.dir] \cup {seq} \in SUBSET Nat
            BY <1>1, <3>1, ElementOfSeq
        <3> QED
            BY <1>1, <3>1, <3>2, ExceptSeq
    <2>3. Append(meta, Request.at) \in Seq(Nat)
        BY <1>1, <2>1
    <2> DEFINE count == rec.count + 1
               kept == Request.image /\ count % FrameEvery = 0
               seq == rec.seq + (IF kept THEN 1 ELSE 0)
    <2>7. count \in Nat /\ seq \in Nat
        BY <1>1
    <2>8. \/ frameDirs' = frameDirs
          \/ rec.running /\ frameDirs' = [frameDirs EXCEPT ![rec.dir] = @ \cup {seq}]
        BY <1>4 DEF Enqueue
    <2>9. rec' = rec \/ rec' = [rec EXCEPT !.count = count, !.seq = seq]
        BY <1>4 DEF Enqueue
    <2> HIDE DEF count, kept, seq
    <2>4. frameDirs' \in Seq(SUBSET Nat) /\ Len(frameDirs') = Len(frameDirs)
        <3>1. CASE frameDirs' = frameDirs
            BY <1>1, <3>1
        <3>2. CASE rec.running /\ frameDirs' = [frameDirs EXCEPT ![rec.dir] = @ \cup {seq}]
            BY <2>2, <2>7, <3>2, Zenon
        <3> QED
            BY <2>8, <3>1, <3>2
    <2>5. meta' \in Seq(Nat) /\ UNCHANGED <<videos, ffmpeg>>
        BY <1>1, <1>4, <2>3 DEF Enqueue
    <2>6. rec' \in [running : BOOLEAN, count : Nat, seq : Nat, dir : 0..Len(frameDirs),
                    video : 0..(Len(videos) + 1)]
        BY <1>1, <2>7, <2>9
    <2> QED
        BY <1>1, <2>4, <2>5, <2>6 DEF RecorderTypeOK, VideoRows
<1>5. CASE RecordStop \/ Compose
    <2>1. \A d \in 1..Len(frameDirs) : Readable(frameDirs[d]) \in SUBSET Nat
        BY <1>1, ElementOfSeq DEF Readable
    <2>2. videos' = videos \/ \E frames \in SUBSET Nat :
              rec.dir > 0 /\ rec.video > 0 /\ videos' = Written(frames)
        BY <1>1, <1>5, <2>1 DEF RecordStop, Compose, SessionsAreApart
    <2>3. videos' \in Seq(VideoRows) /\ Len(videos') \in Nat /\ Len(videos') >= Len(videos)
        <3>1. CASE videos' = videos
            BY <1>1, <3>1
        <3>2. CASE \E frames \in SUBSET Nat :
                      rec.dir > 0 /\ rec.video > 0 /\ videos' = Written(frames)
            BY <3>2, WrittenIs DEF TypeOK
        <3> QED
            BY <2>2, <3>1, <3>2
    <2>4. /\ UNCHANGED <<frameDirs, meta>> /\ ffmpeg' \in BOOLEAN
          /\ rec' = rec \/ rec' = [rec EXCEPT !.running = FALSE]
        BY <1>1, <1>5 DEF RecordStop, Compose
    <2>5. rec' \in [running : BOOLEAN, count : Nat, seq : Nat, dir : 0..Len(frameDirs),
                    video : 0..(Len(videos') + 1)]
        <3>1. rec.video \in 0..(Len(videos') + 1)
            BY <1>1, <2>3
        <3> QED
            BY <1>1, <2>4, <3>1
    <2> QED
        BY <1>1, <2>3, <2>4, <2>5 DEF RecorderTypeOK, VideoRows
<1> QED
    BY <1>3, <1>4, <1>5 DEF RecordStep

\* What the window posts is a call.
LEMMA CallsPosted ==
    ASSUME TypeOK
    PROVE  /\ [op |-> "init"] \in DbCalls /\ [op |-> "load"] \in DbCalls /\ Query \in DbCalls
           /\ \A cfg \in Forms : Save(cfg) \in DbCalls
           /\ \A pkt \in Packets, reason \in Reasons, target \in BOOLEAN :
                 Snapshot(pkt, reason, target) \in DbCalls
           /\ \A pkt \in Packets : [op |-> "telemetry", pkt |-> pkt] \in DbCalls
           /\ [op |-> "start"] \in RecCalls /\ [op |-> "stop"] \in RecCalls
           /\ \A image \in BOOLEAN :
                 [op |-> "frame", image |-> image, at |-> lastPkt.at] \in RecCalls
           /\ CollectConfigFromUi \in Forms
           /\ [CollectConfigFromUi EXCEPT !.geometry = TRUE] \in Forms
<1>1. Len(asked) \in Nat /\ eventTo \in Nat /\ lastPkt \in Packets /\ ui \in Forms
    BY BoundsAreNat, LenProperties DEF TypeOK
<1>2. lastPkt.at \in Nat
    BY <1>1 DEF Packets
<1>3. Query \in DbCalls /\ [op |-> "init"] \in DbCalls /\ [op |-> "load"] \in DbCalls
    BY <1>1 DEF Query, DbCalls
<1>4. \A cfg \in Forms : Save(cfg) \in DbCalls
    BY <1>1 DEF Save, DbCalls
<1>5. /\ \A pkt \in Packets, reason \in Reasons, target \in BOOLEAN :
            Snapshot(pkt, reason, target) \in DbCalls
      /\ \A pkt \in Packets : [op |-> "telemetry", pkt |-> pkt] \in DbCalls
    BY DEF Snapshot, DbCalls
<1>6. /\ [op |-> "start"] \in RecCalls /\ [op |-> "stop"] \in RecCalls
      /\ \A image \in BOOLEAN : [op |-> "frame", image |-> image, at |-> lastPkt.at] \in RecCalls
    BY <1>2 DEF RecCalls
<1>7. /\ CollectConfigFromUi \in Forms
      /\ [CollectConfigFromUi EXCEPT !.geometry = TRUE] \in Forms
    BY <1>1 DEF CollectConfigFromUi, Forms
<1> QED
    BY <1>3, <1>4, <1>5, <1>6, <1>7

QueuesTyped == Paired /\ queue'["db"] \in Seq(DbCalls) /\ queue'["rec"] \in Seq(RecCalls)
LEMMA QueuesKeepType ==
    ASSUME TypeOK, Paired,
           \/ DbKeeps \/ \E x \in DbCalls : DbGets(<<x>>)
           \/ \E x, y \in DbCalls : DbGets(<<x, y>>),
           RecKeeps \/ RecGets(<<>>) \/ \E x \in RecCalls : RecGets(<<x>>)
    PROVE  QueuesTyped
<1>1. queue["db"] \in Seq(DbCalls) /\ queue["rec"] \in Seq(RecCalls)
    BY DEF TypeOK
<1>2. \A S : \A q \in Seq(S), x \in S : q \o <<x>> \in Seq(S) /\ \A y \in S : q \o <<x, y>> \in Seq(S)
    BY PostedOne, PostedTwo
<1>3. \A S : \A q \in Seq(S) : q \o <<>> = q
    BY ConcatEmptySeq
<1>4. queue'["db"] \in Seq(DbCalls)
    BY <1>1, <1>2, Zenon DEF DbKeeps, DbGets
<1>5. queue'["rec"] \in Seq(RecCalls)
    BY <1>1, <1>2, <1>3, Zenon DEF RecKeeps, RecGets
<1> QED
    BY <1>4, <1>5 DEF QueuesTyped

\* What the constructor, the buttons, the packets and the frames leave in the window and
\* in the queues.
WindowAction ==
    \/ Launch \/ Initialized \/ ApplyConfigToUi \/ Refreshed \/ QuitThreads
    \/ Edit \/ OnStartAll \/ OnStopAll \/ OnSaveConfig \/ OnTelemetry \/ OnFrame
    \/ OnCaptureScreenshot \/ OnRefreshEvents \/ Close
WindowTypes ==
    /\ life \in {"off", "init", "load", "running", "refresh", "closing", "quit"}
    /\ config \in Forms /\ ui \in Forms /\ lastPkt \in Packets
    /\ alertActive \in BOOLEAN /\ hasFrame \in BOOLEAN /\ captured \in BOOLEAN
    /\ inputs \in 0..plan.inputs /\ eventTo \in 0..(plan.inputs + plan.minute)
    /\ runs \in Nat /\ asked \in Seq(Thresholds) /\ captures \in Seq(Packets)

LEMMA TelemetryPacket ==
    ASSUME TypeOK, OnTelemetry
    PROVE  \E pkt \in Packets : TelemetryArrives(pkt) /\ pkt.at = inputs' /\ inputs' = inputs + 1
                                /\ pkt.threshold = ui.threshold
<1>1. PICK pkt : TelemetryArrives(pkt)
    BY TelemetryPosts DEF TypeOK, ThreadsTypeOK
<1>2. inputs' = inputs + 1 /\ inputs \in Nat /\ ui.threshold \in Nat
    BY BoundsAreNat, StorageAssumption
    DEF OnTelemetry, Input, InputOrFault, TypeOK, Forms, StorageAssumption
<1>3. pkt \in Packets /\ pkt.at = inputs' /\ pkt.threshold = ui.threshold
    BY <1>1, <1>2 DEF TelemetryArrives, Packets
<1> QED
    BY <1>1, <1>2, <1>3

LEMMA WindowQueues ==
    ASSUME TypeOK, WindowAction
    PROVE  QueuesTyped
<1>1. /\ DOMAIN queue = Threads /\ lastPkt \in Packets /\ alertActive \in BOOLEAN
      /\ "manual" \in Reasons /\ "auto_event" \in Reasons
    BY DEF TypeOK, ThreadsTypeOK, Reasons
<1>2. CASE ApplyConfigToUi \/ Refreshed \/ QuitThreads \/ Edit
    BY <1>1, <1>2, QueuesKeepType
    DEF ApplyConfigToUi, Refreshed, QuitThreads, Edit, threadVars, Paired, DbKeeps, RecKeeps
<1>3. CASE Launch \/ Initialized \/ OnRefreshEvents
    BY <1>1, <1>3, WindowPosts, CallsPosted, QueuesKeepType
<1>4. CASE OnCaptureScreenshot
    BY <1>1, <1>4, WindowPosts, CallsPosted, QueuesKeepType
<1>5. CASE OnStopAll
    BY <1>1, <1>5, WindowPosts, CallsPosted, QueuesKeepType
<1>6. CASE OnFrame
    <2>1. Paired /\ DbKeeps /\ (RecGets(<<>>) \/ \E x \in RecCalls : RecGets(<<x>>))
        BY <1>1, <1>6, WindowPosts, CallsPosted
    <2> QED
        BY <2>1, QueuesKeepType
<1>7. CASE OnSaveConfig \/ Close \/ OnStartAll
    <2>1. config' \in Forms
        BY <1>7, CallsPosted DEF OnSaveConfig, Close, OnStartAll
    <2>2. Save(config') \in DbCalls /\ Query \in DbCalls
        BY <2>1, CallsPosted
    <2>3. CASE OnSaveConfig
        BY <1>1, <2>2, <2>3, WindowPosts, QueuesKeepType
    <2>4. CASE Close
        BY <1>1, <2>2, <2>4, WindowPosts, CallsPosted, QueuesKeepType
    <2>5. CASE OnStartAll
        <3>1. RecGets(<<>>) \/ \E x \in RecCalls : RecGets(<<x>>)
            BY <1>1, <2>5, WindowPosts, CallsPosted
        <3> QED
            BY <1>1, <2>2, <2>5, <3>1, WindowPosts, QueuesKeepType
    <2> QED
        BY <1>7, <2>3, <2>4, <2>5
<1>8. CASE OnTelemetry
    <2>1. PICK pkt \in Packets : TelemetryArrives(pkt)
        BY <1>8, TelemetryPacket
    <2>2. Snapshot(pkt, "auto_event", TRUE) \in DbCalls /\ [op |-> "telemetry", pkt |-> pkt] \in DbCalls
        BY <1>1, CallsPosted
    <2> QED
        BY <2>1, <2>2, QueuesKeepType DEF TelemetryArrives
<1> QED
    BY <1>2, <1>3, <1>4, <1>5, <1>6, <1>7, <1>8 DEF WindowAction

LEMMA WindowTypesKept ==
    ASSUME TypeOK, CallsAreAwaited, WindowAction
    PROVE  WindowTypes'
<1>1. WindowTypes
    BY DEF TypeOK, WindowTypes
<1>2. /\ plan.inputs \in Nat /\ plan.minute \in Nat /\ inputs \in Nat /\ plan' = plan
    BY BoundsAreNat DEF WindowAction, Launch, Initialized, ApplyConfigToUi, Refreshed, QuitThreads,
        Edit, OnStartAll, OnStopAll, OnSaveConfig, OnTelemetry, OnFrame, OnCaptureScreenshot,
        OnRefreshEvents, Close, WorkersUnchanged, Input, InputOrFault
<1>3. CollectConfigFromUi \in Forms /\ [CollectConfigFromUi EXCEPT !.geometry = TRUE] \in Forms
    BY CallsPosted
<1>4. ui.threshold \in Thresholds /\ Append(asked, ui.threshold) \in Seq(Thresholds)
    BY <1>1 DEF WindowTypes, Forms
<1>5. CASE Launch
    BY <1>1, <1>2, <1>5 DEF Launch, WindowTypes
<1>6. CASE Initialized \/ Refreshed \/ QuitThreads
    BY <1>1, <1>2, <1>6 DEF Initialized, Refreshed, QuitThreads, WindowTypes, countVars,
        WindowKeeps
<1>7. CASE ApplyConfigToUi
    <2>1. reply \in Replies /\ reply.of = "load"
        BY <1>7 DEF TypeOK, FileTypeOK, CallsAreAwaited, ApplyConfigToUi
    <2>2. reply.cfg \in Forms
        BY <2>1 DEF Replies
    <2> QED
        BY <1>1, <1>2, <1>7, <2>2 DEF ApplyConfigToUi, WindowTypes, countVars
<1>8. CASE Edit
    <2>1. \/ ui' = [ui EXCEPT !.record = ~@] /\ eventTo' = eventTo
          \/ (\E t \in Thresholds : ui' = [ui EXCEPT !.threshold = t]) /\ eventTo' = eventTo
          \/ ui' = ui /\ eventTo' = plan.inputs
        BY <1>8 DEF Edit
    <2>2. /\ [ui EXCEPT !.record = ~@] \in Forms
          /\ \A t \in Thresholds : [ui EXCEPT !.threshold = t] \in Forms
        BY <1>1 DEF WindowTypes, Forms
    <2>3. ui' \in Forms
        BY <1>1, <2>1, <2>2 DEF WindowTypes
    <2>4. eventTo' \in 0..(plan.inputs + plan.minute)
        BY <1>1, <1>2, <2>1 DEF WindowTypes
    <2> QED
        BY <1>1, <1>2, <1>8, <2>3, <2>4 DEF Edit, Input, InputOrFault, WindowKeeps, WindowTypes
<1>9. CASE OnStartAll \/ OnSaveConfig
    <2>1. config' \in Forms /\ asked' \in Seq(Thresholds)
        BY <1>3, <1>4, <1>9 DEF OnStartAll, OnSaveConfig
    <2> QED
        BY <1>1, <1>2, <1>9, <2>1
        DEF OnStartAll, OnSaveConfig, Input, InputOrFault, WindowKeeps, WindowTypes
<1>10. CASE OnStopAll \/ OnRefreshEvents
    BY <1>1, <1>2, <1>10 DEF OnStopAll, OnRefreshEvents, Input, InputOrFault, WindowKeeps, WindowTypes
<1>11. CASE OnTelemetry
    <2>1. PICK pkt \in Packets : TelemetryArrives(pkt)
        BY <1>11, TelemetryPacket
    <2>2. lastPkt' \in Packets /\ alertActive' \in BOOLEAN
        BY <1>1, <2>1 DEF TelemetryArrives
    <2>3. captured' \in BOOLEAN
        BY <1>1, <2>1 DEF TelemetryArrives, WindowTypes
    <2>4. captures' = captures \/ captures' = Append(captures, pkt)
        BY <2>1 DEF TelemetryArrives
    <2>5. captures' \in Seq(Packets)
        BY <1>1, <2>4 DEF WindowTypes
    <2> QED
        BY <1>1, <1>2, <1>11, <2>2, <2>3, <2>5 DEF OnTelemetry, Input, InputOrFault, WindowTypes
<1>12. CASE OnFrame
    <2>1. hasFrame' \in BOOLEAN
        BY <1>1, <1>12 DEF OnFrame, WindowTypes
    <2> QED
        BY <1>1, <1>2, <1>12, <2>1 DEF OnFrame, InputOrFault, WindowTypes
<1>13. CASE OnCaptureScreenshot
    BY <1>1, <1>2, <1>13 DEF OnCaptureScreenshot, Input, InputOrFault, WindowTypes
<1>14. CASE Close
    BY <1>1, <1>2, <1>3, <1>4, <1>14 DEF Close, WindowKeeps, WindowTypes
<1> QED
    BY <1>5, <1>6, <1>7, <1>8, <1>9, <1>10, <1>11, <1>12, <1>13, <1>14 DEF WindowAction

\* The steps of the program, by who takes them.
ThreadEnd ==
    /\ ThreadEnds("db") \/ ThreadEnds("rec")
    /\ UNCHANGED <<storeVars, recordVars, windowVars, countVars, faults, plan>>
StoreAction == StoreStep /\ UNCHANGED <<recordVars, windowVars, countVars, plan>>
RecordAction == RecordStep /\ UNCHANGED <<storeVars, windowVars, countVars, plan>>
LEMMA Steps ==
    Next => WindowAction \/ StoreAction \/ RecordAction \/ ThreadEnd \/ Off
BY DEF Next, WindowStep, User, DatabaseThread, RecordThread, ThreadsJoined, Crash,
       WindowAction, ThreadEnd, StoreAction, RecordAction

LEMMA TypeStep == IInv /\ Next => TypeOK'
<1> SUFFICES ASSUME IInv, Next PROVE TypeOK'
    OBVIOUS
<1>1. TypeOK /\ CallsAreAwaited /\ CallIsUnderWay /\ SessionsAreApart /\ WindowTypes
    BY DEF IInv, TypeOK, WindowTypes
<1>2. /\ plan.faults \in Nat /\ faults \in 0..plan.faults
      /\ loop \in [Threads -> {"idle", "drain", "off"}] /\ quit \in BOOLEAN
      /\ FileTypeOK /\ RecorderTypeOK
      /\ plan \in Plans /\ DOMAIN queue = Threads
      /\ queue["db"] \in Seq(DbCalls) /\ queue["rec"] \in Seq(RecCalls)
    BY <1>1, BoundsAreNat DEF TypeOK, ThreadsTypeOK
<1>3. ASSUME QueuesTyped, FileTypeOK', RecorderTypeOK', WindowTypes', plan' \in Plans,
             faults' \in 0..plan'.faults, quit' \in BOOLEAN,
             loop' \in [Threads -> {"idle", "drain", "off"}]
      PROVE  TypeOK'
    BY <1>3 DEF TypeOK, ThreadsTypeOK, WindowTypes, QueuesTyped, Paired
<1>4. CASE WindowAction
    <2>1. QueuesTyped /\ WindowTypes'
        BY <1>1, <1>4, WindowQueues, WindowTypesKept
    <2>2. FileTypeOK' /\ RecorderTypeOK'
        <3>1. UNCHANGED <<disk, open, stmt, row, recordVars>> /\ (reply' = reply \/ reply' = NoReply)
            BY <1>4 DEF WindowAction, Launch, Initialized, ApplyConfigToUi, Refreshed, QuitThreads,
                Edit, OnStartAll, OnStopAll, OnSaveConfig, OnTelemetry, OnFrame, OnCaptureScreenshot,
                OnRefreshEvents, Close, WorkersUnchanged, Input, InputOrFault, storeVars
        <3>2. NoReply \in Replies
            BY DEF NoReply, Replies
        <3>3. FileTypeOK'
            BY <1>2, <3>1, <3>2 DEF FileTypeOK
        <3>4. RecorderTypeOK'
            BY <1>2, <3>1 DEF RecorderTypeOK, recordVars
        <3> QED
            BY <3>3, <3>4
    <2>3. /\ plan' = plan /\ (faults' = faults \/ Fault) /\ quit' \in BOOLEAN
          /\ loop' \in [Threads -> {"idle", "drain", "off"}]
        <3>1. /\ plan' = plan /\ (faults' = faults \/ Fault) /\ (quit' = quit \/ quit' = TRUE)
              /\ loop' = loop \/ loop' = AllAt("idle")
            BY <1>4 DEF WindowAction, Launch, Initialized, ApplyConfigToUi, Refreshed, QuitThreads,
                Edit, OnStartAll, OnStopAll, OnSaveConfig, OnTelemetry, OnFrame, OnCaptureScreenshot,
                OnRefreshEvents, Close, WorkersUnchanged, Input, InputOrFault, threadVars
        <3> QED
            BY <1>2, <3>1 DEF AllAt
    <2>4. faults' \in 0..plan'.faults
        BY <1>2, <2>3 DEF Fault
    <2> QED
        BY <1>2, <1>3, <2>1, <2>2, <2>3, <2>4
<1>5. CASE StoreAction
    <2>1. FileTypeOK'
        BY <1>1, <1>5, FilePart DEF StoreAction
    <2>2. /\ queue["db"] # <<>> /\ Paired /\ RecKeeps /\ (DbKeeps \/ DbReturns)
          /\ quit' = quit /\ loop' \in [Threads -> {"idle", "drain", "off"}]
          /\ faults' = faults \/ Fault
        BY <1>1, <1>5, StoreQueue DEF StoreAction
    <2>3. QueuesTyped
        <3>1. Tail(queue["db"]) \in Seq(DbCalls)
            BY <1>2, <2>2, TailOf
        <3> QED
            BY <1>2, <2>2, <3>1, Zenon DEF QueuesTyped, DbKeeps, DbReturns, RecKeeps
    <2>4. /\ UNCHANGED <<recordVars, windowVars, countVars, plan>>
        BY <1>5 DEF StoreAction
    <2>5. RecorderTypeOK' /\ WindowTypes'
        BY <1>1, <1>2, <2>4 DEF RecorderTypeOK, recordVars, WindowTypes, windowVars, countVars
    <2>6. faults' \in 0..plan'.faults
        BY <1>2, <2>2, <2>4 DEF Fault
    <2> QED
        BY <1>2, <1>3, <2>1, <2>2, <2>3, <2>4, <2>5, <2>6
<1>6. CASE RecordAction
    <2>1. RecorderTypeOK'
        BY <1>1, <1>6, RecorderPart DEF RecordAction
    <2>2. /\ queue["rec"] # <<>> /\ Paired /\ DbKeeps /\ (RecKeeps \/ RecReturns)
          /\ quit' = quit /\ loop' \in [Threads -> {"idle", "drain", "off"}]
          /\ faults' = faults \/ Fault
        BY <1>1, <1>6, RecordQueue DEF RecordAction, SessionsAreApart
    <2>3. QueuesTyped
        <3>1. Tail(queue["rec"]) \in Seq(RecCalls)
            BY <1>2, <2>2, TailOf
        <3> QED
            BY <1>2, <2>2, <3>1, Zenon DEF QueuesTyped, DbKeeps, RecReturns, RecKeeps
    <2>4. UNCHANGED <<storeVars, windowVars, countVars, plan>>
        BY <1>6 DEF RecordAction
    <2>5. FileTypeOK' /\ WindowTypes'
        BY <1>1, <1>2, <2>4 DEF FileTypeOK, storeVars, WindowTypes, windowVars, countVars
    <2>6. faults' \in 0..plan'.faults
        BY <1>2, <2>2, <2>4 DEF Fault
    <2> QED
        BY <1>2, <1>3, <2>1, <2>2, <2>3, <2>4, <2>5, <2>6
<1>7. CASE ThreadEnd
    <2>1. UNCHANGED <<storeVars, recordVars, windowVars, countVars, faults, plan, queue, quit>>
        BY <1>7 DEF ThreadEnd, ThreadEnds
    <2>2. loop' \in [Threads -> {"idle", "drain", "off"}]
        BY <1>2, <1>7 DEF ThreadEnd, ThreadEnds
    <2>3. FileTypeOK' /\ WindowTypes' /\ RecorderTypeOK'
        BY <1>1, <1>2, <2>1
        DEF FileTypeOK, storeVars, WindowTypes, windowVars, countVars, RecorderTypeOK, recordVars
    <2>4. QueuesTyped
        BY <1>2, <2>1 DEF QueuesTyped, Paired
    <2> QED
        BY <1>2, <1>3, <2>1, <2>2, <2>3, <2>4
<1>8. CASE Off
    <2>1. /\ UNCHANGED <<disk, faults, plan, frameDirs, videos, meta, inputs, runs>>
          /\ queue' = Idle /\ loop' = AllAt("off") /\ quit' = FALSE
        BY <1>8 DEF Off
    <2>2. QueuesTyped
        BY <2>1 DEF QueuesTyped, Paired, Idle, Threads
    <2>3. FileTypeOK'
        BY <1>2, <1>8 DEF Off, FileTypeOK, NoReply, Replies
    <2>4. RecorderTypeOK'
        <3>1. Len(frameDirs) \in Nat /\ Len(videos) \in Nat
            BY <1>2, LenProperties DEF RecorderTypeOK
        <3>2. rec' \in [running : BOOLEAN, count : Nat, seq : Nat, dir : 0..Len(frameDirs),
                        video : 0..(Len(videos) + 1)]
            <4>1. rec' = [running |-> FALSE, count |-> 0, seq |-> 0, dir |-> 0, video |-> 0]
                BY <1>8 DEF Off, Stopped
            <4> QED
                BY <3>1, <4>1
        <3>3. ffmpeg' \in BOOLEAN /\ UNCHANGED <<frameDirs, videos, meta>>
            BY <1>8 DEF Off
        <3> QED
            BY <1>2, <3>2, <3>3 DEF RecorderTypeOK
    <2>5. WindowTypes'
        <3>1. DefaultConfig \in Forms
            BY DefaultFits
        <3>2. NoPacket \in Packets
            BY DEF NoPacket, Packets
        <3>3. asked' \in Seq(Thresholds)
            <4>1. asked \in Seq(Thresholds) /\ Len(asked) \in Nat
                BY <1>1, LenProperties DEF WindowTypes
            <4>2. disk.config.no \in 0..Len(asked)
                BY <1>2, <4>1 DEF IInv, SavesInOrder, FileTypeOK, Files, ConfigRows, NoRow
            <4>3. SubSeq(asked, 1, disk.config.no) \in Seq(Thresholds)
                BY <4>1, <4>2, SubSeqProperties
            <4> QED
                BY <1>8, <4>3 DEF Off
        <3>4. plan.inputs \in Nat /\ plan.minute \in Nat
            BY <1>1, BoundsAreNat
        <3>5. captures' \in Seq(Packets)
            BY <1>8 DEF Off
        <3>6. 0 \in 0..(plan.inputs + plan.minute)
            BY <3>4
        <3> QED
            BY <1>1, <1>8, <2>1, <3>1, <3>2, <3>3, <3>5, <3>6 DEF Off, WindowTypes
    <2>6. loop' \in [Threads -> {"idle", "drain", "off"}]
        BY <2>1 DEF AllAt
    <2> QED
        BY <1>2, <1>3, <2>1, <2>2, <2>3, <2>4, <2>5, <2>6
<1> QED
    BY <1>4, <1>5, <1>6, <1>7, <1>8, Steps

-----------------------------------------------------------------------------
\* Recordings.
LEMMA HeadKept ==
    ASSUME NEW S, NEW q \in Seq(S), q # <<>>
    PROVE  /\ \A x \in S : q \o <<x>> # <<>> /\ Head(q \o <<x>>) = Head(q)
           /\ \A x, y \in S : q \o <<x, y>> # <<>> /\ Head(q \o <<x, y>>) = Head(q)
           /\ q \o <<>> = q
<1>1. Len(q) \in Nat \ {0} /\ Head(q) = q[1]
    BY TailOf
<1>2. ASSUME NEW x \in S PROVE q \o <<x>> # <<>> /\ Head(q \o <<x>>) = Head(q)
    <2> DEFINE p == q \o <<x>>
    <2>1. p \in Seq(S) /\ p # <<>> /\ \A i \in 1..Len(q) : p[i] = q[i]
        BY PostedOne
    <2>2. Head(p) = p[1]
        BY <2>1, TailOf
    <2> HIDE DEF p
    <2>3. Head(p) = Head(q)
        BY <1>1, <2>1, <2>2
    <2> QED
        BY <2>1, <2>3 DEF p
<1>3. ASSUME NEW x \in S, NEW y \in S PROVE q \o <<x, y>> # <<>> /\ Head(q \o <<x, y>>) = Head(q)
    <2> DEFINE p == q \o <<x, y>>
    <2>1. p \in Seq(S) /\ p # <<>> /\ \A i \in 1..Len(q) : p[i] = q[i]
        BY PostedTwo
    <2>2. Head(p) = p[1]
        BY <2>1, TailOf
    <2> HIDE DEF p
    <2>3. Head(p) = Head(q)
        BY <1>1, <2>1, <2>2
    <2> QED
        BY <2>1, <2>3 DEF p
<1> QED
    BY <1>2, <1>3, ConcatEmptySeq

\* Nobody but the recorder takes a call off its queue.
LEMMA RecorderWaits ==
    ASSUME TypeOK, WindowAction \/ StoreAction \/ ThreadEnd, queue["rec"] # <<>>
    PROVE  queue'["rec"] # <<>> /\ Request' = Request
<1>1. /\ DOMAIN queue = Threads /\ queue["rec"] \in Seq(RecCalls)
    BY DEF TypeOK, ThreadsTypeOK
<1>2. RecKeeps \/ RecGets(<<>>) \/ \E x \in RecCalls : RecGets(<<x>>)
    <2>1. CASE ApplyConfigToUi \/ Refreshed \/ QuitThreads \/ Edit
        BY <2>1 DEF ApplyConfigToUi, Refreshed, QuitThreads, Edit, threadVars, RecKeeps
    <2>2. CASE Launch \/ Initialized \/ OnRefreshEvents \/ OnCaptureScreenshot \/ OnSaveConfig
        BY <1>1, <2>2, WindowPosts
    <2>3. CASE OnTelemetry
        BY <2>3, TelemetryPacket DEF TelemetryArrives
    <2>4. CASE OnStopAll \/ Close \/ OnStartAll \/ OnFrame
        BY <1>1, <2>4, WindowPosts, CallsPosted
    <2>5. CASE StoreAction
        BY <2>5, StoreQueue DEF StoreAction
    <2>6. CASE ThreadEnd
        BY <2>6 DEF ThreadEnd, ThreadEnds, RecKeeps
    <2> QED
        BY <2>1, <2>2, <2>3, <2>4, <2>5, <2>6 DEF WindowAction
<1> DEFINE q == queue["rec"]
<1>3. /\ \A x \in RecCalls : q \o <<x>> # <<>> /\ Head(q \o <<x>>) = Head(q)
      /\ q \o <<>> = q
    BY <1>1, HeadKept
<1>4. CASE RecKeeps \/ RecGets(<<>>)
    BY <1>3, <1>4, Zenon DEF RecKeeps, RecGets, Request
<1>5. ASSUME NEW x \in RecCalls, RecGets(<<x>>)
      PROVE  queue'["rec"] # <<>> /\ Request' = Request
    <2>1. queue'["rec"] = q \o <<x>>
        BY <1>5 DEF RecGets
    <2> QED
        BY <1>3, <2>1 DEF Request
<1> QED
    BY <1>2, <1>4, <1>5

LEMMA RecordingsStep ==
    ASSUME TypeOK, SessionsAreApart, RecordStep
    PROVE  SessionsAreApart' /\ \A n \in DOMAIN videos :
                                   n \in DOMAIN videos' /\ videos'[n].dir = videos[n].dir
<1>1. /\ frameDirs \in Seq(SUBSET Nat) /\ Len(frameDirs) \in Nat
      /\ DOMAIN frameDirs = 1..Len(frameDirs)
      /\ videos \in Seq(VideoRows) /\ Len(videos) \in Nat /\ DOMAIN videos = 1..Len(videos)
      /\ rec \in [running : BOOLEAN, count : Nat, seq : Nat, dir : 0..Len(frameDirs),
                  video : 0..(Len(videos) + 1)]
    BY LenProperties DEF TypeOK, RecorderTypeOK, VideoRows
<1>2. \A n \in DOMAIN videos : videos[n].dir \in 1..Len(frameDirs)
    <2>1. \A n \in DOMAIN videos : videos[n] \in VideoRows
        BY <1>1, ElementOfSeq
    <2> QED
        BY <2>1 DEF VideoRows
<1>3. /\ VideoIsOneSession
      /\ rec.dir > 0 => /\ rec.video > 0
                        /\ \A n \in DOMAIN videos : videos[n].dir = rec.dir <=> n = rec.video
      /\ rec.running => rec.dir > 0 /\ rec.video \notin DOMAIN videos
      /\ ffmpeg => /\ queue["rec"] # <<>> /\ Request.op = "stop" /\ rec.dir > 0 /\ ~rec.running
    BY DEF SessionsAreApart
<1>4. CASE RecordStart
    <2>1. FreeName(videos) = Len(videos) + 1
        BY <1>1, FreeNameIs
    <2>2. /\ ~ffmpeg' /\ videos' = videos
          /\ rec' = [running |-> TRUE, count |-> 0, seq |-> 0, dir |-> Len(frameDirs) + 1,
                     video |-> Len(videos) + 1]
        BY <1>3, <1>4, <2>1 DEF RecordStart
    <2>3. \A d \in 1..Len(frameDirs) : frameDirs'[d] = frameDirs[d]
        BY <1>1, <1>4, AppendProperties DEF RecordStart
    <2>4. VideoIsOneSession'
        BY <1>2, <1>3, <2>2, <2>3 DEF VideoIsOneSession
    <2>5. /\ rec'.dir > 0 /\ rec'.video > 0 /\ rec'.video \notin DOMAIN videos
          /\ \A n \in DOMAIN videos : videos[n].dir # rec'.dir /\ n # rec'.video
        BY <1>1, <1>2, <2>2
    <2> QED
        BY <2>2, <2>4, <2>5 DEF SessionsAreApart
<1>5. CASE Enqueue
    <2>1. ~ffmpeg' /\ videos' = videos
        BY <1>3, <1>5 DEF Enqueue
    <2>2. rec'.running = rec.running /\ rec'.dir = rec.dir /\ rec'.video = rec.video
        BY <1>1, <1>5 DEF Enqueue
    <2>3. \A d \in 1..Len(frameDirs) : ~rec.running \/ d # rec.dir => frameDirs'[d] = frameDirs[d]
        BY <1>1, <1>5 DEF Enqueue
    <2>4. \A n \in DOMAIN videos : frameDirs'[videos[n].dir] = frameDirs[videos[n].dir]
        BY <1>2, <1>3, <2>3
    <2>5. VideoIsOneSession'
        BY <1>3, <2>1, <2>4 DEF VideoIsOneSession
    <2> QED
        BY <1>3, <2>1, <2>2, <2>5 DEF SessionsAreApart
<1>6. CASE RecordStop \/ Compose
    <2>1. /\ frameDirs' = frameDirs /\ rec'.dir = rec.dir /\ rec'.video = rec.video
          /\ ~rec'.running
          /\ ffmpeg' => queue'["rec"] # <<>> /\ Request'.op = "stop" /\ rec.dir > 0
        BY <1>1, <1>3, <1>6 DEF RecordStop, Compose, Request, Running
    <2>2. \A d \in 1..Len(frameDirs) : Readable(frameDirs[d]) \in SUBSET Nat
        BY <1>1, ElementOfSeq DEF Readable
    <2>3. videos' = videos \/ \E frames \in {{}, Readable(frameDirs[rec.dir])} :
              rec.dir > 0 /\ videos' = Written(frames)
        BY <1>3, <1>6 DEF RecordStop, Compose
    <2>4. CASE videos' = videos
        <3>1. VideoIsOneSession'
            BY <1>3, <2>1, <2>4 DEF VideoIsOneSession
        <3> QED
            BY <1>3, <2>1, <2>4, <3>1 DEF SessionsAreApart
    <2>5. ASSUME NEW frames \in {{}, Readable(frameDirs[rec.dir])},
                 rec.dir > 0, videos' = Written(frames)
          PROVE  SessionsAreApart' /\ \A n \in DOMAIN videos :
                                         n \in DOMAIN videos' /\ videos'[n].dir = videos[n].dir
        <3>1. rec.dir \in 1..Len(frameDirs) /\ rec.video > 0
            BY <1>1, <1>3, <2>5
        <3>2. frames \in SUBSET Nat
            BY <2>2, <3>1
        <3>3. /\ rec.video \in DOMAIN videos'
              /\ videos'[rec.video] = [dir |-> rec.dir, frames |-> frames]
              /\ DOMAIN videos' = DOMAIN videos \cup {rec.video}
              /\ \A n \in DOMAIN videos : n # rec.video => videos'[n] = videos[n]
            BY <2>5, <3>1, <3>2, WrittenIs DEF TypeOK
        <3>4. videos'[rec.video].dir = rec.dir /\ videos'[rec.video].frames = frames
            BY <3>3
        <3>5. \A n \in DOMAIN videos' : videos'[n].dir = rec.dir <=> n = rec.video
            BY <1>3, <2>5, <3>3, <3>4
        <3>6. VideoIsOneSession'
            <4> SUFFICES ASSUME NEW n \in DOMAIN videos'
                         PROVE  /\ \A k \in DOMAIN videos' :
                                      videos'[k].dir = videos'[n].dir => k = n
                                /\ videos'[n].frames \in
                                      {{}, Readable(frameDirs'[videos'[n].dir])}
                BY DEF VideoIsOneSession
            <4>1. CASE n = rec.video
                BY <2>1, <3>4, <3>5, <4>1
            <4>2. CASE n # rec.video
                BY <1>3, <2>1, <3>3, <3>5, <4>2 DEF VideoIsOneSession
            <4> QED
                BY <4>1, <4>2
        <3> QED
            BY <1>3, <2>1, <2>5, <3>1, <3>3, <3>4, <3>5, <3>6 DEF SessionsAreApart
    <2> QED
        BY <2>3, <2>4, <2>5
<1> QED
    BY <1>4, <1>5, <1>6 DEF RecordStep

LEMMA SessionsStep ==
    ASSUME TypeOK, SessionsAreApart, Next
    PROVE  SessionsAreApart' /\ \A n \in DOMAIN videos :
                                   n \in DOMAIN videos' /\ videos'[n].dir = videos[n].dir
<1>1. CASE RecordAction
    BY <1>1, RecordingsStep DEF RecordAction
<1>2. CASE Off
    <2>1. /\ UNCHANGED <<frameDirs, videos>> /\ ffmpeg' = FALSE
          /\ rec' = [running |-> FALSE, count |-> 0, seq |-> 0, dir |-> 0, video |-> 0]
        BY <1>2 DEF Off, Stopped
    <2>2. rec'.dir = 0 /\ rec'.running = FALSE
        BY <2>1
    <2> QED
        BY <2>1, <2>2 DEF SessionsAreApart, VideoIsOneSession
<1>3. CASE WindowAction \/ StoreAction \/ ThreadEnd
    <2>1. UNCHANGED recordVars
        BY <1>3 DEF WindowAction, Launch, Initialized, ApplyConfigToUi, Refreshed, QuitThreads,
            Edit, OnStartAll, OnStopAll, OnSaveConfig, OnTelemetry, OnFrame, OnCaptureScreenshot,
            OnRefreshEvents, Close, WorkersUnchanged, Input, InputOrFault, StoreAction, ThreadEnd
    <2>2. queue["rec"] # <<>> => queue'["rec"] # <<>> /\ Request' = Request
        BY <1>3, RecorderWaits
    <2> QED
        BY <2>1, <2>2 DEF SessionsAreApart, VideoIsOneSession, recordVars
<1> QED
    BY <1>1, <1>2, <1>3, Steps

-----------------------------------------------------------------------------
\* The calls of the database.
LEMMA StatementIs ==
    ASSUME TypeOK, CallIsUnderWay, queue["db"] # <<>>
    PROVE  /\ Call \in DbCalls
           /\ At("create") => stmt = "idle" /\ Call.op = "init"
           /\ At("drop") => stmt = "drop" /\ Call.op = "init"
           /\ At("recreate") => stmt = "recreate" /\ Call.op = "init"
           /\ At("select") => stmt = "idle" /\ Call.op \in {"load", "events"}
           /\ At("replace") => stmt = "idle" /\ Call.op = "config"
           /\ At("insert") => stmt = "idle" /\ HasPacket(Call)
           /\ At("detection_object") => stmt = "detection_object" /\ HasPacket(Call)
           /\ At("gps") => stmt = "gps" /\ HasPacket(Call)
           /\ At("event") => stmt = "event" /\ Call.op = "snapshot"
<1>1. Call \in DbCalls
    BY TailOf DEF TypeOK, Call
<1>2. stmt \in {"idle", "drop", "recreate", "detection_object", "gps", "event"}
    BY DEF TypeOK, FileTypeOK
<1>3. Call.op \in {"init", "load", "events", "config", "telemetry", "snapshot"}
    BY <1>1, CallFields
<1> QED
    BY <1>1, <1>2, <1>3 DEF At, FirstStatement, CallIsUnderWay, Inserted, HasPacket

\* A call goes on, or it returns with its answer if it has one.
LEMMA StoreReturns ==
    ASSUME TypeOK, CallIsUnderWay, StoreStep
    PROVE  \/ DbKeeps /\ reply' = reply
           \/ /\ DbReturns /\ stmt' = "idle"
              /\ Call.op \in Blocking => reply' # NoReply /\ reply'.of = Call.op
              /\ Call.op \notin Blocking => reply' = reply
<1>1. queue["db"] # <<>> /\ DOMAIN queue = Threads /\ "db" \in Threads
    BY StoreQueue DEF TypeOK, ThreadsTypeOK, Threads
<1>2. Call \in DbCalls /\ Call.op \in {"init", "load", "events", "config", "telemetry", "snapshot"}
    BY <1>1, StatementIs, CallFields
<1>3. ASSUME Return PROVE DbReturns /\ stmt' = "idle"
    BY <1>1, <1>3 DEF Return, Finished, DbReturns
<1>4. \A next : Continue(next) => DbKeeps /\ reply' = reply
    BY DEF Continue, DbKeeps
<1>5. CASE EnsureConnection
    <2>1. CASE Answer(Refused(Call.op))
        BY <1>2, <1>3, <2>1 DEF Answer, Refused, Blocking, NoReply
    <2> QED
        BY <1>5, <2>1 DEF EnsureConnection, DbKeeps
<1>6. CASE CreateTables
    <2>1. Continue("drop") \/ Answer([of |-> "init", ok |-> FALSE])
        BY <1>6 DEF CreateTables
    <2>2. Call.op = "init"
        BY <1>1, <1>6, StatementIs DEF CreateTables
    <2> QED
        BY <1>3, <1>4, <2>1, <2>2 DEF Answer, Blocking, NoReply
<1>7. CASE DropEvents
    BY <1>4, <1>7 DEF DropEvents
<1>8. CASE CreateEvents
    <2>1. \E b \in BOOLEAN : Answer([of |-> "init", ok |-> b])
        BY <1>8 DEF CreateEvents
    <2>2. Call.op = "init"
        BY <1>1, <1>8, StatementIs DEF CreateEvents
    <2> QED
        BY <1>3, <2>1, <2>2 DEF Answer, Blocking, NoReply
<1>9. CASE LoadConfig
    <2>1. Call.op = "load" /\ Return /\ reply' # NoReply /\ reply'.of = "load"
        BY <1>9 DEF LoadConfig, Answer, Refused, NoReply
    <2> QED
        BY <1>3, <2>1 DEF Blocking
<1>10. CASE QueryEvents
    <2>1. /\ Call.op = "events"
          /\ \/ \E shown : Answer([of |-> "events", rows |-> shown])
             \/ Answer(Refused("events"))
        BY <1>10 DEF QueryEvents
    <2>2. Return /\ reply' # NoReply /\ reply'.of = "events"
        BY <2>1 DEF Answer, Refused, NoReply
    <2> QED
        BY <1>3, <2>1, <2>2 DEF Blocking
<1>11. CASE SaveConfigAsync
    <2>1. Call.op = "config"
        BY <1>1, <1>11, StatementIs DEF SaveConfigAsync
    <2> QED
        BY <1>3, <1>11, <2>1 DEF SaveConfigAsync, ReturnNothing, Blocking
<1>12. CASE InsertTelemetry \/ InsertObjects \/ InsertGps \/ InsertSnapshotEvent
    <2>1. HasPacket(Call)
        BY <1>1, <1>12, StatementIs
        DEF InsertTelemetry, InsertObjects, InsertGps, InsertSnapshotEvent, HasPacket
    <2>2. ReturnNothing \/ \E next : Continue(next)
        BY <1>12 DEF InsertTelemetry, InsertObjects, InsertGps, InsertSnapshotEvent
    <2> QED
        BY <1>3, <1>4, <2>1, <2>2 DEF ReturnNothing, Blocking, HasPacket
<1> QED
    BY <1>5, <1>6, <1>7, <1>8, <1>9, <1>10, <1>11, <1>12 DEF StoreStep

LEMMA AwaitedByStore ==
    ASSUME TypeOK, CallsAreAwaited, CallIsUnderWay, StoreAction
    PROVE  CallsAreAwaited'
<1> DEFINE q == queue["db"]
<1>1. /\ q \in Seq(DbCalls) /\ q # <<>> /\ UNCHANGED <<life, eventTo, captures>>
      /\ life # "off"
    BY StoreQueue DEF StoreAction, TypeOK, windowVars, countVars, CallsAreAwaited, Idle, Threads
<1>2. /\ Len(q) \in Nat \ {0} /\ DOMAIN q = 1..Len(q) /\ Call = q[1]
      /\ DOMAIN Tail(q) = 1..(Len(q) - 1) /\ Len(Tail(q)) = Len(q) - 1
      /\ \A i \in 1..(Len(q) - 1) : Tail(q)[i] = q[i + 1]
      /\ Tail(q) = <<>> <=> Len(q) = 1
    BY <1>1, TailOf, Zenon DEF Call
<1>3. /\ \A i \in DOMAIN q : /\ q[i].op \in Blocking => Waiting /\ i = Len(q)
                             /\ life \in {"off", "init", "load"} => q[i].op \in Blocking
      /\ Waiting => q[Len(q)] = AwaitedCall
      /\ reply = NoReply
    BY <1>1 DEF CallsAreAwaited
<1>4. AwaitedCall' = AwaitedCall
    BY <1>1 DEF AwaitedCall, Query
<1>5. AwaitedCall.op = (IF life \in {"init", "load"} THEN life ELSE "events")
    BY DEF AwaitedCall, Query
<1>6. CASE DbKeeps /\ reply' = reply
    BY <1>1, <1>3, <1>4, <1>6 DEF CallsAreAwaited, Waiting, DbKeeps
<1>7. CASE DbReturns /\ Call.op \in Blocking /\ reply' # NoReply /\ reply'.of = Call.op
    <2>1. Waiting /\ Len(q) = 1 /\ queue'["db"] = <<>>
        <3>1. 1 \in DOMAIN q /\ q[1].op \in Blocking
            BY <1>2, <1>7
        <3>2. Waiting /\ Len(q) = 1
            BY <1>3, <3>1
        <3> QED
            BY <1>2, <1>7, <3>2, Zenon DEF DbReturns
    <2>2. Call.op = (IF life = "refresh" THEN "events" ELSE life)
        BY <1>2, <1>3, <1>5, <2>1 DEF Waiting
    <2>3. life \in {"init", "load", "refresh"} /\ ~Waiting'
        BY <1>7, <2>1 DEF Waiting
    <2>4. life = "init" => captures = <<>>
        BY DEF CallsAreAwaited
    <2> QED
        BY <1>1, <1>7, <2>1, <2>2, <2>3, <2>4 DEF CallsAreAwaited
<1>8. CASE DbReturns /\ Call.op \notin Blocking /\ reply' = reply
    <2>1. Waiting' = Waiting /\ life \notin {"off", "init", "load"}
        BY <1>1, <1>2, <1>3, <1>8 DEF Waiting
    <2>2. Waiting => Len(q) > 1 /\ Tail(q)[Len(Tail(q))] = AwaitedCall
        <3>1. Waiting => Len(q) # 1
            BY <1>2, <1>3, <1>5, <1>8, <2>1 DEF Blocking, Waiting
        <3>2. Len(q) > 1 => Tail(q)[Len(q) - 1] = q[Len(q)]
            BY <1>2
        <3> QED
            BY <1>2, <1>3, <3>1, <3>2
    <2>3. \A i \in DOMAIN Tail(q) : Tail(q)[i].op \in Blocking => Waiting /\ i = Len(Tail(q))
        BY <1>2, <1>3
    <2> HIDE DEF q
    <2> QED
        BY <1>1, <1>2, <1>3, <1>4, <1>8, <2>1, <2>2, <2>3 DEF CallsAreAwaited, DbReturns, q
<1> QED
    BY <1>6, <1>7, <1>8, StoreReturns DEF StoreAction

\* While the window runs, nothing is awaited; it goes on running, or awaits the last
\* call it posts.
LEMMA AwaitedByPost ==
    ASSUME TypeOK, CallsAreAwaited, life = "running", UNCHANGED reply,
           NEW x \in DbCalls, NEW y \in DbCalls,
           x.op \notin Blocking \/ (DbGets(<<x>>) /\ x = AwaitedCall'),
           \/ DbKeeps /\ life' \in {"running", "closing"}
           \/ DbGets(<<x>>) /\ (IF x.op \in Blocking THEN life' = "refresh"
                                                     ELSE life' \in {"running", "closing"})
           \/ DbGets(<<x, y>>) /\ (IF y.op \in Blocking THEN life' = "refresh" /\ y = AwaitedCall'
                                                        ELSE life' = "running")
    PROVE  CallsAreAwaited'
<1> DEFINE q == queue["db"]
<1>1. q \in Seq(DbCalls) /\ Len(q) \in Nat /\ DOMAIN q = 1..Len(q)
    BY LenProperties DEF TypeOK
<1>2. reply = NoReply /\ \A i \in 1..Len(q) : q[i].op \notin Blocking
    BY <1>1 DEF CallsAreAwaited, Waiting
<1> HIDE DEF q
<1>3. CASE DbKeeps /\ life' \in {"running", "closing"}
    BY <1>1, <1>2, <1>3 DEF CallsAreAwaited, Waiting, DbKeeps, q
<1>4. CASE DbGets(<<x>>) /\ (IF x.op \in Blocking THEN life' = "refresh"
                                                  ELSE life' \in {"running", "closing"})
    <2> DEFINE p == q \o <<x>>
    <2>1. /\ queue'["db"] = p /\ p # <<>> /\ Len(p) = Len(q) + 1
          /\ DOMAIN p = 1..(Len(q) + 1) /\ p[Len(q) + 1] = x
          /\ \A i \in 1..Len(q) : p[i] = q[i]
        BY <1>1, <1>4, PostedOne DEF DbGets, q
    <2> HIDE DEF p
    <2> QED
        BY <1>1, <1>2, <1>4, <2>1 DEF CallsAreAwaited, Waiting
<1>5. CASE DbGets(<<x, y>>) /\ (IF y.op \in Blocking THEN life' = "refresh" /\ y = AwaitedCall'
                                                     ELSE life' = "running")
    <2> DEFINE p == q \o <<x, y>>
    <2>1. /\ queue'["db"] = p /\ p # <<>> /\ Len(p) = Len(q) + 2
          /\ DOMAIN p = 1..(Len(q) + 2) /\ p[Len(q) + 1] = x /\ p[Len(q) + 2] = y
          /\ \A i \in 1..Len(q) : p[i] = q[i]
        BY <1>1, <1>5, PostedTwo DEF DbGets, q
    <2> HIDE DEF p
    <2>2. x.op \notin Blocking
        <3>1. CASE DbGets(<<x>>)
            <4>1. Len(q \o <<x>>) = Len(q) + 1
                BY <1>1, PostedOne
            <4> QED
                BY <1>1, <2>1, <3>1, <4>1 DEF DbGets, q
        <3> QED
            BY <3>1
    <2> QED
        BY <1>1, <1>2, <1>5, <2>1, <2>2 DEF CallsAreAwaited, Waiting
<1> QED
    BY <1>3, <1>4, <1>5

LEMMA AwaitedByWindow ==
    ASSUME TypeOK, CallsAreAwaited, WindowAction
    PROVE  CallsAreAwaited'
<1>1. DOMAIN queue = Threads /\ Query \in DbCalls /\ Query.op \in Blocking
    BY CallsPosted DEF TypeOK, ThreadsTypeOK, Query, Blocking
<1>2. CASE Launch
    <2>1. /\ life = "off" /\ life' = "init" /\ reply = NoReply /\ reply' = reply
          /\ captures' = captures /\ captures = <<>> /\ queue = Idle
        BY <1>2 DEF Launch, WorkersUnchanged, storeVars, CallsAreAwaited
    <2>2. queue'["db"] = <<[op |-> "init"]>>
        <3>1. queue["db"] = <<>>
            BY <2>1 DEF Idle, Threads
        <3>2. queue'["db"] = <<>> \o <<[op |-> "init"]>>
            BY <1>1, <1>2, <3>1, WindowPosts DEF DbGets
        <3> QED
            BY <3>2
    <2> QED
        BY <2>1, <2>2 DEF CallsAreAwaited, Waiting, AwaitedCall, Blocking
<1>3. CASE Initialized
    <2>1. life = "init" /\ life' = "load" /\ reply' = NoReply /\ queue["db"] = <<>>
        BY <1>3 DEF Initialized, CallsAreAwaited
    <2>2. queue'["db"] = <<[op |-> "load"]>>
        <3>1. queue'["db"] = <<>> \o <<[op |-> "load"]>>
            BY <1>1, <1>3, <2>1, WindowPosts DEF DbGets
        <3> QED
            BY <3>1
    <2> QED
        BY <2>1, <2>2 DEF CallsAreAwaited, Waiting, AwaitedCall, Blocking
<1>4. CASE ApplyConfigToUi \/ Refreshed
    <2>1. life' = "running" /\ reply' = NoReply /\ queue["db"] = <<>> /\ queue' = queue
        BY <1>4 DEF ApplyConfigToUi, Refreshed, CallsAreAwaited, threadVars
    <2> QED
        BY <2>1 DEF CallsAreAwaited, Waiting
<1>5. CASE QuitThreads
    <2>1. life = "closing" /\ life' = "quit" /\ UNCHANGED <<reply, queue>>
        BY <1>5 DEF QuitThreads, WorkersUnchanged, storeVars
    <2> QED
        BY <2>1 DEF CallsAreAwaited, Waiting
<1>6. CASE Edit \/ OnStopAll \/ OnFrame
    <2>1. life = "running" /\ life' = "running" /\ UNCHANGED reply /\ DbKeeps
        BY <1>1, <1>6, WindowPosts
        DEF Edit, OnStopAll, OnFrame, Input, InputOrFault, storeVars, DbKeeps
    <2> QED
        BY <2>1 DEF CallsAreAwaited, Waiting, DbKeeps
<1>7. CASE OnRefreshEvents
    <2>1. life = "running" /\ life' = "refresh" /\ UNCHANGED <<reply, eventTo>>
        BY <1>7 DEF OnRefreshEvents, Input, InputOrFault, storeVars, WindowKeeps
    <2>2. AwaitedCall' = Query
        BY <2>1 DEF AwaitedCall, Query
    <2> QED
        BY <1>1, <1>7, <2>1, <2>2, WindowPosts, AwaitedByPost
<1>8. CASE OnCaptureScreenshot
    <2> DEFINE x == Snapshot(lastPkt, "manual", alertActive)
    <2>1. life = "running" /\ life' = "running" /\ UNCHANGED reply
        BY <1>8 DEF OnCaptureScreenshot, Input, InputOrFault, storeVars
    <2>2. x \in DbCalls /\ x.op \notin Blocking
        <3>1. lastPkt \in Packets /\ alertActive \in BOOLEAN /\ "manual" \in Reasons
            BY DEF TypeOK, Reasons
        <3>2. x \in DbCalls
            BY <3>1, CallsPosted
        <3>3. x.op = "snapshot"
            BY DEF Snapshot
        <3> QED
            BY <3>2, <3>3 DEF Blocking
    <2>3. DbGets(<<x>>)
        BY <1>1, <1>8, WindowPosts
    <2> HIDE DEF x
    <2> QED
        BY <2>1, <2>2, <2>3, AwaitedByPost
<1>9. CASE OnSaveConfig \/ Close \/ OnStartAll
    <2> DEFINE x == Save(config')
    <2>1. /\ life = "running" /\ UNCHANGED <<reply, eventTo>> /\ config' \in Forms
          /\ life' = (IF OnStartAll THEN "refresh" ELSE life')
          /\ OnSaveConfig => life' = "running"
          /\ Close => life' = "closing"
        BY <1>9, CallsPosted
        DEF OnSaveConfig, Close, OnStartAll, Input, InputOrFault, storeVars, WorkersUnchanged,
            WindowKeeps
    <2>2. x \in DbCalls /\ x.op \notin Blocking
        <3>1. x \in DbCalls
            BY <2>1, CallsPosted
        <3>2. x.op = "config"
            BY DEF Save
        <3> QED
            BY <3>1, <3>2 DEF Blocking
    <2>3. /\ OnSaveConfig => DbGets(<<x>>)
          /\ Close => DbGets(<<x>>)
          /\ OnStartAll => DbGets(<<x, Query>>)
        BY <1>1, WindowPosts
    <2>4. life' = "refresh" => AwaitedCall' = Query
        BY <2>1 DEF AwaitedCall, Query
    <2> HIDE DEF x
    <2>5. CASE OnSaveConfig \/ Close
        BY <2>1, <2>2, <2>3, <2>5, AwaitedByPost
    <2>6. CASE OnStartAll
        <3>1. life' = "refresh"
            BY <2>6 DEF OnStartAll
        <3> QED
            BY <1>1, <2>1, <2>2, <2>3, <2>4, <2>6, <3>1, AwaitedByPost
    <2> QED
        BY <1>9, <2>5, <2>6
<1>10. CASE OnTelemetry
    <2>1. PICK pkt \in Packets : TelemetryArrives(pkt)
        BY <1>10, TelemetryPacket
    <2>2. life = "running" /\ life' = "running" /\ UNCHANGED reply
        BY <1>10 DEF OnTelemetry, Input, InputOrFault, storeVars
    <2> DEFINE x == Snapshot(pkt, "auto_event", TRUE)
               y == [op |-> "telemetry", pkt |-> pkt]
    <2>3. x \in DbCalls /\ y \in DbCalls /\ x.op \notin Blocking /\ y.op \notin Blocking
        <3>1. x \in DbCalls /\ y \in DbCalls
            BY CallsPosted DEF Reasons
        <3>2. x.op = "snapshot" /\ y.op = "telemetry"
            BY DEF Snapshot
        <3> QED
            BY <3>1, <3>2 DEF Blocking
    <2>4. DbGets(<<x, y>>) \/ DbGets(<<y>>)
        BY <2>1 DEF TelemetryArrives
    <2> HIDE DEF x, y
    <2> QED
        BY <2>2, <2>3, <2>4, AwaitedByPost
<1> QED
    BY <1>2, <1>3, <1>4, <1>5, <1>6, <1>7, <1>8, <1>9, <1>10 DEF WindowAction

LEMMA AwaitedStep ==
    ASSUME TypeOK, CallsAreAwaited, CallIsUnderWay, SessionsAreApart, Next
    PROVE  CallsAreAwaited'
<1>1. CASE RecordAction \/ ThreadEnd
    <2>1. UNCHANGED <<storeVars, windowVars, countVars>> /\ DbKeeps
        BY <1>1, RecordQueue DEF RecordAction, ThreadEnd, ThreadEnds, DbKeeps, SessionsAreApart
    <2>2. life # "off" \/ queue' = queue
        <3>1. CASE RecordAction
            <4>1. queue["rec"] # <<>>
                BY <3>1, RecordQueue DEF RecordAction, SessionsAreApart
            <4> QED
                BY <4>1 DEF CallsAreAwaited, Idle, Threads
        <3> QED
            BY <1>1, <3>1 DEF ThreadEnd, ThreadEnds
    <2> QED
        BY <2>1, <2>2
        DEF CallsAreAwaited, Waiting, AwaitedCall, Query, storeVars, windowVars, countVars, DbKeeps
<1>2. CASE Off
    <2>1. queue'["db"] = <<>> /\ queue' = Idle
        BY <1>2 DEF Off, Idle, Threads
    <2> QED
        BY <1>2, <2>1 DEF Off, CallsAreAwaited, Waiting
<1> QED
    BY <1>1, <1>2, AwaitedByStore, AwaitedByWindow, Steps

-----------------------------------------------------------------------------
\* What a step of the window does to what the database will be asked.
WindowKeepsFile == UNCHANGED <<disk, stmt, row, open, plan>>
LEMMA WindowEffects ==
    ASSUME TypeOK, WindowAction
    PROVE  /\ WindowKeepsFile /\ inputs' \in {inputs, inputs + 1} /\ (faults' = faults \/ Fault)
           /\ \/ DbKeeps /\ UNCHANGED <<asked, captures, lastPkt, alertActive>>
              \/ \E x \in DbCalls : /\ DbGets(<<x>>) /\ x.op \in Blocking
                                    /\ UNCHANGED <<asked, captures, lastPkt, alertActive>>
              \/ \E cfg \in Forms : /\ DbGets(<<Save(cfg)>>) \/ DbGets(<<Save(cfg), Query>>)
                                    /\ asked' = Append(asked, ui.threshold)
                                    /\ UNCHANGED <<captures, lastPkt, alertActive>>
              \/ /\ DbGets(<<Snapshot(lastPkt, "manual", alertActive)>>)
                 /\ captures' = Append(captures, lastPkt) /\ inputs' = inputs + 1
                 /\ UNCHANGED <<asked, lastPkt, alertActive>>
              \/ /\ OnTelemetry /\ UNCHANGED asked
                 /\ \E pkt \in Packets : TelemetryArrives(pkt) /\ pkt.at = inputs'
                                         /\ inputs' = inputs + 1 /\ pkt.threshold = ui.threshold
<1>1. DOMAIN queue = Threads
    BY DEF TypeOK, ThreadsTypeOK
<1>2. /\ WindowKeepsFile /\ inputs' \in {inputs, inputs + 1} /\ (faults' = faults \/ Fault)
    BY DEF WindowAction, Launch, Initialized, ApplyConfigToUi, Refreshed, QuitThreads,
        Edit, OnStartAll, OnStopAll, OnSaveConfig, OnTelemetry, OnFrame, OnCaptureScreenshot,
        OnRefreshEvents, Close, WorkersUnchanged, Input, InputOrFault, storeVars, countVars,
        WindowKeepsFile
<1>3. CASE ApplyConfigToUi \/ Refreshed \/ QuitThreads \/ Edit \/ OnStopAll \/ OnFrame
    <2>1. DbKeeps
        BY <1>1, <1>3, WindowPosts
        DEF ApplyConfigToUi, Refreshed, QuitThreads, Edit, threadVars, DbKeeps
    <2>2. UNCHANGED <<asked, captures, lastPkt, alertActive>>
        BY <1>3 DEF ApplyConfigToUi, Refreshed, QuitThreads, Edit, OnStopAll, OnFrame, WindowKeeps,
            countVars
    <2> QED
        BY <1>2, <2>1, <2>2
<1>4. CASE Launch \/ Initialized \/ OnRefreshEvents
    <2>1. \E x \in DbCalls : DbGets(<<x>>) /\ x.op \in Blocking
        <3>1. [op |-> "init"].op \in Blocking /\ [op |-> "load"].op \in Blocking
              /\ Query.op \in Blocking
            BY DEF Blocking, Query
        <3> QED
            BY <1>1, <1>4, <3>1, WindowPosts, CallsPosted, Zenon
    <2>2. UNCHANGED <<asked, captures, lastPkt, alertActive>>
        BY <1>4 DEF Launch, Initialized, OnRefreshEvents, WindowKeeps, countVars
    <2> QED
        BY <1>2, <2>1, <2>2
<1>5. CASE OnSaveConfig \/ Close \/ OnStartAll
    <2>1. config' \in Forms
        BY <1>5, CallsPosted DEF OnSaveConfig, Close, OnStartAll
    <2>2. DbGets(<<Save(config')>>) \/ DbGets(<<Save(config'), Query>>)
        BY <1>1, <1>5, WindowPosts
    <2>3. asked' = Append(asked, ui.threshold) /\ UNCHANGED <<captures, lastPkt, alertActive>>
        BY <1>5 DEF OnSaveConfig, Close, OnStartAll, WindowKeeps
    <2> QED
        BY <1>2, <2>1, <2>2, <2>3
<1>6. CASE OnCaptureScreenshot
    <2>1. DbGets(<<Snapshot(lastPkt, "manual", alertActive)>>)
        BY <1>1, <1>6, WindowPosts
    <2> QED
        BY <1>2, <1>6, <2>1 DEF OnCaptureScreenshot, Input, InputOrFault
<1>7. CASE OnTelemetry
    <2>1. UNCHANGED asked
        BY <1>7 DEF OnTelemetry
    <2> QED
        BY <1>2, <1>7, <2>1, TelemetryPacket
<1> QED
    BY <1>3, <1>4, <1>5, <1>6, <1>7 DEF WindowAction

\* Nobody but the database worker takes a call off its queue.
LEMMA DatabaseWaits ==
    ASSUME TypeOK, WindowAction, queue["db"] # <<>>
    PROVE  queue'["db"] # <<>> /\ Call' = Call
<1> DEFINE q == queue["db"]
<1>1. q \in Seq(DbCalls) /\ q # <<>>
    BY DEF TypeOK
<1>2. /\ \A x \in DbCalls : q \o <<x>> # <<>> /\ Head(q \o <<x>>) = Head(q)
      /\ \A x, y \in DbCalls : q \o <<x, y>> # <<>> /\ Head(q \o <<x, y>>) = Head(q)
    BY <1>1, HeadKept
<1>3. CASE DbKeeps
    BY <1>3 DEF DbKeeps, Call
<1>4. ASSUME NEW x \in DbCalls, DbGets(<<x>>)
      PROVE  queue'["db"] # <<>> /\ Call' = Call
    <2>1. queue'["db"] = q \o <<x>>
        BY <1>4 DEF DbGets
    <2> QED
        BY <1>2, <2>1 DEF Call
<1>5. ASSUME NEW x \in DbCalls, NEW y \in DbCalls, DbGets(<<x, y>>)
      PROVE  queue'["db"] # <<>> /\ Call' = Call
    <2>1. queue'["db"] = q \o <<x, y>>
        BY <1>5 DEF DbGets
    <2> QED
        BY <1>2, <2>1 DEF Call
<1>6. DbKeeps \/ (\E x \in DbCalls : DbGets(<<x>>)) \/ (\E x, y \in DbCalls : DbGets(<<x, y>>))
    <2>1. lastPkt \in Packets /\ alertActive \in BOOLEAN /\ "manual" \in Reasons
          /\ "auto_event" \in Reasons
        BY DEF TypeOK, Reasons
    <2>2. ASSUME NEW pkt \in Packets, TelemetryArrives(pkt)
          PROVE  \/ \E x \in DbCalls : DbGets(<<x>>)
                 \/ \E x, y \in DbCalls : DbGets(<<x, y>>)
        <3>1. /\ Snapshot(pkt, "auto_event", TRUE) \in DbCalls
              /\ [op |-> "telemetry", pkt |-> pkt] \in DbCalls
            BY <2>1, CallsPosted
        <3> QED
            BY <2>2, <3>1 DEF TelemetryArrives
    <2> QED
        BY <2>1, <2>2, WindowEffects, CallsPosted
<1> QED
    BY <1>3, <1>4, <1>5, <1>6

\* The rows that belong together.
RowsBelong == CallIsUnderWay /\ NoDanglingReference
LEMMA RowsByStore ==
    ASSUME TypeOK, RowsBelong, StoreStep
    PROVE  RowsBelong'
<1> DEFINE tel == disk.telemetry
<1>1. /\ queue["db"] # <<>> /\ Call \in DbCalls
      /\ disk \in Files /\ tel \in Seq(Packets) /\ Len(tel) \in Nat /\ DOMAIN tel = 1..Len(tel)
      /\ row \in Nat
    BY StoreQueue, StatementIs, LenProperties DEF TypeOK, FileTypeOK, Files, RowsBelong
<1>2. /\ Inserted => /\ row = Len(tel) /\ row > 0 /\ tel[row] = Call.pkt
                     /\ \A e \in disk.events : e.row < row
      /\ \A e \in disk.events : e.row \in DOMAIN tel /\ tel[e.row] = e.pkt
      /\ \A d \in disk.details : d[1] \in DOMAIN tel
    BY DEF RowsBelong, CallIsUnderWay, NoDanglingReference
<1>3. \A s : Continue(s) => queue' = queue /\ Call' = Call /\ stmt' = s
    BY DEF Continue, Call
<1>4. ReturnNothing \/ Return \/ (\E v : Answer(v)) => stmt' = "idle"
    BY DEF ReturnNothing, Return, Answer
<1>5. stmt' = "idle" => CallIsUnderWay'
    BY DEF CallIsUnderWay, Inserted
<1>6. CASE EnsureConnection
    <2>1. disk' = disk
        BY <1>6 DEF EnsureConnection, Answer, Return
    <2>2. \/ stmt' = "idle"
          \/ UNCHANGED <<queue, stmt, row, disk>>
        BY <1>6 DEF EnsureConnection, Answer, Return
    <2>3. CallIsUnderWay'
        <3>1. CASE UNCHANGED <<queue, stmt, row, disk>>
            BY <3>1 DEF RowsBelong, CallIsUnderWay, Inserted, HasPacket, Call
        <3> QED
            BY <1>5, <2>2, <3>1
    <2> QED
        BY <2>1, <2>3 DEF RowsBelong, NoDanglingReference
<1>7. CASE CreateTables \/ DropEvents \/ CreateEvents
    <2>1. /\ disk'.telemetry = tel /\ disk'.details = disk.details
          /\ disk'.events \subseteq disk.events
        BY <1>1, <1>7 DEF CreateTables, DropEvents, CreateEvents, Files
    <2>2. Call.op = "init"
        BY <1>1, <1>7, StatementIs DEF CreateTables, DropEvents, CreateEvents, RowsBelong
    <2>3. \/ stmt' = "idle"
          \/ stmt' \in {"drop", "recreate"} /\ queue' = queue /\ Call' = Call
        BY <1>3, <1>4, <1>7 DEF CreateTables, DropEvents, CreateEvents
    <2>4. CallIsUnderWay'
        BY <1>1, <1>5, <2>2, <2>3 DEF CallIsUnderWay, Inserted
    <2> QED
        BY <1>2, <2>1, <2>4 DEF RowsBelong, NoDanglingReference
<1>8. CASE LoadConfig \/ QueryEvents \/ SaveConfigAsync
    <2>1. /\ disk'.telemetry = tel /\ disk'.details = disk.details /\ disk'.events = disk.events
        BY <1>1, <1>8 DEF LoadConfig, QueryEvents, SaveConfigAsync, Files
    <2>2. stmt' = "idle"
        BY <1>8 DEF LoadConfig, QueryEvents, SaveConfigAsync, Answer, ReturnNothing, Return
    <2> QED
        BY <1>2, <1>5, <2>1, <2>2 DEF RowsBelong, NoDanglingReference
<1>9. CASE InsertTelemetry
    <2>1. HasPacket(Call) /\ Call.pkt \in Packets
        BY <1>1, <1>9, StatementIs, CallFields DEF InsertTelemetry, RowsBelong, HasPacket
    <2>2. CASE disk' = disk /\ stmt' = "idle"
        BY <1>5, <2>2 DEF RowsBelong, NoDanglingReference
    <2>3. CASE /\ disk' = [disk EXCEPT !.telemetry = Append(@, Call.pkt)]
               /\ row' = Len(tel) + 1 /\ Continue("detection_object")
        <3> DEFINE t == Append(tel, Call.pkt)
        <3>1. /\ Len(t) = Len(tel) + 1 /\ DOMAIN t = 1..(Len(tel) + 1)
              /\ t[Len(tel) + 1] = Call.pkt /\ \A n \in 1..Len(tel) : t[n] = tel[n]
            BY <1>1, <2>1, AppendProperties
        <3>2. disk'.telemetry = t /\ disk'.events = disk.events /\ disk'.details = disk.details
            BY <1>1, <2>3 DEF Files
        <3> HIDE DEF t
        <3>3. NoDanglingReference'
            BY <1>1, <1>2, <3>1, <3>2 DEF NoDanglingReference
        <3>4. \A e \in disk.events : e.row < row'
            BY <1>1, <1>2, <2>3
        <3>5. CallIsUnderWay'
            <4>1. queue' = queue /\ Call' = Call /\ stmt' = "detection_object"
                BY <1>3, <2>3
            <4>2. row' = Len(t) /\ row' > 0 /\ t[row'] = Call.pkt
                BY <1>1, <2>3, <3>1
            <4> QED
                BY <1>1, <2>1, <3>2, <3>4, <4>1, <4>2 DEF CallIsUnderWay, Inserted, HasPacket
        <3> QED
            BY <3>3, <3>5 DEF RowsBelong
    <2> QED
        BY <1>9, <2>2, <2>3 DEF InsertTelemetry, ReturnNothing, Return
<1>10. CASE InsertObjects \/ InsertGps
    <2>1. HasPacket(Call) /\ Inserted
        BY <1>1, <1>10, StatementIs DEF InsertObjects, InsertGps, RowsBelong, Inserted
    <2>2. /\ disk'.telemetry = tel /\ disk'.events = disk.events
          /\ \A d \in disk'.details : d \in disk.details \/ d[1] = row
        BY <1>1, <1>10 DEF InsertObjects, InsertGps, InsertDetail, Files
    <2>3. row \in DOMAIN tel
        BY <1>1, <1>2, <2>1
    <2>4. NoDanglingReference'
        BY <1>2, <2>2, <2>3 DEF NoDanglingReference
    <2>5. \/ stmt' = "idle"
          \/ /\ stmt' \in {"gps", "event"} /\ queue' = queue /\ Call' = Call /\ row' = row
             /\ stmt' = "event" => Call.op = "snapshot"
        BY <1>3, <1>4, <1>10 DEF InsertObjects, InsertGps
    <2>6. CallIsUnderWay'
        <3>1. CASE /\ stmt' \in {"gps", "event"} /\ queue' = queue /\ Call' = Call /\ row' = row
                   /\ stmt' = "event" => Call.op = "snapshot"
            BY <1>1, <1>2, <2>1, <2>2, <3>1 DEF CallIsUnderWay, Inserted, HasPacket
        <3> QED
            BY <1>5, <2>5, <3>1
    <2> QED
        BY <2>4, <2>6 DEF RowsBelong
<1>11. CASE InsertSnapshotEvent
    <2>1. Inserted
        BY <1>1, <1>11, StatementIs DEF InsertSnapshotEvent, RowsBelong, Inserted
    <2>2. /\ disk'.telemetry = tel /\ disk'.details = disk.details
          /\ \A e \in disk'.events : e \in disk.events \/ (e.row = row /\ e.pkt = Call.pkt)
        BY <1>1, <1>11 DEF InsertSnapshotEvent, Files
    <2>3. row \in DOMAIN tel /\ tel[row] = Call.pkt
        BY <1>1, <1>2, <2>1
    <2>4. NoDanglingReference'
        BY <1>2, <2>2, <2>3 DEF NoDanglingReference
    <2>5. stmt' = "idle"
        BY <1>11 DEF InsertSnapshotEvent, ReturnNothing, Return
    <2> QED
        BY <1>5, <2>4, <2>5 DEF RowsBelong
<1> QED
    BY <1>6, <1>7, <1>8, <1>9, <1>10, <1>11 DEF StoreStep

LEMMA RowsStep ==
    ASSUME TypeOK, RowsBelong, SessionsAreApart, Next
    PROVE  RowsBelong'
<1>1. CASE StoreAction
    BY <1>1, RowsByStore DEF StoreAction
<1>2. CASE Off
    BY <1>2 DEF Off, RowsBelong, CallIsUnderWay, Inserted, NoDanglingReference
<1>3. CASE WindowAction
    <2>1. UNCHANGED <<disk, stmt, row>>
        BY <1>3, WindowEffects DEF WindowKeepsFile
    <2>2. queue["db"] # <<>> => queue'["db"] # <<>> /\ Call' = Call
        BY <1>3, DatabaseWaits
    <2> QED
        BY <2>1, <2>2 DEF RowsBelong, CallIsUnderWay, Inserted, NoDanglingReference, HasPacket
<1>4. CASE RecordAction \/ ThreadEnd
    <2>1. UNCHANGED storeVars /\ DbKeeps
        BY <1>4, RecordQueue DEF RecordAction, ThreadEnd, ThreadEnds, DbKeeps, SessionsAreApart
    <2> QED
        BY <2>1 DEF storeVars, DbKeeps, RowsBelong, CallIsUnderWay, Inserted, NoDanglingReference,
            HasPacket, Call
<1> QED
    BY <1>1, <1>2, <1>3, <1>4, Steps

-----------------------------------------------------------------------------
\* Packets, from the window's last one over the queue to the rows.
\* What is new in the queue stands behind what was there, and is one of new.
Behind(new) ==
    /\ \A i \in DOMAIN queue["db"] :
          i \in DOMAIN queue'["db"] /\ queue'["db"][i] = queue["db"][i]
    /\ \A i \in DOMAIN queue'["db"] : i \notin DOMAIN queue["db"] =>
          /\ queue'["db"][i] \in new
          /\ \A k \in DOMAIN queue["db"] : k < i
    /\ \A x \in new : \E i \in DOMAIN queue'["db"] :
          i \notin DOMAIN queue["db"] /\ queue'["db"][i] = x
LEMMA PostsBehind ==
    ASSUME TypeOK
    PROVE  /\ DbKeeps => Behind({})
           /\ \A x \in DbCalls : DbGets(<<x>>) => Behind({x})
           /\ \A x, y \in DbCalls : DbGets(<<x, y>>) => Behind({x, y})
<1> DEFINE q == queue["db"]
<1>1. q \in Seq(DbCalls) /\ Len(q) \in Nat /\ DOMAIN q = 1..Len(q)
    BY LenProperties DEF TypeOK
<1>2. DbKeeps => Behind({})
    BY DEF DbKeeps, Behind
<1> HIDE DEF q
<1>3. ASSUME NEW x \in DbCalls, DbGets(<<x>>) PROVE Behind({x})
    <2> DEFINE p == q \o <<x>>
    <2>1. /\ queue'["db"] = p /\ Len(p) = Len(q) + 1
          /\ DOMAIN p = 1..(Len(q) + 1) /\ p[Len(q) + 1] = x
          /\ \A i \in 1..Len(q) : p[i] = q[i]
        BY <1>1, <1>3, PostedOne DEF DbGets, q
    <2> HIDE DEF p
    <2>2. /\ \A i \in DOMAIN q : i \in DOMAIN p /\ p[i] = q[i]
          /\ \A i \in DOMAIN p : i \notin DOMAIN q => p[i] = x /\ \A k \in DOMAIN q : k < i
          /\ Len(q) + 1 \in DOMAIN p /\ Len(q) + 1 \notin DOMAIN q
        BY <1>1, <2>1
    <2> QED
        BY <2>1, <2>2 DEF Behind, q
<1>4. ASSUME NEW x \in DbCalls, NEW y \in DbCalls, DbGets(<<x, y>>) PROVE Behind({x, y})
    <2> DEFINE p == q \o <<x, y>>
    <2>1. /\ queue'["db"] = p /\ Len(p) = Len(q) + 2
          /\ DOMAIN p = 1..(Len(q) + 2) /\ p[Len(q) + 1] = x /\ p[Len(q) + 2] = y
          /\ \A i \in 1..Len(q) : p[i] = q[i]
        BY <1>1, <1>4, PostedTwo DEF DbGets, q
    <2> HIDE DEF p
    <2>2. /\ \A i \in DOMAIN q : i \in DOMAIN p /\ p[i] = q[i]
          /\ \A i \in DOMAIN p : i \notin DOMAIN q =>
                (p[i] = x \/ p[i] = y) /\ \A k \in DOMAIN q : k < i
          /\ Len(q) + 1 \in DOMAIN p /\ Len(q) + 1 \notin DOMAIN q
          /\ Len(q) + 2 \in DOMAIN p /\ Len(q) + 2 \notin DOMAIN q
        BY <1>1, <2>1
    <2> QED
        BY <2>1, <2>2 DEF Behind, q
<1> QED
    BY <1>2, <1>3, <1>4

\* What is left of the queue was there before.
Shifted(d) ==
    \A i \in DOMAIN queue'["db"] :
        i + d \in DOMAIN queue["db"] /\ queue'["db"][i] = queue["db"][i + d]
LEMMA OthersShift ==
    ASSUME TypeOK, SessionsAreApart, StoreAction \/ RecordAction \/ ThreadEnd
    PROVE  \E d \in {0, 1} : Shifted(d)
<1> DEFINE q == queue["db"]
<1>1. q \in Seq(DbCalls) /\ Len(q) \in Nat /\ DOMAIN q = 1..Len(q)
    BY LenProperties DEF TypeOK
<1>2. DbKeeps \/ (DbReturns /\ q # <<>>)
    BY RecordQueue, StoreQueue
    DEF StoreAction, RecordAction, ThreadEnd, ThreadEnds, DbKeeps, SessionsAreApart
<1>3. CASE DbKeeps
    BY <1>1, <1>3 DEF DbKeeps, Shifted
<1>4. CASE DbReturns /\ q # <<>>
    <2> DEFINE t == Tail(q)
    <2>1. /\ DOMAIN t = 1..(Len(q) - 1) /\ \A i \in 1..(Len(q) - 1) : t[i] = q[i + 1]
        BY <1>1, <1>4, TailOf
    <2>2. queue'["db"] = t
        BY <1>4 DEF DbReturns
    <2> HIDE DEF t, q
    <2> QED
        BY <1>1, <2>1, <2>2 DEF Shifted, q
<1> QED
    BY <1>2, <1>3, <1>4

\* The window posts packets of two kinds: the last one, and the one that has just arrived.
LEMMA PacketsPosted ==
    ASSUME TypeOK, WindowAction
    PROVE  \/ /\ \E new \in SUBSET DbCalls : Behind(new) /\ \A x \in new : ~HasPacket(x)
              /\ UNCHANGED <<captures, lastPkt, alertActive>>
           \/ /\ Behind({Snapshot(lastPkt, "manual", alertActive)})
              /\ captures' = Append(captures, lastPkt) /\ inputs' = inputs + 1
              /\ UNCHANGED <<asked, lastPkt, alertActive>>
           \/ \E pkt \in Packets :
                 /\ TelemetryArrives(pkt) /\ pkt.at = inputs' /\ inputs' = inputs + 1
                 /\ pkt.threshold = ui.threshold /\ UNCHANGED asked
                 /\ \/ /\ alertActive'
                       /\ Behind({Snapshot(pkt, "auto_event", TRUE), [op |-> "telemetry", pkt |-> pkt]})
                       /\ captures' = Append(captures, pkt)
                    \/ Behind({[op |-> "telemetry", pkt |-> pkt]}) /\ captures' = captures
<1>1. Query \in DbCalls /\ ~HasPacket(Query) /\ lastPkt \in Packets /\ alertActive \in BOOLEAN
      /\ "manual" \in Reasons /\ "auto_event" \in Reasons
    BY CallsPosted DEF Query, HasPacket, TypeOK, Reasons
<1>2. CASE DbKeeps /\ UNCHANGED <<asked, captures, lastPkt, alertActive>>
    <2>1. Behind({}) /\ {} \in SUBSET DbCalls /\ \A x \in {} : ~HasPacket(x)
        BY <1>2, PostsBehind
    <2> QED
        BY <1>2, <2>1
<1>3. ASSUME NEW x \in DbCalls, DbGets(<<x>>), x.op \in Blocking,
             UNCHANGED <<asked, captures, lastPkt, alertActive>>
      PROVE  /\ \E new \in SUBSET DbCalls : Behind(new) /\ \A z \in new : ~HasPacket(z)
             /\ UNCHANGED <<captures, lastPkt, alertActive>>
    <2>1. ~HasPacket(x) /\ Behind({x})
        BY <1>3, PostsBehind DEF Blocking, HasPacket
    <2> QED
        BY <1>3, <2>1
<1>4. ASSUME NEW cfg \in Forms, DbGets(<<Save(cfg)>>) \/ DbGets(<<Save(cfg), Query>>)
      PROVE  \E new \in SUBSET DbCalls : Behind(new) /\ \A x \in new : ~HasPacket(x)
    <2> DEFINE x == Save(cfg)
    <2>1. x \in DbCalls /\ ~HasPacket(x)
        BY CallsPosted DEF Save, HasPacket
    <2> HIDE DEF x
    <2>2. Behind({x}) \/ Behind({x, Query})
        BY <1>1, <1>4, <2>1, PostsBehind DEF x
    <2> QED
        BY <1>1, <2>1, <2>2
<1>5. CASE /\ DbGets(<<Snapshot(lastPkt, "manual", alertActive)>>)
           /\ captures' = Append(captures, lastPkt) /\ inputs' = inputs + 1
           /\ UNCHANGED <<asked, lastPkt, alertActive>>
    <2>1. Snapshot(lastPkt, "manual", alertActive) \in DbCalls
        BY <1>1, CallsPosted
    <2> QED
        BY <1>5, <2>1, PostsBehind
<1>6. ASSUME NEW pkt \in Packets, TelemetryArrives(pkt)
      PROVE  \/ /\ alertActive'
                /\ Behind({Snapshot(pkt, "auto_event", TRUE), [op |-> "telemetry", pkt |-> pkt]})
                /\ captures' = Append(captures, pkt)
             \/ Behind({[op |-> "telemetry", pkt |-> pkt]}) /\ captures' = captures
    <2>1. /\ Snapshot(pkt, "auto_event", TRUE) \in DbCalls
          /\ [op |-> "telemetry", pkt |-> pkt] \in DbCalls
        BY <1>1, CallsPosted
    <2> QED
        BY <1>6, <2>1, PostsBehind DEF TelemetryArrives
<1> QED
    BY <1>2, <1>3, <1>4, <1>5, <1>6, WindowEffects

\* Calls, rows and packets have times that are numbers.
LEMMA TimesAreNat ==
    ASSUME TypeOK
    PROVE  /\ lastPkt.at \in Nat /\ inputs \in Nat
           /\ \A n \in DOMAIN disk.telemetry : disk.telemetry[n].at \in Nat
           /\ \A i \in DOMAIN queue["db"] :
                 queue["db"][i] \in DbCalls /\ (HasPacket(queue["db"][i]) => queue["db"][i].pkt.at \in Nat)
           /\ \A e \in disk.events : e.ts \in Nat /\ e.pkt.at \in Nat /\ e.row \in Nat
           /\ \A i \in DOMAIN captures : captures[i].at \in Nat
<1>1. /\ queue["db"] \in Seq(DbCalls) /\ disk.telemetry \in Seq(Packets) /\ captures \in Seq(Packets)
      /\ disk.events \subseteq EventRows /\ lastPkt \in Packets
    BY DEF TypeOK, FileTypeOK, Files
<1>2. /\ \A i \in DOMAIN queue["db"] : queue["db"][i] \in DbCalls
      /\ \A n \in DOMAIN disk.telemetry : disk.telemetry[n] \in Packets
      /\ \A i \in DOMAIN captures : captures[i] \in Packets
    BY <1>1, ElementOfSeq, LenProperties
<1>3. \A p \in Packets : p.at \in Nat
    BY DEF Packets
<1>4. \A c \in DbCalls : HasPacket(c) => c.pkt \in Packets
    BY CallFields DEF HasPacket
<1>5. \A e \in EventRows : e.ts \in Nat /\ e.row \in Nat /\ e.pkt \in Packets
    BY DEF EventRows
<1> QED
    BY <1>1, <1>2, <1>3, <1>4, <1>5, BoundsAreNat

\* A stored packet and a stored event come from the call at the front.
LEMMA StoredIs ==
    ASSUME TypeOK, RowsBelong, StoreStep
    PROVE  /\ \/ disk'.telemetry = disk.telemetry
              \/ /\ disk'.telemetry = Append(disk.telemetry, Call.pkt)
                 /\ HasPacket(Call) /\ DbKeeps
           /\ \/ disk'.events \subseteq disk.events
              \/ /\ Call.op = "snapshot" /\ DbReturns /\ Inserted
                 /\ disk'.events = disk.events \cup
                       {[row |-> row, ts |-> EventTime(Call.pkt), pkt |-> Call.pkt,
                         reason |-> Call.reason, target |-> Call.target]}
<1>1. queue["db"] # <<>> /\ disk \in Files /\ DOMAIN queue = Threads /\ "db" \in Threads
    BY StoreQueue DEF TypeOK, FileTypeOK, ThreadsTypeOK, Threads
<1>2. CASE \/ EnsureConnection \/ CreateTables \/ DropEvents \/ CreateEvents
           \/ LoadConfig \/ QueryEvents \/ SaveConfigAsync \/ InsertObjects \/ InsertGps
    <2>1. disk'.telemetry = disk.telemetry /\ disk'.events \subseteq disk.events
        BY <1>1, <1>2 DEF EnsureConnection, Answer, Return, CreateTables, DropEvents, CreateEvents,
            LoadConfig, QueryEvents, SaveConfigAsync, InsertObjects, InsertGps, InsertDetail, Files
    <2> QED
        BY <2>1
<1>3. CASE InsertTelemetry
    <2>1. HasPacket(Call)
        BY <1>1, <1>3, StatementIs DEF InsertTelemetry, RowsBelong
    <2>2. CASE disk' = disk
        BY <2>2
    <2>3. CASE /\ disk' = [disk EXCEPT !.telemetry = Append(@, Call.pkt)]
               /\ Continue("detection_object")
        BY <1>1, <2>1, <2>3 DEF Files, Continue, DbKeeps
    <2> QED
        BY <1>3, <2>2, <2>3 DEF InsertTelemetry
<1>4. CASE InsertSnapshotEvent
    <2>1. Call.op = "snapshot" /\ Inserted
        BY <1>1, <1>4, StatementIs DEF InsertSnapshotEvent, RowsBelong, Inserted
    <2>2. DbReturns
        BY <1>1, <1>4 DEF InsertSnapshotEvent, ReturnNothing, Return, Finished, DbReturns
    <2> DEFINE new == [row |-> row, ts |-> EventTime(Call.pkt), pkt |-> Call.pkt,
                       reason |-> Call.reason, target |-> Call.target]
    <2>3. disk' = disk \/ disk' = [disk EXCEPT !.events = @ \cup {new}]
        BY <1>4 DEF InsertSnapshotEvent
    <2> HIDE DEF new
    <2>4. disk'.telemetry = disk.telemetry
          /\ (disk'.events = disk.events \/ disk'.events = disk.events \cup {new})
        BY <1>1, <2>3 DEF Files
    <2> QED
        BY <2>1, <2>2, <2>4 DEF new
<1> QED
    BY <1>2, <1>3, <1>4 DEF StoreStep

\* The first call of the queue is its first element.
LEMMA CallIsFirst ==
    ASSUME TypeOK, queue["db"] # <<>>
    PROVE  1 \in DOMAIN queue["db"] /\ Call = queue["db"][1]
           /\ \A i \in DOMAIN queue["db"] : i \in Nat \ {0}
<1> QED
    BY TailOf DEF TypeOK, Call

PacketsInOrder == PacketsArrived /\ ArrivalsInOrder
LEMMA PacketsByWindow ==
    ASSUME TypeOK, PacketsInOrder, WindowAction
    PROVE  PacketsInOrder'
<1> DEFINE q == queue["db"]
           q1 == queue'["db"]
           tel == disk.telemetry
<1>1. /\ disk' = disk /\ inputs' \in {inputs, inputs + 1} /\ inputs \in Nat /\ lastPkt.at \in Nat
      /\ \A n \in DOMAIN tel : tel[n].at \in Nat
      /\ \A i \in DOMAIN q : HasPacket(q[i]) => q[i].pkt.at \in Nat
      /\ \A e \in disk.events : e.ts \in Nat
      /\ \A i \in DOMAIN captures : captures[i].at \in Nat
    BY WindowEffects, TimesAreNat DEF WindowKeepsFile
<1>2. /\ PacketOK(lastPkt)
      /\ \A n \in DOMAIN tel : tel[n].at <= inputs
      /\ \A i \in DOMAIN q : HasPacket(q[i]) => PacketOK(q[i].pkt)
      /\ \A i \in DOMAIN captures : captures[i].at <= inputs
      /\ \A e \in disk.events :
            /\ e.ts <= inputs /\ (e.pkt.at = 0 => e.pkt = NoPacket)
            /\ e.pkt.at > 0 => e.ts = e.pkt.at
      /\ RowsInArrivalOrder
      /\ \A n \in DOMAIN tel : NotBefore(tel[n], lastPkt)
      /\ \A i \in DOMAIN q : HasPacket(q[i]) =>
            /\ NotBefore(q[i].pkt, lastPkt)
            /\ \A n \in DOMAIN tel : NotBefore(tel[n], q[i].pkt)
            /\ \A k \in DOMAIN q : i < k /\ HasPacket(q[k]) => NotBefore(q[i].pkt, q[k].pkt)
    BY DEF PacketsInOrder, PacketsArrived, ArrivalsInOrder
<1>3. captures \in Seq(Packets) /\ Len(captures) \in Nat /\ DOMAIN captures = 1..Len(captures)
    BY LenProperties DEF TypeOK
<1>4. ASSUME NEW pkt \in Packets, NEW new, lastPkt' = pkt,
             pkt.at <= inputs', pkt.at = 0 => pkt = NoPacket,
             \A n \in DOMAIN tel : NotBefore(tel[n], pkt),
             \A i \in DOMAIN q : HasPacket(q[i]) => NotBefore(q[i].pkt, pkt),
             Behind(new), \A x \in new : HasPacket(x) => x.pkt = pkt,
             captures' = captures \/ captures' = Append(captures, pkt)
      PROVE  PacketsInOrder'
    <2>1. pkt.at \in Nat /\ NotBefore(pkt, pkt)
        BY <1>4 DEF Packets, NotBefore
    <2>2. /\ \A i \in DOMAIN q : i \in DOMAIN q1 /\ q1[i] = q[i]
          /\ \A i \in DOMAIN q1 : i \notin DOMAIN q =>
                /\ HasPacket(q1[i]) => q1[i].pkt = pkt
                /\ \A k \in DOMAIN q : k < i
        BY <1>4 DEF Behind
    <2>3. \A i \in DOMAIN q1 : i \in Nat
        <3>1. q1 \in Seq(DbCalls)
            BY WindowQueues DEF QueuesTyped
        <3> QED
            BY <3>1, LenProperties
    <2>4. \A i \in DOMAIN q : i \in Nat
        BY <2>2, <2>3
    <2> HIDE DEF q, q1, tel
    <2>5. \A p : p.at \in Nat /\ PacketOK(p) => p.at <= inputs' /\ (p.at = 0 => p = NoPacket)
        BY <1>1 DEF PacketOK
    <2>6. \A i \in DOMAIN q1 : HasPacket(q1[i]) =>
              q1[i].pkt.at <= inputs' /\ (q1[i].pkt.at = 0 => q1[i].pkt = NoPacket)
        BY <1>1, <1>2, <1>4, <2>2, <2>5
    <2>7. \A i \in DOMAIN captures' : captures'[i].at <= inputs'
        <3>1. CASE captures' = captures
            BY <1>1, <1>2, <3>1
        <3>2. CASE captures' = Append(captures, pkt)
            <4> DEFINE c == Append(captures, pkt)
            <4>1. /\ DOMAIN c = 1..(Len(captures) + 1) /\ c[Len(captures) + 1] = pkt
                  /\ \A i \in 1..Len(captures) : c[i] = captures[i]
                BY <1>3, AppendProperties
            <4> HIDE DEF c
            <4>2. \A i \in DOMAIN c : c[i].at <= inputs'
                BY <1>1, <1>2, <1>3, <1>4, <4>1
            <4> QED
                BY <3>2, <4>2 DEF c
        <3> QED
            BY <1>4, <3>1, <3>2
    <2>8. \A e \in disk.events :
              /\ e.ts <= inputs' /\ (e.pkt.at = 0 => e.pkt = NoPacket)
              /\ e.pkt.at > 0 => e.ts = e.pkt.at
        BY <1>1, <1>2
    <2>9. \A n \in DOMAIN tel : tel[n].at <= inputs'
        BY <1>1, <1>2
    <2>10. PacketsArrived'
        BY <1>1, <1>4, <2>6, <2>7, <2>8, <2>9 DEF PacketsArrived, PacketOK, q1, tel
    <2>11. \A i \in DOMAIN q1 : HasPacket(q1[i]) =>
            /\ NotBefore(q1[i].pkt, pkt)
            /\ \A n \in DOMAIN tel : NotBefore(tel[n], q1[i].pkt)
        BY <1>2, <1>4, <2>1, <2>2
    <2>12. \A i \in DOMAIN q1 : HasPacket(q1[i]) =>
              \A k \in DOMAIN q1 : i < k /\ HasPacket(q1[k]) => NotBefore(q1[i].pkt, q1[k].pkt)
        <3> SUFFICES ASSUME NEW i \in DOMAIN q1, NEW k \in DOMAIN q1, HasPacket(q1[i]),
                            HasPacket(q1[k]), i < k
                     PROVE  NotBefore(q1[i].pkt, q1[k].pkt)
            OBVIOUS
        <3>1. CASE k \notin DOMAIN q
            BY <2>2, <2>11, <3>1
        <3>2. CASE k \in DOMAIN q
            <4>1. i \in DOMAIN q
                BY <2>2, <2>3, <3>2
            <4> QED
                BY <1>2, <2>2, <3>2, <4>1
        <3> QED
            BY <3>1, <3>2
    <2>13. RowsInArrivalOrder'
        BY <1>1, <1>2 DEF RowsInArrivalOrder
    <2>14. ArrivalsInOrder'
        BY <1>1, <1>2, <1>4, <2>11, <2>12, <2>13 DEF ArrivalsInOrder, q1, tel
    <2> QED
        BY <2>10, <2>14 DEF PacketsInOrder
<1> DEFINE IsLast(p) ==
        /\ p.at <= inputs' /\ (p.at = 0 => p = NoPacket)
        /\ \A n \in DOMAIN tel : NotBefore(tel[n], p)
        /\ \A i \in DOMAIN q : HasPacket(q[i]) => NotBefore(q[i].pkt, p)
<1>5. lastPkt \in Packets /\ IsLast(lastPkt)
    BY <1>1, <1>2 DEF PacketOK, TypeOK
<1>6. ASSUME NEW new \in SUBSET DbCalls, Behind(new), \A x \in new : ~HasPacket(x),
             UNCHANGED <<captures, lastPkt>>
      PROVE  PacketsInOrder'
    <2> HIDE DEF q, tel, IsLast
    <2>1. PICK pkt \in Packets : pkt = lastPkt
        BY <1>5
    <2>2. \A x \in new : HasPacket(x) => x.pkt = pkt
        BY <1>6
    <2>3. lastPkt' = pkt /\ captures' = captures
        BY <1>6, <2>1
    <2>4. IsLast(pkt)
        BY <1>5, <2>1, Zenon
    <2> QED
        BY <1>4, <1>6, <2>2, <2>3, <2>4 DEF IsLast
<1>7. CASE /\ Behind({Snapshot(lastPkt, "manual", alertActive)})
           /\ captures' = Append(captures, lastPkt) /\ UNCHANGED lastPkt
    <2>1. \A x \in {Snapshot(lastPkt, "manual", alertActive)} : x.pkt = lastPkt
        BY DEF Snapshot
    <2> HIDE DEF q, tel, IsLast
    <2>2. PICK pkt \in Packets : pkt = lastPkt
        BY <1>5
    <2>3. PICK new : new = {Snapshot(lastPkt, "manual", alertActive)}
        OBVIOUS
    <2>4. /\ lastPkt' = pkt /\ captures' = Append(captures, pkt) /\ Behind(new)
          /\ \A x \in new : HasPacket(x) => x.pkt = pkt
        BY <1>7, <2>1, <2>2, <2>3
    <2>5. IsLast(pkt)
        BY <1>5, <2>2, Zenon
    <2> QED
        BY <1>4, <2>4, <2>5 DEF IsLast
<1>8. ASSUME NEW pkt \in Packets, lastPkt' = pkt, pkt.at = inputs', inputs' = inputs + 1,
             \/ /\ Behind({Snapshot(pkt, "auto_event", TRUE), [op |-> "telemetry", pkt |-> pkt]})
                /\ captures' = Append(captures, pkt)
             \/ Behind({[op |-> "telemetry", pkt |-> pkt]}) /\ captures' = captures
      PROVE  PacketsInOrder'
    <2>1. /\ Snapshot(pkt, "auto_event", TRUE).pkt = pkt
          /\ [op |-> "telemetry", pkt |-> pkt].pkt = pkt
        BY DEF Snapshot
    <2>2. pkt.at <= inputs' /\ pkt.at # 0
        BY <1>1, <1>8
    <2>3. /\ \A n \in DOMAIN tel : NotBefore(tel[n], pkt)
          /\ \A i \in DOMAIN q : HasPacket(q[i]) => NotBefore(q[i].pkt, pkt)
        BY <1>1, <1>2, <1>8 DEF NotBefore, PacketOK
    <2> HIDE DEF q, tel
    <2> QED
        BY <1>4, <1>8, <2>1, <2>2, <2>3
<1> QED
    BY <1>6, <1>7, <1>8, PacketsPosted DEF TelemetryArrives

LEMMA PacketsByOthers ==
    ASSUME TypeOK, PacketsInOrder, RowsBelong, SessionsAreApart,
           StoreAction \/ RecordAction \/ ThreadEnd
    PROVE  PacketsInOrder'
<1> DEFINE q == queue["db"]
           q1 == queue'["db"]
           tel == disk.telemetry
           tel1 == disk'.telemetry
<1>1. PICK d \in {0, 1} : \A i \in DOMAIN q1 : i + d \in DOMAIN q /\ q1[i] = q[i + d]
    BY OthersShift DEF Shifted
<1>2. /\ UNCHANGED <<inputs, lastPkt, captures>>
      /\ RecordAction \/ ThreadEnd => disk' = disk
    BY DEF StoreAction, RecordAction, ThreadEnd, windowVars, countVars, storeVars
<1>3. /\ inputs \in Nat /\ lastPkt.at \in Nat
      /\ \A n \in DOMAIN tel : tel[n].at \in Nat
      /\ \A i \in DOMAIN q : HasPacket(q[i]) => q[i].pkt.at \in Nat
    BY TimesAreNat
<1>4. /\ PacketOK(lastPkt)
      /\ \A n \in DOMAIN tel : tel[n].at <= inputs
      /\ \A i \in DOMAIN q : HasPacket(q[i]) => PacketOK(q[i].pkt)
      /\ \A i \in DOMAIN captures : captures[i].at <= inputs
      /\ \A e \in disk.events :
            /\ e.ts <= inputs /\ (e.pkt.at = 0 => e.pkt = NoPacket)
            /\ e.pkt.at > 0 => e.ts = e.pkt.at
      /\ \A i, j \in DOMAIN tel : i < j => NotBefore(tel[i], tel[j])
      /\ \A n \in DOMAIN tel : NotBefore(tel[n], lastPkt)
      /\ \A i \in DOMAIN q : HasPacket(q[i]) =>
            /\ NotBefore(q[i].pkt, lastPkt)
            /\ \A n \in DOMAIN tel : NotBefore(tel[n], q[i].pkt)
            /\ \A k \in DOMAIN q : i < k /\ HasPacket(q[k]) => NotBefore(q[i].pkt, q[k].pkt)
    BY DEF PacketsInOrder, PacketsArrived, ArrivalsInOrder, RowsInArrivalOrder
<1>5. \/ tel1 = tel
      \/ StoreAction /\ tel1 = Append(tel, Call.pkt) /\ HasPacket(Call) /\ DbKeeps
    BY <1>2, StoredIs DEF StoreAction
<1>6. \A e \in disk'.events :
          \/ e \in disk.events
          \/ HasPacket(Call) /\ queue["db"] # <<>> /\ e.pkt = Call.pkt /\ e.ts = EventTime(Call.pkt)
    BY <1>2, StoredIs, StoreQueue DEF StoreAction, HasPacket
<1>7. queue["db"] # <<>> => 1 \in DOMAIN q /\ Call = q[1] /\ \A i \in DOMAIN q : i \in Nat \ {0}
    BY CallIsFirst
<1>8. q \in Seq(DbCalls) /\ DOMAIN q \subseteq Nat /\ tel \in Seq(Packets)
      /\ Len(tel) \in Nat /\ DOMAIN tel = 1..Len(tel)
    BY LenProperties DEF TypeOK, FileTypeOK, Files
<1>9. \A i \in DOMAIN q1 : i \in Nat
    <2>1. DbKeeps \/ (DbReturns /\ q # <<>>)
        BY StoreQueue, RecordQueue
        DEF StoreAction, RecordAction, ThreadEnd, ThreadEnds, DbKeeps, SessionsAreApart
    <2>2. q1 \in Seq(DbCalls)
        BY <1>8, <2>1, TailOf DEF DbKeeps, DbReturns
    <2> QED
        BY <2>2, LenProperties
<1>10. \A e \in disk'.events :
          /\ e.ts <= inputs /\ (e.pkt.at = 0 => e.pkt = NoPacket)
          /\ e.pkt.at > 0 => e.ts = e.pkt.at
    BY <1>3, <1>4, <1>6, <1>7 DEF EventTime, PacketOK
<1> HIDE DEF q, q1, tel, tel1
<1>11. \A i \in DOMAIN q1 : HasPacket(q1[i]) =>
            /\ PacketOK(q1[i].pkt) /\ NotBefore(q1[i].pkt, lastPkt)
            /\ \A n \in DOMAIN tel : NotBefore(tel[n], q1[i].pkt)
            /\ \A k \in DOMAIN q1 : i < k /\ HasPacket(q1[k]) => NotBefore(q1[i].pkt, q1[k].pkt)
    BY <1>1, <1>4, <1>8, <1>9
<1>12. /\ \A n \in DOMAIN tel1 : tel1[n].at <= inputs /\ NotBefore(tel1[n], lastPkt)
       /\ \A i, j \in DOMAIN tel1 : i < j => NotBefore(tel1[i], tel1[j])
       /\ \A i \in DOMAIN q1 : HasPacket(q1[i]) =>
             \A n \in DOMAIN tel1 : NotBefore(tel1[n], q1[i].pkt)
    <2>1. CASE tel1 = tel
        BY <1>4, <1>11, <2>1
    <2>2. CASE StoreAction /\ tel1 = Append(tel, Call.pkt) /\ HasPacket(Call) /\ DbKeeps
        <3>1. queue["db"] # <<>>
            BY <2>2, StoreQueue DEF StoreAction
        <3>2. /\ 1 \in DOMAIN q /\ Call = q[1] /\ q1 = q
              /\ \A i \in DOMAIN q : i \in Nat \ {0}
            BY <1>7, <2>2, <3>1 DEF DbKeeps, q, q1
        <3>3. Call.pkt \in Packets /\ Call.pkt.at \in Nat
            BY <2>2, <3>2, TimesAreNat, CallFields DEF HasPacket, q
        <3>4. /\ DOMAIN tel1 = 1..(Len(tel) + 1) /\ tel1[Len(tel) + 1] = Call.pkt
              /\ \A n \in 1..Len(tel) : tel1[n] = tel[n]
            BY <1>8, <2>2, <3>3, AppendProperties
        <3>5. /\ Call.pkt.at <= inputs /\ NotBefore(Call.pkt, lastPkt)
              /\ \A n \in DOMAIN tel : NotBefore(tel[n], Call.pkt)
              /\ \A k \in DOMAIN q : 1 < k /\ HasPacket(q[k]) => NotBefore(Call.pkt, q[k].pkt)
              /\ NotBefore(Call.pkt, Call.pkt)
            BY <1>4, <2>2, <3>2, <3>3 DEF PacketOK, NotBefore
        <3>6. \A n \in DOMAIN tel1 : tel1[n] = Call.pkt \/ (n \in DOMAIN tel /\ tel1[n] = tel[n])
            BY <1>8, <3>4
        <3>7. \A n \in DOMAIN tel1 : tel1[n].at <= inputs /\ NotBefore(tel1[n], lastPkt)
            BY <1>4, <3>5, <3>6
        <3>8. \A i, j \in DOMAIN tel1 : i < j => NotBefore(tel1[i], tel1[j])
            <4> SUFFICES ASSUME NEW i \in DOMAIN tel1, NEW j \in DOMAIN tel1, i < j
                         PROVE  NotBefore(tel1[i], tel1[j])
                OBVIOUS
            <4>1. i \in DOMAIN tel /\ tel1[i] = tel[i]
                BY <1>8, <3>4
            <4> QED
                BY <1>4, <3>5, <3>4, <1>8, <4>1
        <3>9. \A i \in DOMAIN q : HasPacket(q[i]) => NotBefore(Call.pkt, q[i].pkt)
            BY <3>2, <3>5
        <3>10. \A i \in DOMAIN q1 : HasPacket(q1[i]) =>
                  \A n \in DOMAIN tel1 : NotBefore(tel1[n], q1[i].pkt)
            BY <1>11, <3>2, <3>6, <3>9
        <3> QED
            BY <3>7, <3>8, <3>10
    <2> QED
        BY <1>5, <2>1, <2>2
<1>13. PacketsArrived'
    BY <1>2, <1>4, <1>10, <1>11, <1>12 DEF PacketsArrived, PacketOK, q1, tel1
<1>14. ArrivalsInOrder'
    BY <1>2, <1>4, <1>11, <1>12 DEF ArrivalsInOrder, RowsInArrivalOrder, q1, tel1
<1> QED
    BY <1>13, <1>14 DEF PacketsInOrder

LEMMA PacketsStep ==
    ASSUME TypeOK, PacketsInOrder, RowsBelong, SessionsAreApart, Next
    PROVE  PacketsInOrder'
<1>1. CASE Off
    <2>1. /\ UNCHANGED <<disk, inputs>> /\ queue'["db"] = <<>> /\ captures' = <<>>
          /\ lastPkt' = NoPacket /\ NoPacket.at = 0 /\ inputs \in Nat
        BY <1>1, BoundsAreNat DEF Off, Idle, Threads, NoPacket
    <2>2. PacketsArrived'
        BY <2>1 DEF PacketsInOrder, PacketsArrived, PacketOK
    <2>3. ArrivalsInOrder'
        BY <2>1 DEF PacketsInOrder, ArrivalsInOrder, RowsInArrivalOrder, NotBefore
    <2> QED
        BY <2>2, <2>3 DEF PacketsInOrder
<1> QED
    BY <1>1, PacketsByWindow, PacketsByOthers, Steps

\* The alert is evaluated when a packet arrives, and what is stored with a snapshot was
\* decided with its packet: an edited threshold changes neither.
AlertsKept == AlertsMeetTheRule /\ TargetsMeetTheRule
LEMMA AlertsByWindow ==
    ASSUME TypeOK, AlertsKept, WindowAction
    PROVE  AlertsKept'
<1> DEFINE q == queue["db"]
           q1 == queue'["db"]
<1>1. /\ alertActive <=> OnTarget(lastPkt)
      /\ \A i \in DOMAIN q : q[i].op = "snapshot" => MeetsTheRule(q[i])
      /\ TargetsMeetTheRule
    BY DEF AlertsKept, AlertsMeetTheRule
<1>2. disk' = disk
    BY WindowEffects DEF WindowKeepsFile
<1>3. ASSUME NEW new, Behind(new), \A x \in new : x.op = "snapshot" => MeetsTheRule(x),
             alertActive' <=> OnTarget(lastPkt')
      PROVE  AlertsKept'
    <2>1. \A i \in DOMAIN q1 :
              (i \in DOMAIN q /\ q1[i] = q[i]) \/ q1[i] \in new
        BY <1>3 DEF Behind
    <2> HIDE DEF q, q1
    <2>2. \A i \in DOMAIN q1 : q1[i].op = "snapshot" => MeetsTheRule(q1[i])
        BY <1>1, <1>3, <2>1
    <2>3. TargetsMeetTheRule'
        BY <1>1, <1>2 DEF TargetsMeetTheRule
    <2> QED
        BY <1>3, <2>2, <2>3 DEF AlertsKept, AlertsMeetTheRule, q1
<1>4. ASSUME NEW new, Behind(new), \A x \in new : ~HasPacket(x),
             UNCHANGED <<lastPkt, alertActive>>
      PROVE  AlertsKept'
    <2>1. \A x \in new : x.op = "snapshot" => MeetsTheRule(x)
        BY <1>4 DEF HasPacket
    <2>2. alertActive' <=> OnTarget(lastPkt')
        BY <1>1, <1>4
    <2> QED
        BY <1>3, <1>4, <2>1, <2>2
<1>5. CASE /\ Behind({Snapshot(lastPkt, "manual", alertActive)})
           /\ UNCHANGED <<lastPkt, alertActive>>
    <2> DEFINE s == Snapshot(lastPkt, "manual", alertActive)
    <2>1. s.pkt = lastPkt /\ s.reason = "manual" /\ s.target = alertActive
        BY DEF Snapshot
    <2> HIDE DEF s
    <2>2. MeetsTheRule(s)
        BY <1>1, <2>1 DEF MeetsTheRule
    <2>3. alertActive' <=> OnTarget(lastPkt')
        BY <1>1, <1>5
    <2>4. Behind({s})
        BY <1>5 DEF s
    <2> QED
        BY <1>3, <2>2, <2>3, <2>4
<1>6. ASSUME NEW pkt \in Packets, TelemetryArrives(pkt), pkt.at = inputs', inputs' = inputs + 1,
             pkt.threshold = ui.threshold,
             \/ /\ alertActive'
                /\ Behind({Snapshot(pkt, "auto_event", TRUE), [op |-> "telemetry", pkt |-> pkt]})
             \/ Behind({[op |-> "telemetry", pkt |-> pkt]})
      PROVE  AlertsKept'
    <2>1. inputs \in Nat /\ pkt.at > 0
        BY <1>6, BoundsAreNat
    <2>2. alertActive' <=> OnTarget(lastPkt')
        BY <1>6, <2>1 DEF TelemetryArrives, Hit, OnTarget
    <2>3. alertActive' <=> OnTarget(pkt)
        BY <1>6, <2>2 DEF TelemetryArrives
    <2> DEFINE s == Snapshot(pkt, "auto_event", TRUE)
               t == [op |-> "telemetry", pkt |-> pkt]
    <2>4. s.pkt = pkt /\ s.target = TRUE /\ t.op # "snapshot"
        BY DEF Snapshot
    <2> HIDE DEF s, t
    <2>5. CASE alertActive' /\ Behind({s, t})
        <3>1. MeetsTheRule(s)
            BY <2>3, <2>4, <2>5 DEF MeetsTheRule
        <3> QED
            BY <1>3, <2>2, <2>4, <2>5, <3>1
    <2>6. CASE Behind({t})
        BY <1>3, <2>2, <2>4, <2>6
    <2> QED
        BY <1>6, <2>5, <2>6 DEF s, t
<1> QED
    BY <1>4, <1>5, <1>6, PacketsPosted

LEMMA AlertsByOthers ==
    ASSUME TypeOK, AlertsKept, RowsBelong, SessionsAreApart,
           StoreAction \/ RecordAction \/ ThreadEnd
    PROVE  AlertsKept'
<1> DEFINE q == queue["db"]
           q1 == queue'["db"]
<1>1. PICK d \in {0, 1} : \A i \in DOMAIN q1 : i + d \in DOMAIN q /\ q1[i] = q[i + d]
    BY OthersShift DEF Shifted
<1>2. /\ UNCHANGED <<lastPkt, alertActive>>
      /\ RecordAction \/ ThreadEnd => disk' = disk
    BY DEF StoreAction, RecordAction, ThreadEnd, windowVars, storeVars
<1>3. /\ alertActive <=> OnTarget(lastPkt)
      /\ \A i \in DOMAIN q : q[i].op = "snapshot" => MeetsTheRule(q[i])
      /\ TargetsMeetTheRule
    BY DEF AlertsKept, AlertsMeetTheRule
<1>4. queue["db"] # <<>> => 1 \in DOMAIN q /\ Call = q[1]
    BY CallIsFirst
<1>5. TargetsMeetTheRule'
    <2>1. CASE disk'.events \subseteq disk.events
        BY <1>3, <2>1 DEF TargetsMeetTheRule
    <2>2. CASE /\ StoreAction /\ Call.op = "snapshot"
               /\ disk'.events = disk.events \cup
                       {[row |-> row, ts |-> EventTime(Call.pkt), pkt |-> Call.pkt,
                         reason |-> Call.reason, target |-> Call.target]}
        <3> DEFINE e == [row |-> row, ts |-> EventTime(Call.pkt), pkt |-> Call.pkt,
                         reason |-> Call.reason, target |-> Call.target]
        <3>1. MeetsTheRule(Call)
            BY <1>3, <1>4, <2>2, StoreQueue DEF StoreAction
        <3>2. MeetsTheRule(e)
            BY <3>1 DEF MeetsTheRule
        <3> HIDE DEF e
        <3>3. disk'.events = disk.events \cup {e}
            BY <2>2 DEF e
        <3> QED
            BY <1>3, <3>2, <3>3 DEF TargetsMeetTheRule
    <2> QED
        BY <1>2, <2>1, <2>2, StoredIs DEF StoreAction
<1>6. \A i \in DOMAIN q1 : q1[i].op = "snapshot" => MeetsTheRule(q1[i])
    BY <1>1, <1>3
<1>7. alertActive' <=> OnTarget(lastPkt')
    BY <1>2, <1>3
<1> QED
    BY <1>5, <1>6, <1>7 DEF AlertsKept, AlertsMeetTheRule

LEMMA AlertsStep ==
    ASSUME TypeOK, AlertsKept, RowsBelong, SessionsAreApart, Next
    PROVE  AlertsKept'
<1>1. CASE Off
    <2>1. /\ disk' = disk /\ queue'["db"] = <<>> /\ alertActive' = FALSE
          /\ lastPkt' = NoPacket /\ NoPacket.at = 0
        BY <1>1 DEF Off, Idle, Threads, NoPacket
    <2> QED
        BY <2>1 DEF AlertsKept, AlertsMeetTheRule, TargetsMeetTheRule, OnTarget
<1> QED
    BY <1>1, AlertsByWindow, AlertsByOthers, Steps

\* A save is posted behind those that wait and takes the next number.
LEMMA SavesPosted ==
    ASSUME TypeOK, WindowAction
    PROVE  \/ /\ asked' = asked
              /\ \E new : Behind(new) /\ \A x \in new : x.op # "config"
           \/ /\ asked' = Append(asked, ui.threshold)
              /\ \E cfg, new : /\ Behind(new) /\ Save(cfg) \in new
                               /\ \A x \in new : x.op = "config" => x = Save(cfg)
<1>1. Query \in DbCalls /\ Query.op # "config" /\ lastPkt \in Packets /\ alertActive \in BOOLEAN
      /\ "manual" \in Reasons /\ "auto_event" \in Reasons
    BY CallsPosted DEF Query, TypeOK, Reasons
<1>2. CASE DbKeeps /\ UNCHANGED asked
    <2>1. Behind({}) /\ \A x \in {} : x.op # "config"
        BY <1>2, PostsBehind
    <2> QED
        BY <1>2, <2>1
<1>3. ASSUME NEW x \in DbCalls, DbGets(<<x>>), x.op # "config"
      PROVE  \E new : Behind(new) /\ \A z \in new : z.op # "config"
    <2>1. Behind({x}) /\ \A z \in {x} : z.op # "config"
        BY <1>3, PostsBehind
    <2> QED
        BY <2>1
<1>4. ASSUME NEW cfg \in Forms, DbGets(<<Save(cfg)>>) \/ DbGets(<<Save(cfg), Query>>)
      PROVE  \E c, new : /\ Behind(new) /\ Save(c) \in new
                         /\ \A x \in new : x.op = "config" => x = Save(c)
    <2> DEFINE x == Save(cfg)
    <2>1. x \in DbCalls
        BY CallsPosted
    <2> HIDE DEF x
    <2>2. Behind({x}) \/ Behind({x, Query})
        BY <1>1, <1>4, <2>1, PostsBehind DEF x
    <2>3. \E new : Behind(new) /\ x \in new /\ \A z \in new : z.op = "config" => z = x
        BY <1>1, <2>2
    <2> QED
        BY <2>3 DEF x
<1>5. CASE DbGets(<<Snapshot(lastPkt, "manual", alertActive)>>) /\ UNCHANGED asked
    <2> DEFINE x == Snapshot(lastPkt, "manual", alertActive)
    <2>1. x \in DbCalls /\ x.op # "config"
        BY <1>1, CallsPosted DEF Snapshot
    <2> HIDE DEF x
    <2> QED
        BY <1>3, <1>5, <2>1 DEF x
<1>6. ASSUME NEW pkt \in Packets, TelemetryArrives(pkt)
      PROVE  \E new : Behind(new) /\ \A z \in new : z.op # "config"
    <2> DEFINE x == Snapshot(pkt, "auto_event", TRUE)
               y == [op |-> "telemetry", pkt |-> pkt]
    <2>1. x \in DbCalls /\ y \in DbCalls /\ x.op # "config" /\ y.op # "config"
        BY <1>1, CallsPosted DEF Snapshot
    <2> HIDE DEF x, y
    <2>2. DbGets(<<x, y>>) \/ DbGets(<<y>>)
        BY <1>6 DEF TelemetryArrives, x, y
    <2>3. Behind({x, y}) \/ Behind({y})
        BY <2>1, <2>2, PostsBehind
    <2> QED
        BY <2>1, <2>3
<1>7. \A x \in DbCalls : x.op \in Blocking => x.op # "config"
    BY DEF Blocking
<1> QED
    BY <1>2, <1>3, <1>4, <1>5, <1>6, <1>7, WindowEffects

\* The row of the configuration changes with the call that stores it, and that call leaves
\* it only when it fails (database_service.cpp:226-244).
LEMMA SavedIs ==
    ASSUME TypeOK, CallIsUnderWay, StoreStep
    PROVE  \/ /\ disk'.config = disk.config
              /\ DbKeeps \/ Call.op # "config" \/ faults' > 0 \/ "app_config" \notin disk.schema
           \/ Call.op = "config" /\ DbReturns /\ disk'.config.no = Call.no
<1>1. queue["db"] # <<>> /\ disk \in Files /\ faults \in Nat
    BY StoreQueue, BoundsAreNat DEF TypeOK, FileTypeOK
<1>2. Fault => faults' > 0
    BY <1>1 DEF Fault
<1>3. CASE EnsureConnection
    BY <1>2, <1>3 DEF EnsureConnection, DbKeeps
<1>4. CASE CreateTables \/ DropEvents \/ CreateEvents \/ LoadConfig \/ QueryEvents
    <2>1. Call.op # "config"
        BY <1>1, <1>4, StatementIs DEF CreateTables, DropEvents, CreateEvents, LoadConfig, QueryEvents
    <2>2. disk'.config = disk.config
        BY <1>1, <1>4 DEF CreateTables, DropEvents, CreateEvents, LoadConfig, QueryEvents, Files
    <2> QED
        BY <2>1, <2>2
<1>5. CASE InsertTelemetry \/ InsertObjects \/ InsertGps \/ InsertSnapshotEvent
    <2>1. Call.op # "config"
        BY <1>1, <1>5, StatementIs
        DEF InsertTelemetry, InsertObjects, InsertGps, InsertSnapshotEvent, HasPacket
    <2>2. disk'.config = disk.config
        BY <1>1, <1>5 DEF InsertTelemetry, InsertObjects, InsertGps, InsertDetail,
            InsertSnapshotEvent, Files
    <2> QED
        BY <2>1, <2>2
<1>6. CASE SaveConfigAsync
    <2>1. Call.op = "config"
        BY <1>1, <1>6, StatementIs DEF SaveConfigAsync
    <2> DbReturns
        BY <1>1, <1>6 DEF SaveConfigAsync, ReturnNothing, Return, Finished, DbReturns,
            TypeOK, ThreadsTypeOK, Threads
    <2>2. CASE /\ Works("app_config")
               /\ disk' = [disk EXCEPT !.config =
                            [record |-> Call.cfg.record, geometry |-> Call.cfg.geometry,
                             no |-> Call.no]]
        BY <1>1, <2>1, <2>2 DEF Files
    <2>3. CASE Fails("app_config") /\ UNCHANGED disk
        BY <1>2, <2>3 DEF Fails
    <2> QED
        BY <1>6, <2>2, <2>3 DEF SaveConfigAsync
<1> QED
    BY <1>3, <1>4, <1>5, <1>6 DEF StoreStep

\* Saves are stored in the order they were asked for, so the last one stays.
SavesKept == SavesInOrder /\ LastSaveWins
IsSave(call) == call.op = "config"
LEMMA SavesByWindow ==
    ASSUME TypeOK, SavesKept, WindowAction
    PROVE  SavesKept'
<1> DEFINE q == queue["db"]
           q1 == queue'["db"]
<1>1. /\ disk.config.no <= Len(asked)
      /\ \A i \in DOMAIN q : IsSave(q[i]) =>
            /\ q[i].no <= Len(asked)
            /\ q[i].no = Len(asked) \/ \E k \in DOMAIN q : i < k /\ IsSave(q[k])
      /\ faults > 0 \/ (\E i \in DOMAIN q : IsSave(q[i])) \/ disk.config.no = Len(asked)
    BY DEF SavesKept, SavesInOrder, LastSaveWins, IsSave
<1>2. disk' = disk /\ (faults > 0 => faults' > 0)
    BY WindowEffects, BoundsAreNat DEF WindowKeepsFile, Fault
<1>3. /\ disk.config.no \in Nat /\ Len(asked) \in Nat /\ asked \in Seq(Thresholds)
      /\ ui.threshold \in Thresholds
      /\ \A i \in DOMAIN q : IsSave(q[i]) => q[i].no \in Nat
    <2>1. disk.config \in ConfigRows \cup {NoRow}
        BY DEF TypeOK, FileTypeOK, Files
    <2>2. disk.config.no \in Nat
        BY <2>1 DEF ConfigRows, NoRow
    <2>3. \A i \in DOMAIN q : q[i] \in DbCalls
        BY TimesAreNat
    <2> QED
        BY <2>2, <2>3, CallFields, LenProperties DEF TypeOK, Forms, IsSave
<1>4. ASSUME NEW new, Behind(new), \A x \in new : x.op # "config", asked' = asked
      PROVE  SavesKept'
    <2>1. /\ \A i \in DOMAIN q : i \in DOMAIN q1 /\ q1[i] = q[i]
          /\ \A i \in DOMAIN q1 : IsSave(q1[i]) => i \in DOMAIN q
        BY <1>4 DEF Behind, IsSave
    <2> HIDE DEF q, q1
    <2>2. \A i \in DOMAIN q1 : IsSave(q1[i]) =>
              /\ q1[i].no <= Len(asked)
              /\ q1[i].no = Len(asked) \/ \E k \in DOMAIN q1 : i < k /\ IsSave(q1[k])
        BY <1>1, <2>1
    <2>3. faults' > 0 \/ (\E i \in DOMAIN q1 : IsSave(q1[i])) \/ disk.config.no = Len(asked)
        BY <1>1, <1>2, <2>1
    <2> QED
        BY <1>1, <1>2, <1>4, <2>2, <2>3 DEF SavesKept, SavesInOrder, LastSaveWins, IsSave, q1
<1>5. ASSUME NEW cfg, NEW new, Behind(new), Save(cfg) \in new,
             \A x \in new : x.op = "config" => x = Save(cfg),
             asked' = Append(asked, ui.threshold)
      PROVE  SavesKept'
    <2>1. Len(asked') = Len(asked) + 1
        BY <1>3, <1>5, AppendProperties
    <2>2. Save(cfg).op = "config" /\ Save(cfg).no = Len(asked) + 1
        BY DEF Save
    <2>3. \A i \in DOMAIN q : i \in DOMAIN q1 /\ q1[i] = q[i]
        BY <1>5 DEF Behind
    <2>4. \A i \in DOMAIN q1 : i \notin DOMAIN q =>
              /\ q1[i].op = "config" => q1[i] = Save(cfg)
              /\ \A k \in DOMAIN q : k < i
        BY <1>5 DEF Behind
    <2>5. PICK m \in DOMAIN q1 : m \notin DOMAIN q /\ q1[m] = Save(cfg)
        BY <1>5 DEF Behind
    <2> HIDE DEF q, q1
    <2>6. \A i \in DOMAIN q1 : IsSave(q1[i]) =>
              /\ q1[i].no <= Len(asked)'
              /\ q1[i].no = Len(asked)' \/ \E k \in DOMAIN q1 : i < k /\ IsSave(q1[k])
        <3> SUFFICES ASSUME NEW i \in DOMAIN q1, IsSave(q1[i])
                     PROVE  /\ q1[i].no <= Len(asked)'
                            /\ q1[i].no = Len(asked)' \/ \E k \in DOMAIN q1 : i < k /\ IsSave(q1[k])
            OBVIOUS
        <3>1. CASE i \in DOMAIN q
            <4>1. q1[i].no <= Len(asked)'
                BY <1>1, <1>3, <2>1, <2>3, <3>1
            <4>2. i < m /\ IsSave(q1[m])
                BY <2>2, <2>4, <2>5, <3>1 DEF IsSave
            <4> QED
                BY <4>1, <4>2
        <3>2. CASE i \notin DOMAIN q
            <4>1. q1[i].no = Len(asked) + 1
                BY <2>2, <2>4, <3>2 DEF IsSave
            <4> QED
                BY <1>3, <2>1, <4>1
        <3> QED
            BY <3>1, <3>2
    <2>7. IsSave(q1[m])
        BY <2>2, <2>5 DEF IsSave
    <2>8. disk.config.no <= Len(asked)'
        BY <1>1, <1>3, <2>1
    <2> QED
        BY <1>2, <2>6, <2>7, <2>8 DEF SavesKept, SavesInOrder, LastSaveWins, IsSave, q1
<1> QED
    BY <1>4, <1>5, SavesPosted

LEMMA SavesByOthers ==
    ASSUME TypeOK, SavesKept, CallIsUnderWay, CallsAreAwaited, TablesAreThere, SessionsAreApart,
           StoreAction \/ RecordAction \/ ThreadEnd
    PROVE  SavesKept'
<1> DEFINE q == queue["db"]
           q1 == queue'["db"]
<1>1. /\ disk.config.no <= Len(asked)
      /\ \A i \in DOMAIN q : IsSave(q[i]) =>
            /\ q[i].no <= Len(asked)
            /\ q[i].no = Len(asked) \/ \E k \in DOMAIN q : i < k /\ IsSave(q[k])
      /\ faults > 0 \/ (\E i \in DOMAIN q : IsSave(q[i])) \/ disk.config.no = Len(asked)
    BY DEF SavesKept, SavesInOrder, LastSaveWins, IsSave
<1>2. /\ asked' = asked /\ (faults > 0 => faults' > 0)
      /\ faults \in Nat /\ (RecordAction \/ ThreadEnd => disk' = disk /\ DbKeeps)
    <2>1. faults \in Nat
        BY BoundsAreNat
    <2>2. asked' = asked /\ (RecordAction \/ ThreadEnd => disk' = disk)
        BY DEF StoreAction, RecordAction, ThreadEnd, countVars, storeVars
    <2>3. (RecordAction \/ ThreadEnd => DbKeeps) /\ (faults' = faults \/ Fault)
        BY RecordQueue, StoreQueue
        DEF StoreAction, RecordAction, ThreadEnd, ThreadEnds, DbKeeps, SessionsAreApart
    <2> QED
        BY <2>1, <2>2, <2>3 DEF Fault
<1>3. q \in Seq(DbCalls) /\ Len(q) \in Nat /\ DOMAIN q = 1..Len(q)
    BY LenProperties DEF TypeOK
<1>4. CASE DbKeeps /\ disk'.config = disk.config
    <2>1. q1 = q
        BY <1>4 DEF DbKeeps
    <2> HIDE DEF q
    <2> QED
        BY <1>1, <1>2, <1>4, <2>1 DEF SavesKept, SavesInOrder, LastSaveWins, IsSave
<1>5. CASE StoreAction /\ DbReturns /\ q # <<>>
    <2>1. /\ q1 = Tail(q) /\ DOMAIN Tail(q) = 1..(Len(q) - 1)
          /\ \A i \in 1..(Len(q) - 1) : Tail(q)[i] = q[i + 1]
          /\ Call = q[1] /\ 1 \in DOMAIN q
        BY <1>3, <1>5, TailOf, CallIsFirst DEF DbReturns
    <2>2. /\ DOMAIN q1 = 1..(Len(q) - 1)
          /\ \A i \in 1..(Len(q) - 1) : q1[i] = q[i + 1]
        BY <2>1, Zenon
    <2>3. \/ /\ disk'.config = disk.config
             /\ ~IsSave(Call) \/ faults' > 0
          \/ IsSave(Call) /\ disk'.config.no = Call.no
        <3>1. DbKeeps => FALSE
            <4>1. Len(Tail(q)) = Len(q) - 1 /\ Len(q) \in Nat
                BY <1>3, <1>5, TailOf
            <4>2. Len(q) - 1 # Len(q)
                BY <4>1
            <4>3. q1 = Tail(q)
                BY <1>5 DEF DbReturns
            <4>4. DbKeeps => q1 = q
                BY DEF DbKeeps
            <4> HIDE DEF q, q1
            <4> QED
                BY <4>1, <4>2, <4>3, <4>4, Zenon
        <3>2. IsSave(Call) /\ "app_config" \notin disk.schema => faults > 0
            <4>1. IsSave(Call) => life \notin {"off", "init", "load"}
                BY <2>1 DEF CallsAreAwaited, IsSave, Blocking
            <4>2. IsSave(Call) /\ faults = 0 => "app_config" \in disk.schema
                BY <4>1, TableNames DEF TablesAreThere, Migrated
            <4> QED
                BY <1>2, <4>2
        <3> QED
            BY <1>2, <1>5, <3>1, <3>2, SavedIs DEF StoreAction, IsSave
    <2> HIDE DEF q, q1
    <2>4. \A i \in DOMAIN q1 : IsSave(q1[i]) =>
              /\ q1[i].no <= Len(asked)
              /\ q1[i].no = Len(asked) \/ \E k \in DOMAIN q1 : i < k /\ IsSave(q1[k])
        <3> SUFFICES ASSUME NEW i \in DOMAIN q1, IsSave(q1[i])
                     PROVE  /\ q1[i].no <= Len(asked)
                            /\ q1[i].no = Len(asked) \/ \E k \in DOMAIN q1 : i < k /\ IsSave(q1[k])
            OBVIOUS
        <3>1. i \in Nat /\ i + 1 \in DOMAIN q /\ q1[i] = q[i + 1]
            BY <1>3, <2>2
        <3>2. CASE \E k \in DOMAIN q : i + 1 < k /\ IsSave(q[k])
            <4>1. PICK k \in DOMAIN q : i + 1 < k /\ IsSave(q[k])
                BY <3>2
            <4>2. k - 1 \in DOMAIN q1 /\ q1[k - 1] = q[k] /\ i < k - 1
                BY <1>3, <2>2, <3>1, <4>1
            <4> QED
                BY <1>1, <3>1, <4>1, <4>2
        <3> QED
            BY <1>1, <3>1, <3>2
    <2>5. \A k \in DOMAIN q : IsSave(q[k]) /\ k # 1 => \E i \in DOMAIN q1 : IsSave(q1[i])
        <3> SUFFICES ASSUME NEW k \in DOMAIN q, IsSave(q[k]), k # 1
                     PROVE  \E i \in DOMAIN q1 : IsSave(q1[i])
            OBVIOUS
        <3>1. k - 1 \in DOMAIN q1 /\ q1[k - 1] = q[k]
            BY <1>3, <2>2
        <3> QED
            BY <3>1
    <2>6. disk'.config.no <= Len(asked)
        BY <1>1, <2>1, <2>3
    <2>7. faults' > 0 \/ (\E i \in DOMAIN q1 : IsSave(q1[i])) \/ disk'.config.no = Len(asked)
        <3>1. CASE disk'.config = disk.config /\ (~IsSave(Call) \/ faults' > 0)
            BY <1>1, <1>2, <2>1, <2>5, <3>1
        <3>2. CASE IsSave(Call) /\ disk'.config.no = Call.no
            BY <1>1, <1>3, <2>1, <2>5, <3>2
        <3> QED
            BY <2>3, <3>1, <3>2
    <2> QED
        BY <1>2, <2>4, <2>6, <2>7 DEF SavesKept, SavesInOrder, LastSaveWins, IsSave, q1
<1> QED
    <2>1. StoreAction => q # <<>> /\ (DbKeeps \/ DbReturns)
        BY StoreQueue DEF StoreAction
    <2>2. StoreAction => disk'.config = disk.config \/ DbReturns
        BY SavedIs DEF StoreAction
    <2> QED
        BY <1>2, <1>4, <1>5, <2>1, <2>2

LEMMA SavesStep ==
    ASSUME TypeOK, SavesKept, CallIsUnderWay, CallsAreAwaited, TablesAreThere, SessionsAreApart,
           Next
    PROVE  SavesKept'
<1>1. CASE Off
    <2>1. /\ disk' = disk /\ queue'["db"] = <<>> /\ asked' = SubSeq(asked, 1, disk.config.no)
        BY <1>1 DEF Off, Idle, Threads
    <2>2. disk.config \in ConfigRows \cup {NoRow} /\ asked \in Seq(Thresholds)
        BY DEF TypeOK, FileTypeOK, Files
    <2>3. disk.config.no \in Nat /\ Len(asked) \in Nat /\ disk.config.no <= Len(asked)
        BY <2>2, LenProperties DEF ConfigRows, NoRow, SavesKept, SavesInOrder
    <2> DEFINE n == disk.config.no
    <2> HIDE DEF n
    <2>4. \A i \in 1..n : asked[i] \in Thresholds
        BY <2>2, <2>3, ElementOfSeq DEF n
    <2>5. Len(SubSeq(asked, 1, n)) = n
        BY <2>3, <2>4, SubSeqProperties DEF n
    <2> QED
        BY <2>1, <2>3, <2>5 DEF SavesKept, SavesInOrder, LastSaveWins, n
<1> QED
    BY <1>1, SavesByWindow, SavesByOthers, Steps

\* A call the window waits for is alone in the queue, and the window's.
LEMMA AwaitedCallRuns ==
    ASSUME TypeOK, CallsAreAwaited, queue["db"] # <<>>, Call.op \in Blocking
    PROVE  /\ Waiting /\ Len(queue["db"]) = 1 /\ Call = AwaitedCall
           /\ Call.op = "init" <=> life = "init"
           /\ Call.op = "load" <=> life = "load"
           /\ Call.op = "events" <=> life = "refresh"
           /\ Call.op = "events" => Call.to = eventTo
<1> DEFINE q == queue["db"]
<1>1. 1 \in DOMAIN q /\ Call = q[1]
    BY CallIsFirst
<1> HIDE DEF q
<1>2. Waiting /\ 1 = Len(q) /\ q[Len(q)] = AwaitedCall
    BY <1>1 DEF CallsAreAwaited, q
<1>3. Call = AwaitedCall
    BY <1>1, <1>2
<1>4. /\ life = "init" => AwaitedCall.op = "init"
      /\ life = "load" => AwaitedCall.op = "load"
      /\ life = "refresh" => AwaitedCall.op = "events" /\ AwaitedCall.to = eventTo
    BY DEF AwaitedCall, Query
<1>5. life \in {"init", "load", "refresh"}
    BY <1>2 DEF Waiting
<1> QED
    BY <1>2, <1>3, <1>4, <1>5 DEF q

\* The schema is complete once initialize() has answered without a failure
\* (database_service.cpp:115-199).
LEMMA MigratedStays ==
    ASSUME TypeOK, CallsAreAwaited, WindowAction
    PROVE  Migrated' => Migrated
<1>1. CASE Launch
    BY <1>1 DEF Launch, WorkersUnchanged, storeVars, CallsAreAwaited, Migrated
<1>2. CASE Initialized
    BY <1>2 DEF Initialized, Migrated
<1>3. CASE ApplyConfigToUi \/ Refreshed \/ QuitThreads \/ Close
    BY <1>3 DEF ApplyConfigToUi, Refreshed, QuitThreads, Close, Migrated
<1>4. CASE \/ Edit \/ OnStartAll \/ OnStopAll \/ OnSaveConfig \/ OnTelemetry \/ OnFrame
           \/ OnCaptureScreenshot \/ OnRefreshEvents
    BY <1>4 DEF Edit, OnStartAll, OnStopAll, OnSaveConfig, OnTelemetry, OnFrame,
        OnCaptureScreenshot, OnRefreshEvents, Input, InputOrFault, Migrated
<1> QED
    BY <1>1, <1>2, <1>3, <1>4 DEF WindowAction

FourTables == {Tables[i] : i \in 1..Len(Tables)}
LEMMA TablesByStore ==
    ASSUME TypeOK, TablesAreThere, CallIsUnderWay, CallsAreAwaited, StoreAction
    PROVE  TablesAreThere'
<1>1. /\ StoreStep /\ life' = life /\ queue["db"] # <<>> /\ disk \in Files /\ faults \in Nat
      /\ (faults' = faults \/ Fault) /\ FourTables' = FourTables
    BY StoreQueue, BoundsAreNat DEF StoreAction, windowVars, TypeOK, FileTypeOK, FourTables, Tables
<1>2. Fault => faults' # 0
    BY <1>1 DEF Fault
<1>3. /\ stmt \in {"drop", "recreate"} => FourTables \subseteq disk.schema
      /\ Migrated /\ faults = 0 => FourTables \cup {"snapshot_events"} \subseteq disk.schema
    BY DEF TablesAreThere, FourTables
<1>4. CASE EnsureConnection
    <2>1. CASE UNCHANGED <<disk, stmt, reply, faults>>
        BY <1>1, <1>3, <2>1 DEF TablesAreThere, Migrated, FourTables
    <2>2. CASE Fault /\ stmt' = "idle"
        BY <1>1, <1>2, <2>2 DEF TablesAreThere
    <2> QED
        BY <1>4, <2>1, <2>2 DEF EnsureConnection, Answer, Return
<1>5. CASE CreateTables
    <2>1. CASE Fault /\ stmt' = "idle"
        BY <1>2, <2>1 DEF TablesAreThere
    <2>2. CASE /\ disk' = [disk EXCEPT !.schema = @ \cup FourTables]
               /\ Continue("drop") /\ UNCHANGED faults
        <3>1. disk'.schema = disk.schema \cup FourTables
            BY <1>1, <2>2 DEF Files
        <3>2. stmt' = "drop" /\ (Migrated' => Migrated) /\ faults' = faults
            BY <1>1, <2>2 DEF Continue, Migrated
        <3> HIDE DEF FourTables
        <3>3. FourTables \subseteq disk'.schema /\ disk.schema \subseteq disk'.schema
            BY <3>1
        <3>4. Migrated' /\ faults' = 0 => FourTables \cup {"snapshot_events"} \subseteq disk'.schema
            BY <1>3, <3>2, <3>3
        <3> QED
            BY <1>1, <3>2, <3>3, <3>4 DEF TablesAreThere, FourTables
    <2> QED
        BY <1>5, <2>1, <2>2 DEF CreateTables, Answer, Return, FourTables
<1>6. CASE DropEvents
    <2>1. stmt = "drop" /\ Call.op = "init"
        BY <1>1, <1>6, StatementIs DEF DropEvents
    <2>2. ~Migrated
        BY <1>1, <2>1, AwaitedCallRuns DEF Migrated, Waiting, Blocking
    <2>3. stmt' = "recreate" /\ ~Migrated'
        BY <1>1, <1>6, <2>2 DEF DropEvents, Continue, Migrated
    <2>4. CASE Fault /\ UNCHANGED disk
        BY <1>1, <1>2, <1>3, <2>1, <2>3, <2>4 DEF TablesAreThere, FourTables
    <2>5. CASE disk' = [disk EXCEPT !.schema = @ \ {"snapshot_events"}, !.events = {}]
        <3>1. disk'.schema = disk.schema \ {"snapshot_events"}
            BY <1>1, <2>5 DEF Files
        <3>2. "snapshot_events" \notin FourTables
            BY TableNames DEF FourTables
        <3> HIDE DEF FourTables
        <3>3. FourTables \subseteq disk'.schema
            BY <1>3, <2>1, <3>1, <3>2
        <3> QED
            BY <1>1, <2>3, <3>1, <3>3 DEF TablesAreThere, FourTables
    <2> QED
        BY <1>6, <2>4, <2>5 DEF DropEvents
<1>7. CASE CreateEvents
    <2>1. stmt = "recreate" /\ stmt' = "idle"
        BY <1>1, <1>7, StatementIs DEF CreateEvents, Answer, Return
    <2>2. CASE disk' = [disk EXCEPT !.schema = @ \cup {"snapshot_events"}]
        <3>1. disk'.schema = disk.schema \cup {"snapshot_events"}
            BY <1>1, <2>2 DEF Files
        <3> HIDE DEF FourTables
        <3>2. FourTables \cup {"snapshot_events"} \subseteq disk'.schema
            BY <1>3, <2>1, <3>1
        <3> QED
            BY <1>1, <2>1, <3>2 DEF TablesAreThere, FourTables
    <2>3. CASE Fault
        BY <1>2, <2>1, <2>3 DEF TablesAreThere
    <2> QED
        BY <1>7, <2>2, <2>3 DEF CreateEvents
<1>8. CASE LoadConfig \/ QueryEvents
    <2>1. life \notin {"off", "init"}
        BY <1>1, <1>8, AwaitedCallRuns DEF LoadConfig, QueryEvents, Blocking
    <2>2. disk' = disk /\ stmt' = "idle"
        BY <1>8 DEF LoadConfig, QueryEvents, Answer, Return
    <2> QED
        BY <1>1, <1>2, <1>3, <2>1, <2>2 DEF TablesAreThere, Migrated, FourTables
<1>9. CASE SaveConfigAsync \/ InsertTelemetry \/ InsertObjects \/ InsertGps \/ InsertSnapshotEvent
    <2>1. disk'.schema = disk.schema
        BY <1>1, <1>9 DEF SaveConfigAsync, InsertTelemetry, InsertObjects, InsertGps, InsertDetail,
            InsertSnapshotEvent, Files
    <2>2. stmt' \notin {"drop", "recreate"} /\ reply' = reply
        BY <1>9 DEF SaveConfigAsync, InsertTelemetry, InsertObjects, InsertGps,
            InsertSnapshotEvent, ReturnNothing, Return, Continue
    <2> QED
        BY <1>1, <1>2, <1>3, <2>1, <2>2 DEF TablesAreThere, Migrated, FourTables
<1> QED
    BY <1>1, <1>4, <1>5, <1>6, <1>7, <1>8, <1>9 DEF StoreStep

LEMMA TablesStep ==
    ASSUME TypeOK, TablesAreThere, CallIsUnderWay, CallsAreAwaited, SessionsAreApart, Next
    PROVE  TablesAreThere'
<1>1. CASE WindowAction
    <2>1. UNCHANGED <<disk, stmt>> /\ (Migrated' => Migrated) /\ (faults' = 0 => faults = 0)
        BY <1>1, WindowEffects, MigratedStays, BoundsAreNat DEF WindowKeepsFile, Fault
    <2> QED
        BY <2>1 DEF TablesAreThere, Tables
<1>2. CASE RecordAction \/ ThreadEnd
    <2>1. faults' = 0 => faults = 0
        BY <1>2, RecordQueue, BoundsAreNat DEF RecordAction, ThreadEnd, Fault, SessionsAreApart
    <2>2. UNCHANGED <<disk, stmt, reply, life>>
        BY <1>2 DEF RecordAction, ThreadEnd, storeVars, windowVars
    <2> QED
        BY <2>1, <2>2 DEF TablesAreThere, Migrated, Tables
<1>3. CASE Off
    BY <1>3 DEF Off, TablesAreThere, Migrated
<1> QED
    BY <1>1, <1>2, <1>3, TablesByStore, Steps

-----------------------------------------------------------------------------
\* What a run posts is later than its beginning: its packets arrive, and its snapshots
\* are taken, one input later at the least (main_window.cpp:613-640, 778-804).
LEMMA LaterByWindow ==
    ASSUME TypeOK, RunIsLater, WindowAction
    PROVE  RunIsLater'
<1> DEFINE q == queue["db"]
           q1 == queue'["db"]
           IsLater(call) == call.op = "snapshot" => call.pkt.at = 0 \/ call.pkt.at > since
<1>1. since' = since
    BY DEF WindowAction, Launch, Initialized, ApplyConfigToUi, Refreshed, QuitThreads,
        Edit, OnStartAll, OnStopAll, OnSaveConfig, OnTelemetry, OnFrame, OnCaptureScreenshot,
        OnRefreshEvents, Close, Input, InputOrFault, countVars
<1>2. life' \in {"off", "init"} => life \in {"off", "init"} /\ inputs' = inputs
    BY DEF WindowAction, Launch, Initialized, ApplyConfigToUi, Refreshed, QuitThreads,
        Edit, OnStartAll, OnStopAll, OnSaveConfig, OnTelemetry, OnFrame, OnCaptureScreenshot,
        OnRefreshEvents, Close, Input, InputOrFault
<1>3. /\ inputs' \in {inputs, inputs + 1} /\ inputs \in Nat
      /\ \A i \in DOMAIN q : q[i] \in DbCalls
    BY WindowEffects, TimesAreNat
<1>4. /\ since \in Nat /\ since <= inputs /\ (life \in {"off", "init"} => since = inputs)
      /\ lastPkt.at = 0 \/ lastPkt.at > since
      /\ \A i \in DOMAIN q : q[i].op = "snapshot" => inputs > since
      /\ \A i \in DOMAIN q : IsLater(q[i])
    BY <1>3 DEF RunIsLater
<1> HIDE DEF q, q1, IsLater
<1>5. since' \in 0..inputs' /\ (life' \in {"off", "init"} => since' = inputs')
    BY <1>1, <1>2, <1>3, <1>4
<1>6. ASSUME NEW new, Behind(new), \A x \in new : x.op = "snapshot" => inputs' = inputs + 1,
             \A x \in new : IsLater(x), lastPkt'.at = 0 \/ lastPkt'.at > since
      PROVE  RunIsLater'
    <2>1. \A i \in DOMAIN q1 : (i \in DOMAIN q /\ q1[i] = q[i]) \/ q1[i] \in new
        BY <1>6 DEF Behind, q, q1
    <2>2. ASSUME NEW i \in DOMAIN q1, q1[i].op = "snapshot"
          PROVE  inputs' > since /\ IsLater(q1[i])
        <3>1. CASE i \in DOMAIN q /\ q1[i] = q[i]
            BY <1>3, <1>4, <2>2, <3>1
        <3>2. CASE q1[i] \in new
            BY <1>3, <1>4, <1>6, <2>2, <3>2
        <3> QED
            BY <2>1, <3>1, <3>2
    <2>3. \A i \in DOMAIN q1 : q1[i].op = "snapshot" =>
              inputs' > since' /\ (q1[i].pkt.at = 0 \/ q1[i].pkt.at > since')
        BY <1>1, <2>2 DEF IsLater
    <2> QED
        BY <1>1, <1>5, <1>6, <2>3 DEF RunIsLater, q1
<1>7. ASSUME NEW new, Behind(new), \A x \in new : ~HasPacket(x), UNCHANGED lastPkt
      PROVE  RunIsLater'
    <2>1. \A x \in new : x.op # "snapshot"
        BY <1>7 DEF HasPacket
    <2>2. \A x \in new : IsLater(x)
        BY <2>1 DEF IsLater
    <2> QED
        BY <1>4, <1>6, <1>7, <2>1, <2>2
<1>8. CASE /\ Behind({Snapshot(lastPkt, "manual", alertActive)})
           /\ inputs' = inputs + 1 /\ UNCHANGED lastPkt
    <2>1. IsLater(Snapshot(lastPkt, "manual", alertActive))
        BY <1>4 DEF Snapshot, IsLater
    <2> QED
        BY <1>4, <1>6, <1>8, <2>1
<1>9. ASSUME NEW pkt, lastPkt' = pkt, pkt.at = inputs', inputs' = inputs + 1,
             \/ Behind({Snapshot(pkt, "auto_event", TRUE), [op |-> "telemetry", pkt |-> pkt]})
             \/ Behind({[op |-> "telemetry", pkt |-> pkt]})
      PROVE  RunIsLater'
    <2> DEFINE x == Snapshot(pkt, "auto_event", TRUE)
               y == [op |-> "telemetry", pkt |-> pkt]
    <2>1. pkt.at > since
        BY <1>3, <1>4, <1>9
    <2>2. IsLater(x) /\ IsLater(y)
        BY <2>1 DEF Snapshot, IsLater
    <2>3. lastPkt'.at = 0 \/ lastPkt'.at > since
        BY <1>9, <2>1
    <2> HIDE DEF x, y
    <2>4. CASE Behind({x, y})
        BY <1>6, <1>9, <2>2, <2>3, <2>4
    <2>5. CASE Behind({y})
        BY <1>6, <1>9, <2>2, <2>3, <2>5
    <2> QED
        BY <1>9, <2>4, <2>5 DEF x, y
<1> QED
    BY <1>7, <1>8, <1>9, PacketsPosted DEF TelemetryArrives

LEMMA LaterStep ==
    ASSUME TypeOK, RunIsLater, SessionsAreApart, Next
    PROVE  RunIsLater'
<1>1. CASE StoreAction \/ RecordAction \/ ThreadEnd
    <2>1. PICK d \in {0, 1} : Shifted(d)
        BY <1>1, OthersShift
    <2>2. UNCHANGED <<inputs, since, lastPkt, life>>
        BY <1>1 DEF StoreAction, RecordAction, ThreadEnd, windowVars, countVars
    <2> QED
        BY <2>1, <2>2 DEF RunIsLater, Shifted
<1>2. CASE Off
    <2>1. queue'["db"] = <<>>
        BY <1>2 DEF Off, Idle, Threads
    <2>2. lastPkt'.at = 0 /\ since' = inputs' /\ inputs' \in Nat
        BY <1>2, TimesAreNat DEF Off, NoPacket
    <2> QED
        BY <2>1, <2>2 DEF RunIsLater
<1> QED
    BY <1>1, <1>2, LaterByWindow, Steps

\* The events of this run of the program; older ones may be there or not.
Mine == OfThisRun(disk.events)

-----------------------------------------------------------------------------
\* Counting the captures.  The elements of a sequence that lie in a set are counted by
\* their indices.
Held(s, M) == {i \in DOMAIN s : s[i] \in M}
LEMMA HeldIsFinite ==
    ASSUME NEW T, NEW s \in Seq(T), NEW M
    PROVE  /\ IsFiniteSet(Held(s, M)) /\ Cardinality(Held(s, M)) \in Nat
           /\ Held(s, M) \subseteq 1..Len(s) /\ Len(s) \in Nat /\ DOMAIN s = 1..Len(s)
<1>1. Len(s) \in Nat /\ DOMAIN s = 1..Len(s)
    BY LenProperties
<1>2. IsFiniteSet(1..Len(s)) /\ Held(s, M) \subseteq 1..Len(s)
    BY <1>1, FS_Interval DEF Held
<1> QED
    BY <1>1, <1>2, FS_Subset, FS_CardinalityType

\* One more element counts once when it lies in the set.
LEMMA HeldGrows ==
    ASSUME NEW T, NEW s \in Seq(T), NEW s1, NEW x, NEW M,
           DOMAIN s1 = 1..(Len(s) + 1), s1[Len(s) + 1] = x,
           \A i \in 1..Len(s) : s1[i] = s[i]
    PROVE  Cardinality(Held(s1, M)) = Cardinality(Held(s, M)) + (IF x \in M THEN 1 ELSE 0)
<1> DEFINE n == Len(s)
<1>1. /\ IsFiniteSet(Held(s, M)) /\ Cardinality(Held(s, M)) \in Nat
      /\ Held(s, M) \subseteq 1..n /\ n \in Nat /\ DOMAIN s = 1..n
    BY HeldIsFinite
<1> HIDE DEF n
<1>2. CASE x \in M
    <2>1. Held(s1, M) = Held(s, M) \cup {n + 1} /\ n + 1 \notin Held(s, M)
        BY <1>1, <1>2 DEF Held, n
    <2> QED
        BY <1>1, <1>2, <2>1, FS_AddElement
<1>3. CASE x \notin M
    <2>1. Held(s1, M) = Held(s, M)
        BY <1>1, <1>3 DEF Held, n
    <2> QED
        BY <1>1, <1>3, <2>1
<1> QED
    BY <1>2, <1>3

\* What is posted counts as many times as its calls lie in the set.
LEMMA HeldPosted ==
    ASSUME NEW T, NEW s \in Seq(T), NEW x \in T, NEW M
    PROVE  /\ Cardinality(Held(s \o <<x>>, M))
                 = Cardinality(Held(s, M)) + (IF x \in M THEN 1 ELSE 0)
           /\ \A y \in T \ M : Cardinality(Held(s \o <<x, y>>, M))
                 = Cardinality(Held(s, M)) + (IF x \in M THEN 1 ELSE 0)
<1> DEFINE n == Len(s)
           k == IF x \in M THEN 1 ELSE 0
           p == s \o <<x>>
<1>1. n \in Nat /\ Cardinality(Held(s, M)) \in Nat /\ k \in Nat
    BY HeldIsFinite
<1>2. /\ p \in Seq(T) /\ Len(p) = n + 1 /\ DOMAIN p = 1..(n + 1)
      /\ p[n + 1] = x /\ \A i \in 1..n : p[i] = s[i]
    BY PostedOne
<1> HIDE DEF p
<1>3. Cardinality(Held(p, M)) = Cardinality(Held(s, M)) + k
    BY <1>2, HeldGrows
<1>4. ASSUME NEW y \in T \ M
      PROVE  Cardinality(Held(s \o <<x, y>>, M)) = Cardinality(Held(s, M)) + k
    <2> DEFINE z == s \o <<x, y>>
    <2>1. /\ DOMAIN z = 1..(n + 2) /\ z[n + 1] = x /\ z[n + 2] = y
          /\ \A i \in 1..n : z[i] = s[i]
        BY PostedTwo
    <2> HIDE DEF z
    <2>2. /\ DOMAIN z = 1..(Len(p) + 1) /\ z[Len(p) + 1] = y
          /\ \A i \in 1..Len(p) : z[i] = p[i]
        BY <1>1, <1>2, <2>1
    <2>3. Cardinality(Held(z, M)) = Cardinality(Held(p, M)) + (IF y \in M THEN 1 ELSE 0)
        BY <1>2, <2>2, HeldGrows
    <2> HIDE DEF k, n
    <2>4. Cardinality(Held(z, M)) = Cardinality(Held(p, M)) + 0
        BY <1>4, <2>3
    <2> QED
        BY <1>1, <1>3, <2>4 DEF z
<1> QED
    BY <1>3, <1>4 DEF p

\* A call that has returned counts no longer, and no other is lost.
LEMMA HeldAfterTail ==
    ASSUME NEW T, NEW s \in Seq(T), s # <<>>, NEW M
    PROVE  Cardinality(Held(s, M)) = Cardinality(Held(Tail(s), M)) + (IF s[1] \in M THEN 1 ELSE 0)
<1> DEFINE t == Tail(s)
           n == Len(s)
           rest == Held(s, M) \ {1}
           f == [i \in Held(t, M) |-> i + 1]
<1>1. /\ t \in Seq(T) /\ n \in Nat \ {0} /\ DOMAIN t = 1..(n - 1) /\ DOMAIN s = 1..n
      /\ \A i \in 1..(n - 1) : t[i] = s[i + 1]
    BY TailOf
<1>2. /\ IsFiniteSet(Held(s, M)) /\ Cardinality(Held(s, M)) \in Nat
      /\ IsFiniteSet(Held(t, M)) /\ Cardinality(Held(t, M)) \in Nat
    BY <1>1, HeldIsFinite
<1> HIDE DEF t, n
<1>3. \A i : i \in Held(t, M) <=> i \in 1..(n - 1) /\ s[i + 1] \in M
    BY <1>1 DEF Held
<1>4. \A i : i \in rest <=> i \in 2..n /\ s[i] \in M
    BY <1>1 DEF Held
<1>5. f \in Bijection(Held(t, M), rest)
    <2>1. f \in [Held(t, M) -> rest]
        BY <1>1, <1>3, <1>4
    <2>2. \A i, j \in Held(t, M) : f[i] = f[j] => i = j
        BY <1>1, <1>3
    <2>3. \A j \in rest : \E i \in Held(t, M) : f[i] = j
        <3> TAKE j \in rest
        <3>1. j - 1 \in Held(t, M) /\ f[j - 1] = j
            BY <1>1, <1>3, <1>4
        <3> QED
            BY <3>1
    <2> HIDE DEF f, rest
    <2> QED
        BY <2>1, <2>2, <2>3 DEF Bijection, Injection, Surjection, IsInjective
<1>6. Cardinality(rest) = Cardinality(Held(t, M))
    BY <1>2, <1>5, FS_Bijection DEF ExistsBijection
<1>7. Cardinality(rest) = Cardinality(Held(s, M)) - (IF s[1] \in M THEN 1 ELSE 0)
    <2>1. 1 \in Held(s, M) <=> s[1] \in M
        BY <1>1 DEF Held
    <2>2. Cardinality(rest) = IF 1 \in Held(s, M) THEN Cardinality(Held(s, M)) - 1
                                                 ELSE Cardinality(Held(s, M))
        BY <1>2, FS_RemoveElement
    <2> HIDE DEF rest
    <2> QED
        BY <1>2, <2>1, <2>2
<1> QED
    BY <1>2, <1>6, <1>7 DEF t

\* Captures, waiting snapshots and events with a packet of these times.
CallsOf(times) == {c \in DbCalls : c.op = "snapshot" /\ c.pkt.at \in times}
PacketsOf(times) == {p \in Packets : p.at \in times}
EventsOf(events, times) == {e \in events : e.pkt.at \in times}
Balanced(events, calls, taken, times) ==
    Cardinality(EventsOf(events, times)) + Cardinality(Held(calls, CallsOf(times)))
      = Cardinality(Held(taken, PacketsOf(times)))
LEMMA HeldIs ==
    ASSUME NEW q \in Seq(DbCalls), NEW c \in Seq(Packets), NEW times
    PROVE  /\ {i \in DOMAIN q : q[i].op = "snapshot" /\ q[i].pkt.at \in times}
                = Held(q, CallsOf(times))
           /\ {i \in DOMAIN c : c[i].at \in times} = Held(c, PacketsOf(times))
<1>1. /\ \A i \in DOMAIN q : q[i] \in DbCalls
      /\ \A i \in DOMAIN c : c[i] \in Packets
    BY LenProperties
<1> QED
    BY <1>1 DEF Held, CallsOf, PacketsOf

LEMMA CountedIs ==
    ASSUME TypeOK, NEW times
    PROVE  Counted(times) <=> Balanced(Mine, queue["db"], captures, times)
<1> DEFINE q == queue["db"]
<1>1. q \in Seq(DbCalls) /\ captures \in Seq(Packets)
    BY DEF TypeOK
<1> HIDE DEF q
<1>2. /\ {i \in DOMAIN q : q[i].op = "snapshot" /\ q[i].pkt.at \in times}
           = Held(q, CallsOf(times))
      /\ {i \in DOMAIN captures : captures[i].at \in times} = Held(captures, PacketsOf(times))
    BY <1>1, HeldIs
<1> QED
    BY <1>2, Zenon DEF Counted, Balanced, EventsOf, Mine, q

LEMMA CountedNextIs ==
    ASSUME TypeOK', NEW times
    PROVE  Counted(times)' <=> Balanced(Mine', queue'["db"], captures', times)
<1> DEFINE q == queue'["db"]
<1>1. q \in Seq(DbCalls) /\ captures' \in Seq(Packets)
    BY DEF TypeOK
<1> HIDE DEF q
<1>2. /\ {i \in DOMAIN q : q[i].op = "snapshot" /\ q[i].pkt.at \in times}
           = Held(q, CallsOf(times))
      /\ {i \in DOMAIN captures' : captures'[i].at \in times} = Held(captures', PacketsOf(times))
    BY <1>1, HeldIs
<1> QED
    BY <1>2, Zenon DEF Counted, Balanced, EventsOf, Mine, q

\* Each part of the balance is a number.
LEMMA PartsAreNat ==
    ASSUME TypeOK, NEW times
    PROVE  /\ IsFiniteSet(EventsOf(Mine, times))
           /\ Cardinality(EventsOf(Mine, times)) \in Nat
           /\ Cardinality(Held(queue["db"], CallsOf(times))) \in Nat
           /\ Cardinality(Held(captures, PacketsOf(times))) \in Nat
<1>1. queue["db"] \in Seq(DbCalls) /\ captures \in Seq(Packets) /\ IsFiniteSet(disk.events)
    BY DEF TypeOK, FileTypeOK
<1>2. EventsOf(Mine, times) \in SUBSET disk.events
    BY DEF EventsOf, Mine, OfThisRun
<1> QED
    BY <1>1, <1>2, HeldIsFinite, FS_Subset, FS_CardinalityType

\* The window takes a snapshot and posts its call in one: both or neither
\* (main_window.cpp:778-802).
LEMMA BalancedByWindow ==
    ASSUME TypeOK, WindowAction, NEW times,
           Balanced(Mine, queue["db"], captures, times)
    PROVE  Balanced(Mine', queue'["db"], captures', times)
<1> DEFINE q == queue["db"]
           C == CallsOf(times)
           P == PacketsOf(times)
<1>1. Mine' = Mine
    <2>1. disk' = disk
        BY WindowEffects DEF WindowKeepsFile
    <2>2. since' = since
        BY DEF WindowAction, Launch, Initialized, ApplyConfigToUi, Refreshed, QuitThreads,
            Edit, OnStartAll, OnStopAll, OnSaveConfig, OnTelemetry, OnFrame,
            OnCaptureScreenshot, OnRefreshEvents, Close, Input, InputOrFault, countVars
    <2> QED
        BY <2>1, <2>2 DEF Mine, OfThisRun
<1>2. /\ q \in Seq(DbCalls) /\ captures \in Seq(Packets) /\ lastPkt \in Packets
      /\ alertActive \in BOOLEAN /\ "manual" \in Reasons /\ "auto_event" \in Reasons
      /\ Query \in DbCalls
    BY CallsPosted DEF TypeOK, Reasons, Query
<1>3. /\ Cardinality(EventsOf(Mine, times)) \in Nat
      /\ Cardinality(Held(q, C)) \in Nat /\ Cardinality(Held(captures, P)) \in Nat
    BY PartsAreNat
<1>4. ASSUME NEW k \in {0, 1},
             Cardinality(Held(queue'["db"], C)) = Cardinality(Held(q, C)) + k,
             Cardinality(Held(captures', P)) = Cardinality(Held(captures, P)) + k
      PROVE  Balanced(Mine', queue'["db"], captures', times)
    <2> DEFINE e == Cardinality(EventsOf(Mine, times))
               a == Cardinality(Held(q, C))
               b == Cardinality(Held(captures, P))
    <2>1. e + a = b
        BY DEF Balanced
    <2> HIDE DEF e, a, b
    <2>2. e + (a + k) = b + k
        BY <1>3, <1>4, <2>1 DEF e, a, b
    <2> QED
        BY <1>1, <1>4, <2>2 DEF Balanced, e, a, b
<1>5. \A x \in DbCalls : x.op # "snapshot" => x \notin C
    BY DEF CallsOf
<1>6. \A pkt \in Packets : \A reason, target :
          Snapshot(pkt, reason, target) \in DbCalls =>
             (Snapshot(pkt, reason, target) \in C <=> pkt \in P)
    BY DEF CallsOf, PacketsOf, Snapshot
<1> HIDE DEF q, C, P
<1>7. CASE DbKeeps /\ UNCHANGED captures
    <2>1. queue'["db"] = q
        BY <1>7 DEF DbKeeps, q
    <2> QED
        BY <1>3, <1>4, <1>7, <2>1
<1>8. ASSUME NEW x \in DbCalls, x \notin C, UNCHANGED captures,
             \/ DbGets(<<x>>) \/ \E y \in DbCalls \ C : DbGets(<<x, y>>)
      PROVE  Balanced(Mine', queue'["db"], captures', times)
    <2>1. Cardinality(Held(queue'["db"], C)) = Cardinality(Held(q, C)) + 0
        <3>1. CASE DbGets(<<x>>)
            <4>1. queue'["db"] = q \o <<x>>
                BY <3>1 DEF DbGets, q
            <4>2. Cardinality(Held(q \o <<x>>, C)) = Cardinality(Held(q, C)) + 0
                BY <1>2, <1>8, HeldPosted
            <4> QED
                BY <4>1, <4>2
        <3>2. ASSUME NEW y \in DbCalls \ C, DbGets(<<x, y>>)
              PROVE  Cardinality(Held(queue'["db"], C)) = Cardinality(Held(q, C)) + 0
            <4>1. queue'["db"] = q \o <<x, y>>
                BY <3>2 DEF DbGets, q
            <4>2. Cardinality(Held(q \o <<x, y>>, C)) = Cardinality(Held(q, C)) + 0
                BY <1>2, <1>8, HeldPosted
            <4> QED
                BY <4>1, <4>2
        <3> QED
            BY <1>8, <3>1, <3>2
    <2> QED
        BY <1>3, <1>4, <1>8, <2>1
<1>9. ASSUME NEW pkt \in Packets, NEW x \in DbCalls, x \in C <=> pkt \in P,
             captures' = Append(captures, pkt),
             \/ DbGets(<<x>>) \/ \E y \in DbCalls \ C : DbGets(<<x, y>>)
      PROVE  Balanced(Mine', queue'["db"], captures', times)
    <2> DEFINE k == IF x \in C THEN 1 ELSE 0
    <2>1. k \in {0, 1} /\ k = (IF pkt \in P THEN 1 ELSE 0)
        BY <1>9
    <2>2. Cardinality(Held(captures', P)) = Cardinality(Held(captures, P)) + k
        <3>1. PICK c \in Seq(Packets) : c = captures
            BY <1>2
        <3>2. Len(c) \in Nat
            BY LenProperties
        <3>3. PICK c1 : c1 = captures'
            OBVIOUS
        <3>4. c1 = Append(c, pkt)
            BY <1>9, <3>1, <3>3
        <3>5. /\ DOMAIN c1 = 1..(Len(c) + 1) /\ c1[Len(c) + 1] = pkt
              /\ \A i \in 1..Len(c) : c1[i] = c[i]
            BY <3>2, <3>4, AppendProperties
        <3>6. Cardinality(Held(c1, P)) = Cardinality(Held(c, P)) + (IF pkt \in P THEN 1 ELSE 0)
            BY <3>5, HeldGrows
        <3> QED
            BY <2>1, <3>1, <3>3, <3>6, Zenon
    <2>3. Cardinality(Held(queue'["db"], C)) = Cardinality(Held(q, C)) + k
        <3>1. CASE DbGets(<<x>>)
            <4>1. queue'["db"] = q \o <<x>>
                BY <3>1 DEF DbGets, q
            <4>2. Cardinality(Held(q \o <<x>>, C)) = Cardinality(Held(q, C)) + k
                BY <1>2, <1>9, HeldPosted
            <4> QED
                BY <4>1, <4>2
        <3>2. ASSUME NEW y \in DbCalls \ C, DbGets(<<x, y>>)
              PROVE  Cardinality(Held(queue'["db"], C)) = Cardinality(Held(q, C)) + k
            <4>1. queue'["db"] = q \o <<x, y>>
                BY <3>2 DEF DbGets, q
            <4>2. Cardinality(Held(q \o <<x, y>>, C)) = Cardinality(Held(q, C)) + k
                BY <1>2, <1>9, HeldPosted
            <4> QED
                BY <4>1, <4>2
        <3> QED
            BY <1>9, <3>1, <3>2
    <2> HIDE DEF k
    <2> QED
        BY <1>4, <2>1, <2>2, <2>3
<1>10. ASSUME NEW cfg \in Forms, DbGets(<<Save(cfg)>>) \/ DbGets(<<Save(cfg), Query>>),
              UNCHANGED captures
       PROVE  Balanced(Mine', queue'["db"], captures', times)
    <2>1. Save(cfg) \in DbCalls /\ Save(cfg) \notin C /\ Query \notin C
        BY <1>2, <1>5, CallsPosted DEF Save, Query
    <2> QED
        BY <1>2, <1>8, <1>10, <2>1
<1>11. CASE /\ DbGets(<<Snapshot(lastPkt, "manual", alertActive)>>)
            /\ captures' = Append(captures, lastPkt)
    <2>1. Snapshot(lastPkt, "manual", alertActive) \in DbCalls
        BY <1>2, CallsPosted
    <2>2. Snapshot(lastPkt, "manual", alertActive) \in C <=> lastPkt \in P
        BY <1>2, <1>6, <2>1
    <2> QED
        BY <1>2, <1>9, <1>11, <2>1, <2>2
<1>12. ASSUME NEW pkt \in Packets, TelemetryArrives(pkt)
       PROVE  Balanced(Mine', queue'["db"], captures', times)
    <2> DEFINE x == Snapshot(pkt, "auto_event", TRUE)
               y == [op |-> "telemetry", pkt |-> pkt]
    <2>1. x \in DbCalls /\ y \in DbCalls /\ y \notin C
        BY <1>2, <1>5, CallsPosted
    <2>2. x \in C <=> pkt \in P
        BY <1>6, <2>1
    <2> HIDE DEF x, y
    <2>3. CASE captures' = Append(captures, pkt) /\ DbGets(<<x, y>>)
        BY <1>9, <2>1, <2>2, <2>3
    <2>4. CASE UNCHANGED captures /\ DbGets(<<y>>)
        BY <1>8, <2>1, <2>4
    <2> QED
        BY <1>12, <2>3, <2>4 DEF TelemetryArrives, x, y
<1>13. ASSUME NEW x \in DbCalls, DbGets(<<x>>), x.op \in Blocking, UNCHANGED captures
       PROVE  Balanced(Mine', queue'["db"], captures', times)
    <2>1. x \notin C
        BY <1>5, <1>13 DEF Blocking
    <2> QED
        BY <1>8, <1>13, <2>1
<1> QED
    BY <1>7, <1>10, <1>11, <1>12, <1>13, WindowEffects

\* A snapshot leaves the queue with its event, or with a failure; and nothing but
\* migrate() takes an event away (database_service.cpp:173-184, 252-275).
LEMMA EventsByStore ==
    ASSUME TypeOK, RowsBelong, CallsAreAwaited, TablesAreThere, StoreAction,
           Migrated, faults' = 0
    PROVE  \/ disk'.events = disk.events /\ (DbKeeps \/ (DbReturns /\ Call.op # "snapshot"))
           \/ /\ Call.op = "snapshot" /\ DbReturns /\ Inserted
              /\ disk'.events = disk.events \cup
                    {[row |-> row, ts |-> EventTime(Call.pkt), pkt |-> Call.pkt,
                      reason |-> Call.reason, target |-> Call.target]}
<1>1. /\ StoreStep /\ queue["db"] # <<>> /\ disk \in Files /\ (DbKeeps \/ DbReturns)
      /\ CallIsUnderWay
    BY StoreQueue DEF StoreAction, TypeOK, FileTypeOK, RowsBelong
<1>2. faults = 0 /\ ~Fault
    BY <1>1, StoreQueue, BoundsAreNat DEF Fault
<1>3. {"telemetry", "snapshot_events"} \subseteq disk.schema
    BY <1>2, TableNames DEF TablesAreThere
<1>4. CASE EnsureConnection
    BY <1>2, <1>4 DEF EnsureConnection, DbKeeps
<1>5. CASE CreateTables \/ DropEvents \/ CreateEvents
    <2>1. Call.op = "init"
        BY <1>1, <1>5, StatementIs DEF CreateTables, DropEvents, CreateEvents
    <2>2. ~Migrated
        BY <1>1, <2>1, AwaitedCallRuns DEF Migrated, Waiting, Blocking
    <2> QED
        BY <2>2
<1>6. CASE LoadConfig \/ QueryEvents
    BY <1>1, <1>6 DEF LoadConfig, QueryEvents
<1>7. CASE SaveConfigAsync
    <2>1. Call.op = "config"
        BY <1>1, <1>7, StatementIs DEF SaveConfigAsync
    <2>2. disk'.events = disk.events
        BY <1>1, <1>7 DEF SaveConfigAsync, Files
    <2> QED
        BY <1>1, <2>1, <2>2
<1>8. CASE InsertTelemetry
    <2>1. ~Fails("telemetry")
        BY <1>2, <1>3 DEF Fails
    <2>2. disk'.events = disk.events /\ DbKeeps
        BY <1>1, <1>8, <2>1 DEF InsertTelemetry, Files, Continue, DbKeeps
    <2> QED
        BY <2>2
<1>9. CASE InsertObjects
    BY <1>1, <1>9 DEF InsertObjects, InsertDetail, Files, Continue, DbKeeps
<1>10. CASE InsertGps
    <2>1. disk'.events = disk.events
        BY <1>1, <1>10 DEF InsertGps, InsertDetail, Files
    <2>2. DbKeeps \/ Call.op = "telemetry"
        BY <1>10 DEF InsertGps, Continue, DbKeeps
    <2> QED
        BY <1>1, <2>1, <2>2
<1>11. CASE InsertSnapshotEvent
    <2>1. Call.op = "snapshot" /\ Inserted
        BY <1>1, <1>11, StatementIs DEF InsertSnapshotEvent, Inserted
    <2>2. ~Fails("snapshot_events")
        BY <1>2, <1>3 DEF Fails
    <2>3. DbReturns
        BY <1>11 DEF InsertSnapshotEvent, ReturnNothing, Return, Finished, DbReturns,
            TypeOK, ThreadsTypeOK, Threads
    <2> DEFINE new == [row |-> row, ts |-> EventTime(Call.pkt), pkt |-> Call.pkt,
                       reason |-> Call.reason, target |-> Call.target]
    <2>4. disk' = [disk EXCEPT !.events = @ \cup {new}]
        BY <1>11, <2>2 DEF InsertSnapshotEvent
    <2> HIDE DEF new
    <2>5. disk'.events = disk.events \cup {new}
        BY <1>1, <2>4 DEF Files
    <2> QED
        BY <2>1, <2>3, <2>5 DEF new
<1> QED
    BY <1>1, <1>4, <1>5, <1>6, <1>7, <1>8, <1>9, <1>10, <1>11 DEF StoreStep

LEMMA BalancedByStore ==
    ASSUME TypeOK, RowsBelong, CallsAreAwaited, TablesAreThere, RunIsLater, StoreAction,
           Migrated, faults' = 0, NEW times,
           Balanced(Mine, queue["db"], captures, times)
    PROVE  Balanced(Mine', queue'["db"], captures', times)
<1> DEFINE q == queue["db"]
           C == CallsOf(times)
           E == EventsOf(Mine, times)
           new == [row |-> row, ts |-> EventTime(Call.pkt), pkt |-> Call.pkt,
                   reason |-> Call.reason, target |-> Call.target]
<1>1. captures' = captures /\ q # <<>> /\ q \in Seq(DbCalls)
    BY StoreQueue DEF StoreAction, countVars, TypeOK
<1>2. Call = q[1] /\ Call \in DbCalls
    BY <1>1, CallIsFirst, TimesAreNat
<1>3. /\ IsFiniteSet(E) /\ Cardinality(E) \in Nat /\ Cardinality(Held(q, C)) \in Nat
      /\ Cardinality(E) + Cardinality(Held(q, C)) = Cardinality(Held(captures, PacketsOf(times)))
    BY PartsAreNat DEF Balanced
<1>4. Call \in C <=> Call.op = "snapshot" /\ Call.pkt.at \in times
    BY <1>2 DEF CallsOf
<1>5. Cardinality(Held(q, C)) = Cardinality(Held(Tail(q), C)) + (IF Call \in C THEN 1 ELSE 0)
    BY <1>1, <1>2, HeldAfterTail
<1>6. Cardinality(Held(Tail(q), C)) \in Nat
    <2>1. Tail(q) \in Seq(DbCalls)
        BY <1>1, TailOf
    <2> HIDE DEF q, C
    <2> QED
        BY <2>1, HeldIsFinite
<1> HIDE DEF q, C
<1>7. CASE Mine' = Mine /\ DbKeeps
    BY <1>1, <1>7 DEF DbKeeps
<1>8. CASE Mine' = Mine /\ DbReturns /\ Call.op # "snapshot"
    <2>1. Cardinality(Held(Tail(q), C)) = Cardinality(Held(q, C))
        BY <1>4, <1>5, <1>6, <1>8
    <2> QED
        BY <1>1, <1>3, <1>8, <2>1 DEF DbReturns, Balanced, q, C
<1>9. CASE Call.op = "snapshot" /\ DbReturns /\ Inserted /\ Mine' = Mine \cup {new}
    <2>1. new.row = row /\ new.pkt = Call.pkt
        OBVIOUS
    <2>2. new \notin Mine
        <3>1. \A e \in Mine : e.row < row /\ e.row \in Nat
            BY <1>9, TimesAreNat DEF RowsBelong, CallIsUnderWay, Mine, OfThisRun
        <3>2. row \in Nat
            BY DEF TypeOK, FileTypeOK
        <3> HIDE DEF new
        <3> QED
            BY <2>1, <3>1, <3>2
    <2> HIDE DEF new, E
    <2>3. CASE Call.pkt.at \in times
        <3>1. EventsOf(Mine', times) = E \cup {new} /\ new \notin E
            BY <1>9, <2>1, <2>2, <2>3 DEF EventsOf, E
        <3>2. Cardinality(E \cup {new}) = Cardinality(E) + 1
            BY <1>3, <3>1, FS_AddElement
        <3>3. Cardinality(Held(q, C)) = Cardinality(Held(Tail(q), C)) + 1
            BY <1>4, <1>5, <1>9, <2>3
        <3>4. Cardinality(E \cup {new}) + Cardinality(Held(Tail(q), C))
                = Cardinality(Held(captures, PacketsOf(times)))
            BY <1>3, <1>6, <3>2, <3>3
        <3> QED
            BY <1>1, <1>9, <3>1, <3>4 DEF DbReturns, Balanced, q, C
    <2>4. CASE Call.pkt.at \notin times
        <3>1. EventsOf(Mine', times) = E
            BY <1>9, <2>1, <2>4 DEF EventsOf, E
        <3>2. Cardinality(Held(Tail(q), C)) = Cardinality(Held(q, C))
            BY <1>4, <1>5, <1>6, <2>4
        <3> QED
            BY <1>1, <1>3, <1>9, <3>1, <3>2 DEF DbReturns, Balanced, q, C
    <2> QED
        BY <2>3, <2>4
<1>10. since' = since
    BY DEF StoreAction, countVars
<1>11. disk'.events = disk.events => Mine' = Mine
    BY <1>10 DEF Mine, OfThisRun
<1>12. Call.op = "snapshot" /\ disk'.events = disk.events \cup {new} => Mine' = Mine \cup {new}
    <2> SUFFICES ASSUME Call.op = "snapshot", disk'.events = disk.events \cup {new}
                 PROVE  Mine' = Mine \cup {new}
        OBVIOUS
    <2>1. inputs > since /\ (Call.pkt.at = 0 \/ Call.pkt.at > since) /\ Call.pkt.at \in Nat
        <3>1. 1 \in DOMAIN queue["db"] /\ queue["db"][1].op = "snapshot"
              /\ Call = queue["db"][1]
            BY <1>1, CallIsFirst DEF q
        <3> QED
            BY <3>1, TimesAreNat DEF RunIsLater, HasPacket
    <2>2. new.ts > since
        BY <2>1 DEF EventTime
    <2> HIDE DEF new
    <2> QED
        BY <1>10, <2>2 DEF Mine, OfThisRun
<1> QED
    BY <1>7, <1>8, <1>9, <1>11, <1>12, EventsByStore DEF new

\* When initialize() has answered without a failure there is nothing to count yet.
LEMMA BalancedAtFirst ==
    ASSUME TypeOK, RowsBelong, CallsAreAwaited, TablesAreThere, RunIsLater,
           PacketsArrived, StoreAction, ~Migrated, Migrated', faults' = 0
    PROVE  Mine' = {} /\ queue'["db"] = <<>> /\ captures' = <<>>
<1>1. /\ StoreStep /\ queue["db"] # <<>> /\ disk \in Files /\ UNCHANGED <<life, captures>>
      /\ CallIsUnderWay /\ queue["db"] \in Seq(DbCalls) /\ (DbKeeps \/ DbReturns)
    BY StoreQueue DEF StoreAction, windowVars, countVars, TypeOK, FileTypeOK, RowsBelong
<1>2. faults = 0 /\ ~Fault
    BY <1>1, StoreQueue, BoundsAreNat DEF Fault
<1>3. life = "init" /\ reply = NoReply /\ reply' # NoReply
    BY <1>1 DEF Migrated, CallsAreAwaited, Idle, Threads
<1>4. Call.op = "init" /\ Len(queue["db"]) = 1 /\ captures = <<>>
    <2>1. 1 \in DOMAIN queue["db"] /\ Call = queue["db"][1]
        BY <1>1, CallIsFirst
    <2>2. Call.op \in Blocking
        BY <1>3, <2>1 DEF CallsAreAwaited
    <2>3. captures = <<>>
        BY <1>3 DEF CallsAreAwaited
    <2> QED
        BY <1>1, <1>3, <2>2, <2>3, AwaitedCallRuns
<1>5. ~(EnsureConnection \/ CreateTables \/ DropEvents)
    BY <1>2, <1>3 DEF EnsureConnection, CreateTables, DropEvents, Continue
<1>6. CreateEvents
    BY <1>1, <1>4, <1>5, StatementIs
    DEF StoreStep, LoadConfig, QueryEvents, SaveConfigAsync, InsertTelemetry, InsertObjects,
        InsertGps, InsertSnapshotEvent, HasPacket
<1>7. since' = since /\ disk'.events = disk.events
    BY <1>1, <1>6 DEF StoreAction, countVars, CreateEvents, Files
<1>8. Mine' = {}
    <2>1. \A e \in disk.events : e.ts <= since /\ e.ts \in Nat
        BY <1>3, TimesAreNat DEF PacketsArrived, RunIsLater
    <2>2. since \in Nat
        BY TimesAreNat DEF RunIsLater
    <2> QED
        BY <1>7, <2>1, <2>2 DEF Mine, OfThisRun
<1>9. queue'["db"] = <<>>
    <2>1. DbReturns
        BY <1>6 DEF CreateEvents, Answer, Return, Finished, DbReturns, TypeOK, ThreadsTypeOK, Threads
    <2>2. Tail(queue["db"]) = <<>>
        BY <1>1, <1>4, TailOf
    <2> QED
        BY <2>1, <2>2 DEF DbReturns
<1> QED
    BY <1>1, <1>4, <1>8, <1>9

LEMMA NothingIsBalanced ==
    ASSUME NEW times
    PROVE  Balanced({}, <<>>, <<>>, times)
<1>1. EventsOf({}, times) = {}
    BY DEF EventsOf
<1>2. /\ Held(<<>>, CallsOf(times)) = {} /\ Held(<<>>, PacketsOf(times)) = {}
    BY DEF Held
<1>3. Cardinality({}) = 0
    BY FS_EmptySet
<1>4. 0 + 0 = 0
    OBVIOUS
<1> QED
    BY <1>1, <1>2, <1>3, <1>4, Zenon DEF Balanced

LEMMA BalancedStep ==
    ASSUME TypeOK, RowsBelong, CallsAreAwaited, TablesAreThere, RunIsLater, PacketsArrived,
           SessionsAreApart, Next, Migrated', faults' = 0, NEW times,
           Migrated /\ faults = 0 => Balanced(Mine, queue["db"], captures, times)
    PROVE  Balanced(Mine', queue'["db"], captures', times)
<1>1. CASE WindowAction
    <2>1. Migrated /\ faults = 0
        BY <1>1, WindowEffects, MigratedStays, BoundsAreNat DEF Fault
    <2> QED
        BY <1>1, <2>1, BalancedByWindow
<1>2. CASE StoreAction
    <2>1. faults = 0
        BY <1>2, StoreQueue, BoundsAreNat DEF StoreAction, Fault
    <2>2. CASE Migrated
        BY <1>2, <2>1, <2>2, BalancedByStore
    <2>3. CASE ~Migrated
        BY <1>2, <2>3, BalancedAtFirst, NothingIsBalanced
    <2> QED
        BY <2>2, <2>3
<1>3. CASE RecordAction \/ ThreadEnd
    <2>1. faults = 0
        BY <1>3, RecordQueue, BoundsAreNat DEF RecordAction, ThreadEnd, Fault, SessionsAreApart
    <2>2. DbKeeps /\ UNCHANGED <<disk, since, reply, life, captures>>
        BY <1>3, RecordQueue
        DEF RecordAction, ThreadEnd, ThreadEnds, DbKeeps, SessionsAreApart, storeVars,
            windowVars, countVars
    <2> QED
        BY <2>1, <2>2 DEF Migrated, DbKeeps, Mine, OfThisRun
<1>4. CASE Off
    BY <1>4 DEF Off, Migrated
<1> QED
    BY <1>1, <1>2, <1>3, <1>4, Steps

\* The page gets the rows of the range it has (database_service.cpp:296-337).
RowsShown == life = "refresh" /\ reply # NoReply /\ faults = 0 =>
    reply.rows \in Newest({e \in disk.events : e.ts <= eventTo})
LEMMA ShownStep ==
    ASSUME TypeOK, RowsShown, RowsBelong, CallsAreAwaited, SessionsAreApart, Next
    PROVE  RowsShown'
<1>1. CASE WindowAction
    <2>1. CASE \/ Launch \/ Initialized \/ ApplyConfigToUi \/ Refreshed \/ QuitThreads \/ Close
        BY <2>1 DEF Launch, Initialized, ApplyConfigToUi, Refreshed, QuitThreads, Close, RowsShown
    <2>2. CASE \/ Edit \/ OnStartAll \/ OnStopAll \/ OnSaveConfig \/ OnTelemetry \/ OnFrame
               \/ OnCaptureScreenshot \/ OnRefreshEvents
        <3>1. life = "running" /\ reply' = reply
            BY <2>2 DEF Edit, OnStartAll, OnStopAll, OnSaveConfig, OnTelemetry, OnFrame,
                OnCaptureScreenshot, OnRefreshEvents, Input, InputOrFault, storeVars
        <3>2. reply' = NoReply
            BY <3>1 DEF CallsAreAwaited
        <3> QED
            BY <3>2 DEF RowsShown, NoReply
    <2> QED
        BY <1>1, <2>1, <2>2 DEF WindowAction
<1>2. CASE StoreAction
    <2> SUFFICES ASSUME life = "refresh", reply' # NoReply, faults' = 0
                 PROVE  reply'.rows \in Newest({e \in disk'.events : e.ts <= eventTo})
        BY <1>2 DEF RowsShown, NoReply, StoreAction, windowVars
    <2>1. /\ StoreStep /\ queue["db"] # <<>> /\ CallIsUnderWay /\ ~Fault
        BY <1>2, StoreQueue, BoundsAreNat DEF StoreAction, RowsBelong, Fault
    <2>2. reply = NoReply
        BY <2>1 DEF CallsAreAwaited
    <2>3. reply' # reply /\ Call.op \in Blocking
        BY <2>1, <2>2, StoreReturns
    <2>4. Call.op = "events" /\ Call.to = eventTo
        BY <2>1, <2>3, AwaitedCallRuns
    <2>5. QueryEvents
        <3>1. ~(EnsureConnection)
            BY <2>1, <2>3 DEF EnsureConnection
        <3> QED
            BY <2>1, <2>4, <3>1, StatementIs
            DEF StoreStep, CreateTables, DropEvents, CreateEvents, LoadConfig, SaveConfigAsync,
                InsertTelemetry, InsertObjects, InsertGps, InsertSnapshotEvent, HasPacket
    <2>6. /\ \E shown \in Newest({e \in disk.events : e.ts <= Call.to}) :
                reply' = [of |-> "events", rows |-> shown]
          /\ disk' = disk
        BY <2>1, <2>5 DEF QueryEvents, Answer
    <2> QED
        BY <2>4, <2>6
<1>3. CASE RecordAction \/ ThreadEnd
    <2>1. faults' = 0 => faults = 0
        BY <1>3, RecordQueue, BoundsAreNat DEF RecordAction, ThreadEnd, Fault, SessionsAreApart
    <2>2. UNCHANGED <<disk, reply, life, eventTo>>
        BY <1>3 DEF RecordAction, ThreadEnd, storeVars, windowVars
    <2> QED
        BY <2>1, <2>2 DEF RowsShown, NoReply
<1>4. CASE Off
    BY <1>4 DEF Off, RowsShown
<1> QED
    BY <1>1, <1>2, <1>3, <1>4, Steps

LEMMA PlanStays == TypeOK /\ Next => plan' = plan
<1> SUFFICES ASSUME TypeOK, Next PROVE plan' = plan
    OBVIOUS
<1>1. WindowAction => plan' = plan
    BY WindowEffects DEF WindowKeepsFile
<1> QED
    BY <1>1, Steps DEF StoreAction, RecordAction, ThreadEnd, Off

LEMMA CountStep ==
    ASSUME TypeOK, TypeOK', RowsBelong, CallsAreAwaited, TablesAreThere, RunIsLater,
           PacketsArrived, SessionsAreApart, CapturesAreCounted, Next
    PROVE  CapturesAreCounted'
<1>1. ASSUME NEW times, Migrated /\ faults = 0 => Counted(times), Migrated', faults' = 0
      PROVE  Counted(times)'
    <2>1. Migrated /\ faults = 0 => Balanced(Mine, queue["db"], captures, times)
        BY <1>1, CountedIs
    <2>2. Balanced(Mine', queue'["db"], captures', times)
        BY <1>1, <2>1, BalancedStep
    <2> QED
        BY <2>2, CountedNextIs
<1>2. Migrated' /\ faults' = 0 => Counted(Nat)'
    BY <1>1 DEF CapturesAreCounted
<1>3. Migrated' /\ faults' = 0 =>
          \A to \in 0..(plan.inputs + plan.minute) : Counted(1..to)'
    BY <1>1 DEF CapturesAreCounted
<1>4. RowsShown'
    BY ShownStep DEF CapturesAreCounted, RowsShown
<1> QED
    BY <1>2, <1>3, <1>4, PlanStays DEF CapturesAreCounted, RowsShown

-----------------------------------------------------------------------------
\* The program begins with an empty database file and no recordings.
LEMMA StartTypes == Init => TypeOK
<1> SUFFICES ASSUME Init PROVE TypeOK
    OBVIOUS
<1>1. plan \in Plans /\ plan.inputs \in Nat /\ plan.minute \in Nat /\ plan.faults \in Nat
    BY StorageAssumption DEF StorageAssumption, Init
<1>2. ThreadsTypeOK
    <2>1. faults \in 0..plan.faults
        BY <1>1 DEF Init
    <2>2. loop \in [Threads -> {"idle", "drain", "off"}] /\ DOMAIN queue = Threads
        BY DEF Init, AllAt, Idle
    <2> QED
        BY <2>1, <2>2 DEF Init, ThreadsTypeOK
<1>3. queue["db"] \in Seq(DbCalls) /\ queue["rec"] \in Seq(RecCalls)
    BY EmptySeq DEF Init, Idle, Threads
<1>4. FileTypeOK
    <2>1. disk \in Files
        BY EmptySeq DEF Init, StoreInit, Files, EmptyFile
    <2>2. IsFiniteSet(disk.events)
        BY FS_EmptySet DEF Init, StoreInit, EmptyFile
    <2> QED
        BY <2>1, <2>2 DEF Init, StoreInit, FileTypeOK, Replies, NoReply
<1>5. RecorderTypeOK
    <2>1. Len(frameDirs) = 0 /\ Len(videos) = 0
        BY EmptySeq DEF Init, RecordInit
    <2>2. frameDirs \in Seq(SUBSET Nat) /\ meta \in Seq(Nat)
          /\ videos \in Seq([dir : 1..Len(frameDirs), frames : SUBSET Nat])
        <3>1. frameDirs = <<>> /\ meta = <<>> /\ videos = <<>>
            BY DEF Init, RecordInit
        <3> QED
            BY <3>1, EmptySeq, Zenon
    <2>3. 0 \in 0..Len(frameDirs) /\ 0 \in 0..(Len(videos) + 1)
        BY <2>1
    <2>4. rec \in [running : BOOLEAN, count : Nat, seq : Nat, dir : 0..Len(frameDirs),
                   video : 0..(Len(videos) + 1)]
        BY <2>3 DEF Init, RecordInit, Stopped
    <2> QED
        BY <2>2, <2>4 DEF Init, RecordInit, RecorderTypeOK
<1>6. WindowTypes
    <2>1. life = "off" /\ config \in Forms /\ ui \in Forms
        BY DefaultFits DEF Init
    <2>2. lastPkt \in Packets /\ alertActive \in BOOLEAN /\ hasFrame \in BOOLEAN /\ captured \in BOOLEAN
        BY DEF Init, NoPacket, Packets
    <2>3. inputs \in 0..plan.inputs /\ eventTo \in 0..(plan.inputs + plan.minute) /\ runs \in Nat
        BY <1>1 DEF Init
    <2>4. asked \in Seq(Thresholds) /\ captures \in Seq(Packets)
        <3>1. asked = <<>> /\ captures = <<>>
            BY DEF Init
        <3> QED
            BY <3>1, EmptySeq, Zenon
    <2> QED
        BY <2>1, <2>2, <2>3, <2>4 DEF WindowTypes
<1> QED
    BY <1>1, <1>2, <1>3, <1>4, <1>5, <1>6 DEF TypeOK, WindowTypes

LEMMA Start == Init => IInv
<1> SUFFICES ASSUME Init PROVE IInv
    OBVIOUS
<1>1. TypeOK
    BY StartTypes
<1>2. /\ queue["db"] = <<>> /\ queue = Idle /\ life = "off" /\ reply = NoReply /\ stmt = "idle"
      /\ captures = <<>> /\ asked = <<>> /\ disk = EmptyFile /\ lastPkt = NoPacket
      /\ alertActive = FALSE /\ inputs = 0
    BY DEF Init, StoreInit, Idle, Threads
<1>3. CallsAreAwaited
    BY <1>2 DEF CallsAreAwaited, Waiting
<1>4. CallIsUnderWay
    BY <1>2 DEF CallIsUnderWay, Inserted
<1>5. NoDanglingReference /\ TargetsMeetTheRule /\ RowsInArrivalOrder
    BY <1>2 DEF NoDanglingReference, TargetsMeetTheRule, RowsInArrivalOrder, EmptyFile
<1>6. PacketsArrived
    BY <1>2 DEF PacketsArrived, PacketOK, EmptyFile, NoPacket
<1>7. ArrivalsInOrder
    BY <1>2, <1>5 DEF ArrivalsInOrder, EmptyFile
<1>8. AlertsMeetTheRule
    BY <1>2 DEF AlertsMeetTheRule, OnTarget, NoPacket
<1>9. SavesInOrder /\ LastSaveWins
    <2>1. disk.config.no = 0 /\ Len(asked) = 0
        BY <1>2, EmptySeq DEF EmptyFile, NoRow
    <2> QED
        BY <1>2, <2>1 DEF SavesInOrder, LastSaveWins
<1>10. TablesAreThere /\ CapturesAreCounted /\ RunIsLater
    <2>1. since = 0
        BY DEF Init
    <2> QED
        BY <1>2, <2>1 DEF TablesAreThere, CapturesAreCounted, Migrated, RunIsLater, NoPacket
<1>11. SessionsAreApart
    BY DEF Init, RecordInit, SessionsAreApart, VideoIsOneSession, Stopped
<1> QED
    BY <1>1, <1>3, <1>4, <1>5, <1>6, <1>7, <1>8, <1>9, <1>10, <1>11 DEF IInv

LEMMA Step == IInv /\ Next => IInv'
<1> SUFFICES ASSUME IInv, Next PROVE IInv'
    OBVIOUS
<1>1. /\ TypeOK /\ CallsAreAwaited /\ CallIsUnderWay /\ NoDanglingReference
      /\ PacketsArrived /\ ArrivalsInOrder /\ AlertsMeetTheRule /\ TargetsMeetTheRule
      /\ SavesInOrder /\ LastSaveWins /\ TablesAreThere /\ RunIsLater /\ CapturesAreCounted
      /\ SessionsAreApart
    BY DEF IInv
<1>2. RowsBelong /\ PacketsInOrder /\ AlertsKept /\ SavesKept
    BY <1>1 DEF RowsBelong, PacketsInOrder, AlertsKept, SavesKept
<1>3. TypeOK'
    BY TypeStep
<1>4. CallsAreAwaited'
    BY <1>1, AwaitedStep
<1>5. RowsBelong'
    BY <1>1, <1>2, RowsStep
<1>6. PacketsInOrder'
    BY <1>1, <1>2, PacketsStep
<1>7. AlertsKept'
    BY <1>1, <1>2, AlertsStep
<1>8. SavesKept'
    BY <1>1, <1>2, SavesStep
<1>9. TablesAreThere'
    BY <1>1, TablesStep
<1>10. CapturesAreCounted'
    BY <1>1, <1>2, <1>3, CountStep
<1>11. SessionsAreApart'
    BY <1>1, SessionsStep
<1>12. RunIsLater'
    BY <1>1, LaterStep
<1> QED
    BY <1>3, <1>4, <1>5, <1>6, <1>7, <1>8, <1>9, <1>10, <1>11, <1>12
    DEF IInv, RowsBelong, PacketsInOrder, AlertsKept, SavesKept

LEMMA Stutter == IInv /\ UNCHANGED vars => IInv'
<1> SUFFICES ASSUME IInv, UNCHANGED vars PROVE IInv'
    OBVIOUS
<1> USE DEF vars, threadVars, storeVars, recordVars, windowVars, countVars
<1>1. TypeOK'
    BY DEF IInv, TypeOK, ThreadsTypeOK, FileTypeOK, RecorderTypeOK
<1>2. CallsAreAwaited' /\ CallIsUnderWay'
    BY DEF IInv, CallsAreAwaited, CallIsUnderWay, Waiting, AwaitedCall, Query, Call, Inserted
<1>3. NoDanglingReference' /\ TargetsMeetTheRule'
    BY DEF IInv, NoDanglingReference, TargetsMeetTheRule
<1>4. PacketsArrived' /\ ArrivalsInOrder'
    BY DEF IInv, PacketsArrived, PacketOK, ArrivalsInOrder, RowsInArrivalOrder
<1>5. AlertsMeetTheRule' /\ SavesInOrder' /\ LastSaveWins'
    BY DEF IInv, AlertsMeetTheRule, SavesInOrder, LastSaveWins
<1>6. TablesAreThere'
    BY DEF IInv, TablesAreThere, Migrated
<1>7. CapturesAreCounted' /\ RunIsLater'
    BY DEF IInv, CapturesAreCounted, Migrated, Counted, OfThisRun, RunIsLater
<1>8. SessionsAreApart'
    BY DEF IInv, SessionsAreApart, VideoIsOneSession, Request
<1> QED
    BY <1>1, <1>2, <1>3, <1>4, <1>5, <1>6, <1>7, <1>8 DEF IInv

-----------------------------------------------------------------------------
\* The whole of IInv holds whatever the user does, whichever statements and files fail and
\* wherever the program ends and is started again: the calls of a run of the client wait in
\* order for their thread (main_window.cpp:564-611, database_service.cpp:115-337,
\* record_worker.cpp:16-130).
THEOREM Invariant == Spec => []IInv
<1>1. Init => IInv
    BY Start
<1>2. IInv /\ [Next]_vars => IInv'
    BY Step, Stutter
<1> QED
    BY <1>1, <1>2, PTL DEF Spec

\* Every event has the row of telemetry its packet was stored in, and every detail has its
\* row (insertSnapshotEventAsync after persistTelemetryPacket, database_service.cpp:252-275).
THEOREM NoDangling == Spec => []NoDanglingReference
<1>1. IInv => NoDanglingReference
    BY DEF IInv
<1> QED
    BY <1>1, Invariant, PTL

\* An event's mark as a target is that of its packet by the threshold in force when it
\* arrived (evaluatePersonRodAlert, main_window.cpp:1040-1058).
THEOREM Targets == Spec => []TargetsMeetTheRule
<1>1. IInv => TargetsMeetTheRule
    BY DEF IInv
<1> QED
    BY <1>1, Invariant, PTL

\* The rows of telemetry are in the order in which the packets arrived
\* (insertTelemetryAsync, database_service.cpp:246-249).
THEOREM Order == Spec => []RowsInArrivalOrder
<1>1. IInv => RowsInArrivalOrder
    BY DEF IInv, ArrivalsInOrder
<1> QED
    BY <1>1, Invariant, PTL

\* The row of the configuration is that of the last save unless that save still waits or
\* something failed (saveConfigAsync, database_service.cpp:226-244).
THEOREM LastSave == Spec => []LastSaveWins
<1>1. IInv => LastSaveWins
    BY DEF IInv
<1> QED
    BY <1>1, Invariant, PTL

\* Videos of different recordings are different files and hold the pictures of their own
\* session (RecordWorker::start and stop, record_worker.cpp:16-73).
THEOREM Videos == Spec => []VideoIsOneSession
<1>1. IInv => VideoIsOneSession
    BY DEF IInv, SessionsAreApart
<1> QED
    BY <1>1, Invariant, PTL

\* A video that is there is never written with the pictures of another session
\* (RecordWorker::start gives a name that no file has, record_worker.cpp:33-48).
THEOREM VideosKeep == Spec => VideosKeepTheirSession
<1>1. IInv /\ [Next]_vars =>
          [\A n \in DOMAIN videos :
              n \in DOMAIN videos' /\ videos'[n].dir = videos[n].dir]_vars
    BY SessionsStep DEF IInv
<1> QED
    BY <1>1, Invariant, PTL DEF Spec, VideosKeepTheirSession

\* What a refresh of the events page shows: with an answer no call waits, so every capture
\* is in the table, and the range decides which of them are shown (onRefreshEvents,
\* main_window.cpp:806-830; queryEvents, database_service.cpp:296-337).
LEMMA RefreshIsExact == IInv => RefreshShowsCaptures
<1> DEFINE shown == OfThisRun(reply.rows)
<1> SUFFICES ASSUME IInv, life = "refresh", reply # NoReply, faults = 0
             PROVE  /\ Len(captures) <= RowLimit =>
                          /\ Cardinality({e \in shown : e.pkt # NoPacket})
                              = Cardinality({i \in DOMAIN captures : captures[i].at \in 1..eventTo})
                          /\ inputs <= eventTo => Cardinality(shown) = Len(captures)
                    /\ Len(captures) > RowLimit /\ inputs <= eventTo =>
                          /\ Cardinality(shown) = RowLimit
                          /\ \A e \in Mine \ shown, f \in shown : e.ts <= f.ts
    BY DEF RefreshShowsCaptures, Mine
<1> DEFINE waits(times) == {i \in DOMAIN queue["db"] :
                              queue["db"][i].op = "snapshot" /\ queue["db"][i].pkt.at \in times}
           inRange == {e \in disk.events : e.ts <= eventTo}
<1>1. /\ TypeOK /\ PacketsArrived /\ queue["db"] = <<>> /\ Migrated
      /\ reply.rows \in Newest(inRange)
    BY DEF IInv, CallsAreAwaited, Migrated, CapturesAreCounted
<1>2. \A e \in disk.events : /\ e.ts \in Nat /\ e.pkt.at \in Nat /\ e.ts <= inputs
                             /\ e.pkt.at = 0 => e.pkt = NoPacket
                             /\ e.pkt.at > 0 => e.ts = e.pkt.at
    BY <1>1, TimesAreNat DEF PacketsArrived
<1>3. /\ eventTo \in 0..(plan.inputs + plan.minute) /\ eventTo \in Nat /\ inputs \in Nat
      /\ captures \in Seq(Packets) /\ since \in Nat
    BY <1>1, BoundsAreNat DEF TypeOK, IInv, RunIsLater
<1>4. Counted(Nat) /\ Counted(1..eventTo)
    BY <1>1, <1>3 DEF IInv, CapturesAreCounted
<1>5. \A times : waits(times) = {}
    BY <1>1
<1>6. ASSUME NEW times, Counted(times)
      PROVE  Cardinality({e \in Mine : e.pkt.at \in times})
               = Cardinality({i \in DOMAIN captures : captures[i].at \in times})
    <2> DEFINE a == Cardinality({e \in Mine : e.pkt.at \in times})
               b == Cardinality({i \in DOMAIN captures : captures[i].at \in times})
    <2>1. a + Cardinality(waits(times)) = b
        BY <1>6 DEF Counted, Mine
    <2>2. a + Cardinality({}) = b
        BY <1>5, <2>1, Zenon
    <2>3. a \in Nat /\ Cardinality({}) = 0
        BY <1>1, PartsAreNat, FS_EmptySet DEF EventsOf
    <2> HIDE DEF a, b
    <2> QED
        BY <2>2, <2>3 DEF a, b
<1>7. PICK n \in Nat : n = Len(captures)
    BY <1>3, LenProperties
<1>8. Mine \subseteq disk.events /\ \A e \in disk.events : e \in Mine <=> e.ts > since
    BY DEF Mine, OfThisRun
<1>9. Cardinality(Mine) = n
    <2>1. {e \in Mine : e.pkt.at \in Nat} = Mine
        BY <1>2, <1>8
    <2>2. {i \in DOMAIN captures : captures[i].at \in Nat} = 1..n
        BY <1>1, <1>3, <1>7, TimesAreNat, LenProperties
    <2>3. Cardinality(1..n) = n
        <3>1. Cardinality(1..n) = IF 1 > n THEN 0 ELSE n - 1 + 1
            BY FS_Interval
        <3> QED
            BY <3>1
    <2>4. Cardinality({e \in Mine : e.pkt.at \in Nat})
            = Cardinality({i \in DOMAIN captures : captures[i].at \in Nat})
        BY <1>4, <1>6
    <2> QED
        BY <2>1, <2>2, <2>3, <2>4, Zenon
<1>10. /\ IsFiniteSet(inRange) /\ Cardinality(inRange) \in Nat /\ IsFiniteSet(Mine)
       /\ inRange \subseteq disk.events /\ (inputs <= eventTo => inRange = disk.events)
       /\ \A e \in disk.events : e \in inRange <=> e.ts <= eventTo
    <2>1. IsFiniteSet(disk.events) /\ inRange \in SUBSET disk.events
        BY <1>1 DEF TypeOK, FileTypeOK
    <2>2. inputs <= eventTo => inRange = disk.events
        BY <1>2, <1>3
    <2>3. \A e \in disk.events : e \in inRange <=> e.ts <= eventTo
        OBVIOUS
    <2> HIDE DEF inRange
    <2> QED
        BY <1>8, <2>1, <2>2, <2>3, FS_Subset, FS_CardinalityType
<1> HIDE DEF inRange, shown
<1>11. /\ reply.rows \in SUBSET inRange
       /\ Cardinality(reply.rows) = IF Cardinality(inRange) <= RowLimit THEN Cardinality(inRange)
                                                                       ELSE RowLimit
       /\ \A e \in reply.rows, f \in inRange \ reply.rows : f.ts <= e.ts
    BY <1>1 DEF Newest
<1>12. RowLimit \in Nat
    BY StoreAssumption DEF StoreAssumption
<1>13. shown \subseteq reply.rows /\ \A e \in reply.rows : e \in shown <=> e \in Mine
    BY <1>8, <1>10, <1>11 DEF shown, OfThisRun
\* What is older than an event of this run is behind it.
<1>14. ASSUME NEW f \in Mine \cap inRange, f \notin reply.rows
       PROVE  Cardinality(reply.rows) = RowLimit /\ reply.rows \subseteq Mine \ {f}
    <2>1. \A e \in reply.rows : e \in disk.events /\ f.ts <= e.ts /\ e.ts \in Nat
        BY <1>2, <1>10, <1>11, <1>14
    <2>2. f.ts > since /\ f.ts \in Nat
        BY <1>2, <1>8, <1>14
    <2>3. reply.rows \subseteq Mine \ {f}
        <3> SUFFICES ASSUME NEW e \in reply.rows PROVE e \in Mine /\ e # f
            OBVIOUS
        <3>1. e.ts > since
            BY <1>3, <2>1, <2>2
        <3> QED
            BY <1>8, <1>14, <2>1, <3>1
    <2>4. Cardinality(inRange) > RowLimit
        <3> SUFFICES ASSUME Cardinality(inRange) <= RowLimit PROVE FALSE
            BY <1>10, <1>12
        <3>1. Cardinality(reply.rows) = Cardinality(inRange)
            BY <1>11
        <3>2. reply.rows = inRange
            BY <1>10, <1>11, <3>1, FS_Subset
        <3> QED
            BY <1>14, <3>2
    <2> QED
        BY <1>10, <1>11, <1>12, <2>3, <2>4
<1>15. ASSUME n <= RowLimit
       PROVE  /\ Cardinality({e \in shown : e.pkt # NoPacket})
                   = Cardinality({i \in DOMAIN captures : captures[i].at \in 1..eventTo})
              /\ inputs <= eventTo => Cardinality(shown) = n
    <2>1. Mine \cap inRange \subseteq reply.rows
        <3> SUFFICES ASSUME NEW f \in Mine \cap inRange, f \notin reply.rows PROVE FALSE
            OBVIOUS
        <3>1. Cardinality(reply.rows) = RowLimit /\ reply.rows \subseteq Mine \ {f}
            BY <1>14
        <3>2. Cardinality(Mine \ {f}) = n - 1 /\ IsFiniteSet(Mine \ {f})
            BY <1>9, <1>10, FS_RemoveElement
        <3>3. Cardinality(reply.rows) <= Cardinality(Mine \ {f})
            BY <3>1, <3>2, FS_Subset
        <3> QED
            BY <1>7, <1>12, <1>15, <3>1, <3>2, <3>3
    <2>2. shown = Mine \cap inRange
        BY <1>11, <1>13, <2>1
    <2>3. {e \in shown : e.pkt # NoPacket} = {e \in Mine : e.pkt.at \in 1..eventTo}
        <3>1. ASSUME NEW e \in disk.events
              PROVE  e.ts <= eventTo /\ e.pkt # NoPacket <=> e.pkt.at \in 1..eventTo
            BY <1>2, <1>3 DEF NoPacket
        <3> QED
            BY <1>8, <1>10, <2>2, <3>1
    <2>4. Cardinality({e \in Mine : e.pkt.at \in 1..eventTo})
            = Cardinality({i \in DOMAIN captures : captures[i].at \in 1..eventTo})
        BY <1>4, <1>6
    <2>5. inputs <= eventTo => shown = Mine
        BY <1>8, <1>10, <2>2
    <2> QED
        BY <1>9, <2>3, <2>4, <2>5
<1>16. ASSUME n > RowLimit, inputs <= eventTo
       PROVE  /\ Cardinality(shown) = RowLimit
              /\ \A e \in Mine \ shown, f \in shown : e.ts <= f.ts
    <2>1. PICK g \in Mine : g \notin reply.rows
        <3> SUFFICES ASSUME Mine \subseteq reply.rows PROVE FALSE
            OBVIOUS
        <3>1. IsFiniteSet(reply.rows) /\ Cardinality(reply.rows) <= RowLimit
              /\ Cardinality(reply.rows) \in Nat
            BY <1>10, <1>11, <1>12, FS_Subset, FS_CardinalityType
        <3>2. n <= Cardinality(reply.rows)
            BY <1>9, <3>1, FS_Subset
        <3> QED
            BY <1>7, <1>12, <1>16, <3>1, <3>2
    <2>2. g \in Mine \cap inRange
        BY <1>8, <1>10, <1>16, <2>1
    <2>3. Cardinality(reply.rows) = RowLimit /\ reply.rows \subseteq Mine
        BY <1>14, <2>1, <2>2
    <2>4. shown = reply.rows
        BY <1>13, <2>3
    <2>5. \A e \in Mine : e \in inRange
        BY <1>8, <1>10, <1>16
    <2> QED
        BY <1>11, <2>3, <2>4, <2>5
<1> QED
    BY <1>7, <1>15, <1>16

\* A refresh shows each snapshot of this run once, whatever earlier runs have left
\* (onRefreshEvents, main_window.cpp:806-830).
THEOREM Refresh == Spec => []RefreshShowsCaptures
BY RefreshIsExact, Invariant, PTL
=============================================================================
