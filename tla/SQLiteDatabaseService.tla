----------------------- MODULE SQLiteDatabaseService -----------------------
(***************************************************************************)
(* The database worker: it runs the calls queued for its thread one after    *)
(* the other, each a few SQL statements that SQLite commits one by one, so    *)
(* the program may end and a statement may fail between any two of them.      *)
(*                                                                         *)
(* The file is abstracted to the rows the properties tell apart: the rows of  *)
(* telemetry in the order of their ids, which ids have all their rows of      *)
(* detection_object or their row of gps, the rows of snapshot_events and the  *)
(* row of app_config; app_logs is left out.  (A packet whose two confidences  *)
(* are 0 has no objects.  The events page's reason field is empty.)          *)
(*                                                                         *)
(* Bound: the faults of WorkerThreads, here statements and open() calls.      *)
(***************************************************************************)
EXTENDS WorkerThreads, FiniteSets

CONSTANTS
    DefaultThreshold,
    RowLimit     \* rows of events a query returns at most

ASSUME StoreAssumption == RowLimit \in Nat

VARIABLES
    disk,        \* the database file
    open,        \* db_.isOpen()
    stmt,        \* the statement to run next, "idle" between two calls
    row,         \* telemetryId
    reply        \* what a blocking call has brought back to the main window

storeVars == <<disk, open, stmt, row, reply>>

DefaultConfig == [record |-> TRUE, threshold |-> DefaultThreshold, geometry |-> FALSE]

Tables == <<"app_config", "telemetry", "detection_object", "gps">>
NoRow == [no |-> 0]
NoReply == [of |-> "none"]
EmptyFile == [schema |-> {}, telemetry |-> <<>>, details |-> {}, events |-> {},
              config |-> NoRow]

StoreInit ==
    /\ disk = EmptyFile /\ open = FALSE /\ stmt = "idle" /\ row = 0
    /\ reply = NoReply

Call == Head(queue["db"])

\* A statement on a table fails when the table is missing, and may fail anyway.
Fails(table) == Fault \/ (table \notin disk.schema /\ UNCHANGED faults)
Works(table) == table \in disk.schema /\ UNCHANGED faults

Return ==
    /\ Finished("db") /\ stmt' = "idle"
    /\ UNCHANGED <<open, row, quit>>
ReturnNothing == Return /\ UNCHANGED reply
Answer(value) == Return /\ reply' = value
Continue(next) ==
    /\ Begun("db") /\ stmt' = next
    /\ UNCHANGED <<open, reply, queue, quit>>

FirstStatement ==
    [init |-> "create", load |-> "select", events |-> "select", config |-> "replace",
     telemetry |-> "insert", snapshot |-> "insert"]

\* What a call returns when there is no connection.
Refused(op) ==
    CASE op = "init" -> [of |-> "init", ok |-> FALSE]
      [] op = "load" -> [of |-> "load", cfg |-> DefaultConfig]
      [] op = "events" -> [of |-> "events", rows |-> {}]
      [] OTHER -> reply

EnsureConnection ==
    /\ Running("db") /\ ~open
    /\ \/ /\ open' = TRUE /\ Begun("db")
          /\ UNCHANGED <<queue, quit, disk, stmt, row, reply, faults>>
       \/ /\ Fault /\ Answer(Refused(Call.op))
          /\ UNCHANGED disk

\* The connection is open and the statement the next one to run.
At(s) ==
    /\ Running("db") /\ open
    /\ s = IF stmt = "idle" THEN FirstStatement[Call.op] ELSE stmt

\* The first CREATE TABLE that fails ends migrate().
CreateTables ==
    /\ At("create")
    /\ \E n \in 0..Len(Tables) :
        /\ disk' = [disk EXCEPT !.schema = @ \cup {Tables[i] : i \in 1..n}]
        /\ IF n = Len(Tables)
             THEN Continue("drop") /\ UNCHANGED <<row, faults>>
             ELSE Fault /\ Answer([of |-> "init", ok |-> FALSE])

DropEvents ==
    /\ At("drop")
    /\ \/ /\ disk' = [disk EXCEPT !.schema = @ \ {"snapshot_events"}, !.events = {}]
          /\ UNCHANGED faults
       \/ Fault /\ UNCHANGED disk
    /\ Continue("recreate") /\ UNCHANGED row

CreateEvents ==
    /\ At("recreate")
    /\ \/ /\ disk' = [disk EXCEPT !.schema = @ \cup {"snapshot_events"}]
          /\ Answer([of |-> "init", ok |-> TRUE]) /\ UNCHANGED faults
       \/ Fault /\ Answer([of |-> "init", ok |-> FALSE]) /\ UNCHANGED disk

LoadConfig ==
    /\ At("select") /\ Call.op = "load"
    /\ \/ /\ UNCHANGED faults
          /\ Answer([of |-> "load",
                     cfg |-> IF disk.config = NoRow THEN DefaultConfig
                             ELSE [DefaultConfig EXCEPT !.record = disk.config.record,
                                                        !.geometry = disk.config.geometry]])
       \/ Fault /\ Answer(Refused("load"))
    /\ UNCHANGED disk

\* Mutated form: the oldest rows are returned.
Oldest(rows) ==
    {shown \in SUBSET rows :
        /\ Cardinality(shown) = IF Cardinality(rows) <= RowLimit THEN Cardinality(rows)
                                                               ELSE RowLimit
        /\ \A e \in shown, f \in rows \ shown : e.ts <= f.ts}

\* Of the rows of one time any may be the last that are returned.
Newest(rows) ==
    {shown \in SUBSET rows :
        /\ Cardinality(shown) = IF Cardinality(rows) <= RowLimit THEN Cardinality(rows)
                                                               ELSE RowLimit
        /\ \A e \in shown, f \in rows \ shown : f.ts <= e.ts}

QueryEvents ==
    /\ At("select") /\ Call.op = "events"
    /\ \/ /\ \E shown \in Newest({e \in disk.events : e.ts <= Call.to}) :
                Answer([of |-> "events", rows |-> shown])
          /\ UNCHANGED faults
       \/ Fault /\ Answer(Refused("events"))
    /\ UNCHANGED disk

\* Mutated form: a row that is there is left as it is.
SaveConfigOnce ==
    /\ At("replace")
    /\ \/ /\ Works("app_config")
          /\ disk' = [disk EXCEPT !.config =
                        IF @ # NoRow THEN @ ELSE
                        [record |-> Call.cfg.record, geometry |-> Call.cfg.geometry,
                         no |-> Call.no]]
       \/ Fails("app_config") /\ UNCHANGED disk
    /\ ReturnNothing

\* The row has no column for the alert threshold.
SaveConfigAsync ==
    /\ At("replace")
    /\ \/ /\ Works("app_config")
          /\ disk' = [disk EXCEPT !.config =
                        [record |-> Call.cfg.record, geometry |-> Call.cfg.geometry,
                         no |-> Call.no]]
       \/ Fails("app_config") /\ UNCHANGED disk
    /\ ReturnNothing

\* Mutated form: the snapshot goes on when the telemetry row was not inserted.
InsertTelemetryUnchecked ==
    /\ At("insert")
    /\ \/ /\ Works("telemetry")
          /\ disk' = [disk EXCEPT !.telemetry = Append(@, Call.pkt)]
          /\ row' = Len(disk.telemetry) + 1
       \/ Fails("telemetry") /\ row' = -1 /\ UNCHANGED disk
    /\ Continue("detection_object")

InsertTelemetry ==
    /\ At("insert")
    /\ \/ /\ Works("telemetry")
          /\ disk' = [disk EXCEPT !.telemetry = Append(@, Call.pkt)]
          /\ row' = Len(disk.telemetry) + 1
          /\ Continue("detection_object")
       \/ Fails("telemetry") /\ ReturnNothing /\ UNCHANGED disk

\* A detail that is not inserted is logged, and the call goes on.
InsertDetail(table) ==
    /\ \/ Works(table) /\ disk' = [disk EXCEPT !.details = @ \cup {<<row, table>>}]
       \/ Fails(table) /\ UNCHANGED disk

InsertObjects ==
    /\ At("detection_object")
    /\ IF Call.pkt.person = 0 /\ Call.pkt.rod = 0 THEN UNCHANGED <<disk, faults>>
                                                 ELSE InsertDetail("detection_object")
    /\ Continue("gps") /\ UNCHANGED row

InsertGps ==
    /\ At("gps")
    /\ InsertDetail("gps")
    /\ \/ Call.op = "snapshot" /\ Continue("event") /\ UNCHANGED row
       \/ Call.op = "telemetry" /\ ReturnNothing

\* Mutated form: the time an event is stored at.
TimeStored(pkt) == inputs

\* A packet's event has its time, an event without a packet the time it is stored at.
EventTime(pkt) == IF pkt.at > 0 THEN pkt.at ELSE inputs

InsertSnapshotEvent ==
    /\ At("event")
    /\ \/ /\ Works("snapshot_events")
          /\ disk' = [disk EXCEPT !.events =
                        @ \cup {[row |-> row, ts |-> EventTime(Call.pkt), pkt |-> Call.pkt,
                                 reason |-> Call.reason, target |-> Call.target]}]
       \/ Fails("snapshot_events") /\ UNCHANGED disk
    /\ ReturnNothing

StoreStep ==
    \/ EnsureConnection
    \/ CreateTables \/ DropEvents \/ CreateEvents
    \/ LoadConfig \/ QueryEvents \/ SaveConfigAsync
    \/ InsertTelemetry \/ InsertObjects \/ InsertGps \/ InsertSnapshotEvent
=============================================================================
