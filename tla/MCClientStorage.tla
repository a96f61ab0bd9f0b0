-------------------------- MODULE MCClientStorage --------------------------
(* Model checking of ClientStorage.  The packets: one that meets both          *)
(* thresholds and one that meets the lower one.  Each plan is the least that   *)
(* makes the interesting cases of its part happen.                            *)
EXTENDS ClientStorage

HighOrLow == {[person |-> 2, rod |-> 2], [person |-> 2, rod |-> 1]}

Plan(n, kinds, f, r, m) ==
    [inputs |-> n, only |-> kinds, faults |-> f, runs |-> r, minute |-> m]

\* A frame, two packets or a change of the threshold, and a capture.
Alerts == Plan(4, {"telemetry", "frame", "capture", "edit"}, 0, 1, 4)
\* A snapshot and a refresh after it: in the first minute or later, in this run or the next.
Queries == Plan(4, {"telemetry", "frame", "capture", "refresh"}, 0, 1, 2)
Ranges == Plan(4, {"frame", "capture", "refresh", "edit"}, 0, 2, 1)
\* More snapshots than a query returns.
Many == Plan(5, {"frame", "capture", "refresh"}, 0, 1, 5)
\* A snapshot with a failure anywhere, and another start of the program.
Faulty == Plan(2, {"telemetry", "frame", "capture", "refresh"}, 1, 2, 2)
\* Two saves, by the buttons or the end of the program, and what the next run reads.
Configs == Plan(2, {"edit", "save", "start"}, 1, 2, 2)
\* A start and two frames in each of two runs make two videos.
TwoVideos == Plan(6, {"start", "frame"}, 0, 2, 6)
\* A session that is stopped twice, with a failure.
OneVideo == Plan(4, {"start", "stop", "frame"}, 1, 1, 4)

\* A threshold and a snapshot, and what the next run finds of them.
SaveAndRestart == {Plan(3, {"edit", "frame", "capture"}, 0, 2, 3)}
StorageRecordings ==
    {Alerts, Queries, Ranges, Many, Faulty, Configs, TwoVideos, OneVideo}
=============================================================================
