---------------------------- MODULE TelemetryPath ----------------------------
(***************************************************************************)
(* From the label file to the alert: sim_server, started with any of           *)
(* CommandLines, reads the class map as a client connects and the label file for every  *)
(* frame; the frames travel as FrameStream says; the window decides on an alert   *)
(* with the threshold its spin box shows when the packet arrives.            *)
(*                                                                         *)
(* Somebody edits the files and the spin box at any time: the contents read are  *)
(* any of LabelFiles and ClassFiles, the threshold is any of Thresholds.       *)
(*                                                                         *)
(* Bound: of the servers that start, those with a command line of Served go on. *)
(***************************************************************************)
EXTENDS FrameStream, Detections

CONSTANTS CommandLines, Served, LabelFiles, ClassFiles, Thresholds

\* A command line is a sequence of words; a file has finitely many lines, each with a
\* number for the confidence; the spin box gives no negative numbers; the names the code
\* itself writes are spelt as it compares them.
ASSUME PathAssumption ==
    /\ CommandLines \cup Served \subseteq Seq(STRING)
    /\ \A file \in LabelFiles : IsFiniteSet(file) /\ \A line \in file : line.conf \in Int
    /\ Thresholds \subseteq Nat
    /\ \A name \in {"person", "rod", "cls"} : Spelling[name] = name

VARIABLES
    argv,
    opts,        \* what parse_options() makes of it
    classes,     \* the class map file as the connection's read it
    content,     \* for each frame sent, the label file and the class map it was made from
    alert,       \* alertActive_
    threshold    \* alertThreshold_

serverVars == <<argv, opts, classes, content>>
windowVars == <<alert, threshold>>
pathVars == <<vars, serverVars, windowVars>>

\* What the files yield now; without the option nothing is opened.
LabelsRead == IF opts["--yolo-txt"] = "" THEN {{}} ELSE LabelFiles
ClassesRead == IF opts["--class-map"] = "" THEN {<<>>} ELSE ClassFiles

PathInit ==
    /\ Init
    /\ argv \in CommandLines \cup Served /\ opts = Options(argv)
    /\ classes \in ClassesRead /\ content = <<>>
    /\ alert = FALSE /\ threshold = 70

\* One round of the send loop.
Serve ==
    /\ Accepted(argv) /\ argv \in Served
    /\ SendFrame
    /\ \E file \in LabelsRead : content' = Append(content, [file |-> file, classes |-> classes])
    /\ UNCHANGED <<argv, opts, classes, windowVars>>

\* What a client reads from a payload: the frame's objects, or anything if the
\* payload is no frame's.
Payload(msg) ==
    IF msg = Junk THEN {{}, Objects(opts, {}, <<>>)}
    ELSE LET made == content[msg] IN {Objects(opts, made.file, ClassMap(made.classes))}

\* A frame is cut off; onTelemetry() shows it, if it is a message at all.
Receive ==
    /\ CutFrame
    /\ \/ delivered' = delivered /\ UNCHANGED windowVars
       \/ /\ delivered' # delivered
          /\ threshold' \in Thresholds
          /\ \E objects \in Payload(Last(delivered')) : alert' = Alert(objects, threshold')
    /\ UNCHANGED serverVars

\* A new connection: the class map is read again.
Reconnect ==
    /\ Accepted(argv) /\ argv \in Served
    /\ LoseConnection
    /\ classes' \in ClassesRead
    /\ UNCHANGED <<argv, opts, content, windowVars>>

Collect == OnReadyRead /\ UNCHANGED <<serverVars, windowVars>>

Wait == (NeedMore \/ BadLength) /\ UNCHANGED <<serverVars, windowVars>>

PathNext == Serve \/ Receive \/ Reconnect \/ Collect \/ Wait

PathSpec == PathInit /\ [][PathNext]_pathVars
PathFairSpec == PathSpec /\ WF_pathVars(Collect) /\ WF_pathVars(Receive \/ Wait)
-----------------------------------------------------------------------------
PathTypeOK ==
    /\ TypeOK
    /\ argv \in Seq(STRING) /\ opts = Options(argv)
    /\ classes \in ClassesRead
    /\ content \in Seq([file : LabelsRead, classes : ClassesRead]) /\ Len(content) = sent
    /\ alert \in BOOLEAN /\ threshold \in Thresholds \cup {70}

\* Different options may be given in either order, those that bound one another
\* included (main.cpp:89-176): what stands before an option may be moved behind all
\* that comes after.  Only the legacy positions must come first.
OrderIsIrrelevant ==
    \A i \in 1 .. Len(argv) - 1 :
        LET before == SubSeq(argv, 1, i)
            behind == SubSeq(argv, i + 1, Len(argv))
        IN  /\ Accepted(argv) /\ Accepted(before) /\ argv[1] \in Named \cup Flags
            /\ Range(before) \cap Range(behind) \cap (Named \cup Flags) = {}
            => Accepted(behind \o before) /\ Options(behind \o before) = opts

\* A label of the frame, as whoever wrote the two files means it; files that name
\* no object at all stand for the simulated person and rod.
Says(made, name, limit) ==
    LET meant(cls) == IF cls \in DOMAIN made.classes
                      THEN Spelling[made.classes[cls]]
                      ELSE IF cls = 0 THEN "person" ELSE IF cls = 1 THEN "rod" ELSE "cls"
    IN  IF made.file # {}
        THEN \E line \in made.file : meant(line.cls) = name /\ line.conf >= limit
        ELSE opts[IF name = "person" THEN "--person-conf" ELSE "--rod-conf"] >= limit

\* The alert goes on exactly when a person and a rod reach the threshold of this
\* moment, as the files the frame was made from mean them, which may have changed since
\* (evaluatePersonRodAlert(), main_window.cpp:1041-1053; tcp_sim_server.cpp:20-79).
AlertIsTheRule ==
    [][delivered' # delivered /\ Last(delivered') # Junk /\ threshold' > 0 =>
          (alert' <=> /\ Says(content[Last(delivered')], "person", threshold')
                      /\ Says(content[Last(delivered')], "rod", threshold'))]_pathVars

\* README.md:94, "person and rod are both in the same telemetry and both above the
\* threshold": an alert stands for a person and a rod of the last frame.
AlertNeedsBoth ==
    alert => \/ Last(delivered) = Junk
             \/ /\ Says(content[Last(delivered)], "person", threshold)
                /\ Says(content[Last(delivered)], "rod", threshold)

\* One of two promises of README.md is kept: the framing (line 40) or the rule of the
\* alert (line 94).  A behaviour that refutes this refutes both.
FramesAsDocumented == []LengthIsALength \/ []AlertNeedsBoth
=============================================================================
