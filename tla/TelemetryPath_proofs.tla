------------------------ MODULE TelemetryPath_proofs ------------------------
(***************************************************************************)
(* The composition is a behaviour of FrameStream: the files, the class map *)
(* and the window, whatever they do, leave the framing as it is proved.  And*)
(* the alert says what the files said: from the options and the label file *)
(* over the frame to the threshold.                                        *)
(***************************************************************************)
EXTENDS TelemetryPath, FrameStream_proofs, ServerOptions_proofs

\* Every step of the path is a step of the stream, or leaves it unchanged.
LEMMA PathStep == [PathNext]_pathVars => [Next]_vars
<1> SUFFICES ASSUME [PathNext]_pathVars PROVE [Next]_vars
    OBVIOUS
<1>1. CASE Serve
    BY <1>1 DEF Serve, Next
<1>2. CASE Receive
    BY <1>2 DEF Receive, Next, Parse
<1>3. CASE Reconnect
    BY <1>3 DEF Reconnect, Next
<1>4. CASE Collect
    BY <1>4 DEF Collect, Next
<1>5. CASE Wait
    BY <1>5 DEF Wait, Next, Parse
<1>6. CASE UNCHANGED pathVars
    BY <1>6 DEF pathVars
<1> QED
    BY <1>1, <1>2, <1>3, <1>4, <1>5, <1>6 DEF PathNext

\* The path is a stream of frames: a class map read again, label files that change and
\* a threshold that is moved do nothing to the bytes (tcp_sim_server.cpp:217-242,
\* tcp_client_worker.cpp:62-118).
THEOREM PathIsStream == PathSpec => Spec
<1>1. PathInit => Init
    BY DEF PathInit
<1> QED
    BY <1>1, PathStep, PTL DEF PathSpec, Spec

\* So the framing holds of the path,
THEOREM PathInvariant == PathSpec => []IInv
BY PathIsStream, Invariant, PTL

\* and so does the promise of the channel.
THEOREM PathImplementation == PathSpec => ImplementsChannel
BY PathIsStream, Implementation, PTL

-----------------------------------------------------------------------------
\* Each frame sent was made from contents the files can have, and the options stay what
\* the command line asked for (tcp_sim_server.cpp:155-229, main_window.cpp:1041-1053).
THEOREM PathTypeCorrect == PathSpec => []PathTypeOK
<1>1. PathInit /\ TypeOK => PathTypeOK
    <2> SUFFICES ASSUME PathInit, TypeOK PROVE PathTypeOK
        OBVIOUS
    <2>1. content \in Seq([file : LabelsRead, classes : ClassesRead]) /\ Len(content) = sent
        BY DEF PathInit, Init
    <2>2. argv \in Seq(STRING)
        BY PathAssumption DEF PathInit
    <2> QED
        BY <2>1, <2>2 DEF PathInit, PathTypeOK
<1>2. PathTypeOK /\ [PathNext]_pathVars => PathTypeOK'
    <2> SUFFICES ASSUME PathTypeOK, [PathNext]_pathVars PROVE PathTypeOK'
        OBVIOUS
    <2>1. TypeOK'
        BY PathStep, TypeStep DEF PathTypeOK
    <2>2. CASE Serve
        <3>1. PICK file \in LabelsRead : content' = Append(content, [file |-> file, classes |-> classes])
            BY <2>2 DEF Serve
        <3>2. sent' = sent + 1 /\ UNCHANGED <<argv, opts, classes, alert, threshold>>
            BY <2>2 DEF Serve, SendFrame, windowVars
        <3>3. LabelsRead' = LabelsRead /\ ClassesRead' = ClassesRead
            BY <3>2 DEF LabelsRead, ClassesRead
        <3> HIDE DEF LabelsRead, ClassesRead
        <3> DEFINE Made == [file : LabelsRead, classes : ClassesRead]
                   made == [file |-> file, classes |-> classes]
        <3>4. made \in Made
            BY DEF PathTypeOK
        <3> HIDE DEF made, Made
        <3>5. content \in Seq(Made) /\ Len(content) = sent /\ content' = Append(content, made)
            BY <3>1 DEF PathTypeOK, Made, made
        <3>6. content' \in Seq(Made) /\ Len(content') = Len(content) + 1
            BY <3>4, <3>5
        <3>7. content' \in Seq([file : LabelsRead', classes : ClassesRead']) /\ Len(content') = sent'
            BY <3>2, <3>3, <3>5, <3>6 DEF Made
        <3> QED
            BY <2>1, <3>2, <3>3, <3>7 DEF PathTypeOK
    <2>3. CASE Receive
        <3>1. UNCHANGED <<argv, opts, classes, content, sent>>
            BY <2>3 DEF Receive, CutFrame, serverVars
        <3>2. alert' \in BOOLEAN /\ threshold' \in Thresholds \cup {70}
            <4>1. CASE UNCHANGED windowVars
                BY <4>1 DEF windowVars, PathTypeOK
            <4>2. CASE threshold' \in Thresholds /\ \E objects \in Payload(Last(delivered')) :
                                                       alert' = Alert(objects, threshold')
                BY <4>2 DEF Alert
            <4> QED
                BY <2>3, <4>1, <4>2 DEF Receive
        <3> QED
            BY <2>1, <3>1, <3>2 DEF PathTypeOK, LabelsRead, ClassesRead
    <2>4. CASE Reconnect
        <3>1. UNCHANGED <<argv, opts, content, sent, alert, threshold>> /\ classes' \in ClassesRead
            BY <2>4 DEF Reconnect, LoseConnection, windowVars
        <3> QED
            BY <2>1, <3>1 DEF PathTypeOK, LabelsRead, ClassesRead
    <2>5. CASE Collect \/ Wait \/ UNCHANGED pathVars
        <3>1. UNCHANGED <<argv, opts, classes, content, sent, alert, threshold>>
            BY <2>5 DEF Collect, Wait, OnReadyRead, ReadAll, NeedMore, BadLength, serverVars,
                        windowVars, pathVars, vars
        <3> QED
            BY <2>1, <3>1 DEF PathTypeOK, LabelsRead, ClassesRead
    <2> QED
        BY <2>2, <2>3, <2>4, <2>5 DEF PathNext
<1>3. IInv => TypeOK
    BY DEF IInv
<1> QED
    BY <1>1, <1>2, <1>3, PathInvariant, PTL DEF PathSpec

\* main.cpp:89-176: for every command line the server may be started with, what stands
\* before an option may be moved behind what comes after.
THEOREM Order == PathSpec => []OrderIsIrrelevant
<1>1. PathTypeOK => OrderIsIrrelevant
    <2> SUFFICES ASSUME PathTypeOK, NEW i \in 1 .. Len(argv) - 1,
                        Accepted(argv), Accepted(SubSeq(argv, 1, i)), argv[1] \in Named \cup Flags,
                        Range(SubSeq(argv, 1, i)) \cap Range(SubSeq(argv, i + 1, Len(argv)))
                            \cap (Named \cup Flags) = {}
                 PROVE  /\ Accepted(SubSeq(argv, i + 1, Len(argv)) \o SubSeq(argv, 1, i))
                        /\ Options(SubSeq(argv, i + 1, Len(argv)) \o SubSeq(argv, 1, i)) = opts
        BY Zenon DEF OrderIsIrrelevant
    <2> DEFINE before == SubSeq(argv, 1, i)
               behind == SubSeq(argv, i + 1, Len(argv))
    <2>1. argv \in Seq(STRING) /\ opts = Options(argv)
        BY DEF PathTypeOK
    <2>2. /\ before \in Seq(STRING) /\ behind \in Seq(STRING)
          /\ Len(before) = i /\ Len(behind) = Len(argv) - i
          /\ \A k \in 1 .. i : before[k] = argv[k]
          /\ \A k \in 1 .. Len(argv) - i : behind[k] = argv[i + k]
        BY <2>1
    <2> HIDE DEF before, behind
    <2>3. before # <<>> /\ behind # <<>> /\ before[1] = argv[1]
        BY <2>1, <2>2
    <2>4. before \o behind = argv
        <3> DEFINE both == before \o behind
        <3>1. /\ both \in Seq(STRING) /\ Len(both) = Len(before) + Len(behind)
              /\ \A k \in 1 .. Len(before) + Len(behind) :
                    both[k] = IF k <= Len(before) THEN before[k] ELSE behind[k - Len(before)]
            <4>1. before \in Seq(STRING) /\ behind \in Seq(STRING)
                BY <2>2
            <4> QED
                BY <4>1, ConcatProperties, SMTT(30)
        <3> HIDE DEF both
        <3>2. Len(both) = Len(argv) /\ Len(argv) \in Nat
            BY <2>1, <2>2, <3>1
        <3>3. ASSUME NEW k \in 1 .. Len(argv) PROVE both[k] = argv[k]
            <4>1. CASE k <= i
                BY <2>2, <3>1, <3>2, <4>1
            <4>2. CASE k > i
                <5>1. k - i \in 1 .. Len(argv) - i /\ i + (k - i) = k
                    BY <3>2, <4>2
                <5>2. both[k] = behind[k - i]
                    BY <2>2, <3>1, <3>2, <4>2
                <5> QED
                    BY <2>2, <5>1, <5>2
            <4> QED
                BY <4>1, <4>2
        <3> QED
            BY <2>1, <3>1, <3>2, <3>3, SeqEqual DEF both
    <2>5. Accepted(before \o behind) /\ Accepted(before) /\ before[1] \in Keys
        BY <2>3, <2>4 DEF before, Keys
    <2>6. Range(before) \cap Range(behind) \cap Keys = {}
        BY DEF before, behind, Keys
    <2>7. Accepted(behind \o before) /\ Options(behind \o before) = Options(before \o behind)
        BY <2>2, <2>3, <2>5, <2>6, PartsMaySwap
    <2> QED
        BY <2>1, <2>4, <2>7 DEF before, behind
<1> QED
    BY <1>1, PathTypeCorrect, PTL

-----------------------------------------------------------------------------
\* A label is confident enough if one of the objects that carry it is; every one is with
\* a limit of 0, the absent one too.
LEMMA ConfidenceMeets ==
    ASSUME NEW objects, IsFiniteSet(objects), \A o \in objects : o.conf \in Int,
           NEW name, NEW limit \in Nat
    PROVE  Confidence(objects, name) >= limit <=>
               \/ limit = 0
               \/ \E o \in objects : Spelling[o.label] = name /\ o.conf >= limit
<1> DEFINE Named1 == {o \in objects : Spelling[o.label] = name}
           confs == {o.conf : o \in Named1}
<1>1. IsFiniteSet(confs \cup {0})
    <2> DEFINE f == [o \in Named1 |-> o.conf]
    <2>1. IsFiniteSet(Named1)
        BY FS_Subset
    <2>2. f \in Surjection(Named1, confs)
        BY DEF Surjection
    <2> HIDE DEF Named1, confs, f
    <2>3. IsFiniteSet(confs)
        BY <2>1, <2>2, FS_Surjection
    <2> QED
        BY <2>3, FS_AddElement
<1>2. confs \cup {0} \subseteq Int /\ 0 \in confs \cup {0}
    OBVIOUS
<1> DEFINE all == confs \cup {0}
<1>3. Confidence(objects, name) = Max(all)
    BY DEF Confidence
<1>4. all \subseteq Int /\ all # {} /\ 0 \in all
    BY <1>2
<1>5. Max(all) \in all /\ \A y \in all : Max(all) >= y
    <2> HIDE DEF all
    <2> QED
        BY <1>1, <1>4, MaxOfFinite DEF all
<1>6. PICK top : top = Max(all)
    OBVIOUS
<1>7. top \in all /\ top \in Int /\ \A y \in all : top >= y
    <2> HIDE DEF all
    <2> QED
        BY <1>4, <1>5, <1>6
<1>8. top >= limit <=> limit = 0 \/ \E y \in confs : y >= limit
    <2>1. \A y \in all : y \in confs \/ y = 0
        OBVIOUS
    <2>2. \A y \in confs : y \in all
        OBVIOUS
    <2> HIDE DEF all, confs
    <2> QED
        <3>1. ASSUME top >= limit, limit # 0 PROVE \E y \in confs : y >= limit
            BY <1>7, <2>1, <3>1
        <3>2. ASSUME limit = 0 PROVE top >= limit
            BY <1>4, <1>7, <3>2
        <3>3. ASSUME NEW y \in confs, y >= limit PROVE top >= limit
            <4>1. y \in Int /\ top >= y
                BY <1>4, <1>7, <2>2
            <4> QED
                BY <1>7, <3>3, <4>1
        <3> QED
            BY <3>1, <3>2, <3>3
<1>9. (\E y \in confs : y >= limit) <=>
          \E o \in objects : Spelling[o.label] = name /\ o.conf >= limit
    OBVIOUS
<1> QED
    BY <1>3, <1>6, <1>8, <1>9

\* What a file yields has finitely many lines.
LEMMA FilesFinite ==
    ASSUME NEW file \in LabelsRead
    PROVE  IsFiniteSet(file) /\ \A line \in file : line.conf \in Int
<1>1. file = {} \/ file \in LabelFiles
    BY Zenon DEF LabelsRead
<1>2. CASE file = {}
    BY <1>2, FS_EmptySet
<1>3. CASE file \in LabelFiles
    BY <1>3, PathAssumption
<1> QED
    BY <1>1, <1>2, <1>3

\* The name an object is sent with is spelt as the class map's file means it.
LEMMA NameMeant ==
    ASSUME NEW file, NEW cls
    PROVE  Spelling[NameOf(cls, ClassMap(file))] =
               IF cls \in DOMAIN file THEN Spelling[file[cls]]
               ELSE IF cls = 0 THEN "person" ELSE IF cls = 1 THEN "rod" ELSE "cls"
<1>1. DOMAIN ClassMap(file) = DOMAIN file \cup {0, 1}
    BY DEF ClassMap
<1>2. Spelling["person"] = "person" /\ Spelling["rod"] = "rod" /\ Spelling["cls"] = "cls"
    BY PathAssumption
<1>3. CASE cls \in DOMAIN file
    <2>1. ClassMap(file)[cls] = file[cls]
        BY <1>3 DEF ClassMap
    <2> QED
        BY <1>1, <1>3, <2>1 DEF NameOf
<1>4. CASE cls \notin DOMAIN file /\ cls \in {0, 1}
    <2>1. ClassMap(file)[cls] = IF cls = 0 THEN "person" ELSE "rod"
        BY <1>4 DEF ClassMap
    <2> QED
        BY <1>1, <1>2, <1>4, <2>1 DEF NameOf
<1>5. CASE cls \notin DOMAIN file /\ cls \notin {0, 1}
    <2>1. NameOf(cls, ClassMap(file)) = "cls"
        BY <1>1, <1>5 DEF NameOf
    <2> QED
        BY <1>2, <1>5, <2>1
<1> QED
    BY <1>3, <1>4, <1>5

\* The objects of a frame say what its files said.
LEMMA ObjectsSay ==
    ASSUME PathTypeOK, NEW made \in [file : LabelsRead, classes : ClassesRead], NEW objects,
           objects = Objects(opts, made.file, ClassMap(made.classes)),
           NEW name \in {"person", "rod"}, NEW limit \in Nat
    PROVE  /\ IsFiniteSet(objects) /\ \A o \in objects : o.conf \in Int
           /\ (\E o \in objects : Spelling[o.label] = name /\ o.conf >= limit) <=>
                  Says(made, name, limit)
<1>1. made.file \in LabelsRead
    OBVIOUS
<1>2. IsFiniteSet(made.file) /\ \A line \in made.file : line.conf \in Int
    BY <1>1, FilesFinite
<1>3. CASE made.file = {}
    <2> DEFINE p == opts["--person-conf"]
               r == opts["--rod-conf"]
    <2>1. p \in Int /\ r \in Int
        <3>1. WellTyped(opts)
            <4>1. argv \in Seq(STRING) /\ opts = Options(argv)
                BY DEF PathTypeOK
            <4>2. Len(argv) \in Nat
                BY <4>1
            <4> QED
                BY <4>1, <4>2, OptionsInRange
        <3>2. "--person-conf" \in RealOptions /\ "--rod-conf" \in RealOptions
            BY DEF RealOptions
        <3> QED
            BY <3>1, <3>2 DEF WellTyped, Fits, Keys, Named
    <2>2. objects = {Object("person", p), Object("rod", r)}
        BY <1>3 DEF Objects, Simulated
    <2>3. Says(made, name, limit) <=> IF name = "person" THEN p >= limit ELSE r >= limit
        BY <1>3 DEF Says
    <2> HIDE DEF p, r
    <2>4. IsFiniteSet(objects)
        <3>1. IsFiniteSet({Object("person", p)})
            BY FS_Singleton
        <3>2. IsFiniteSet({Object("person", p)} \cup {Object("rod", r)})
            BY <3>1, FS_AddElement
        <3>3. objects = {Object("person", p)} \cup {Object("rod", r)}
            BY <2>2
        <3> QED
            BY <3>2, <3>3
    <2>5. /\ Object("person", p).label = "person" /\ Object("person", p).conf = p
          /\ Object("rod", r).label = "rod" /\ Object("rod", r).conf = r
        BY DEF Object
    <2>6. Spelling["person"] = "person" /\ Spelling["rod"] = "rod"
        BY PathAssumption
    <2>7. (\E o \in objects : Spelling[o.label] = name /\ o.conf >= limit) <=>
              Says(made, name, limit)
        <3>1. CASE name = "person"
            BY <2>2, <2>3, <2>5, <2>6, <3>1
        <3>2. CASE name = "rod"
            BY <2>2, <2>3, <2>5, <2>6, <3>2
        <3> QED
            BY <3>1, <3>2
    <2> QED
        BY <2>1, <2>2, <2>4, <2>5, <2>7
<1>4. CASE made.file # {}
    <2> DEFINE Sent(line) == Object(NameOf(line.cls, ClassMap(made.classes)), line.conf)
               Meant(cls) == IF cls \in DOMAIN made.classes THEN Spelling[made.classes[cls]]
                             ELSE IF cls = 0 THEN "person" ELSE IF cls = 1 THEN "rod" ELSE "cls"
    <2>1. objects = {Sent(line) : line \in made.file}
        BY <1>4 DEF Objects, YoloObjects
    <2>2. \A line \in made.file : Spelling[Sent(line).label] = Meant(line.cls)
                                  /\ Sent(line).conf = line.conf
        <3> SUFFICES ASSUME NEW line \in made.file
                     PROVE  /\ Spelling[Sent(line).label] = Meant(line.cls)
                            /\ Sent(line).conf = line.conf
            OBVIOUS
        <3>1. Sent(line).label = NameOf(line.cls, ClassMap(made.classes))
              /\ Sent(line).conf = line.conf
            BY DEF Object
        <3>2. Spelling[NameOf(line.cls, ClassMap(made.classes))] = Meant(line.cls)
            BY NameMeant
        <3> QED
            BY <3>1, <3>2
    <2>3. Says(made, name, limit) <=> \E line \in made.file : Meant(line.cls) = name /\ line.conf >= limit
        BY <1>4 DEF Says
    <2> HIDE DEF Sent, Meant
    <2>4. IsFiniteSet(objects)
        <3> DEFINE f == [line \in made.file |-> Sent(line)]
        <3>1. f \in Surjection(made.file, objects)
            BY <2>1 DEF Surjection
        <3> QED
            BY <1>2, <3>1, FS_Surjection
    <2> QED
        BY <1>2, <2>1, <2>2, <2>3, <2>4
<1> QED
    BY <1>3, <1>4

\* The window raises the alert when the files a frame was made from said so, and the
\* threshold of that moment let it (main_window.cpp:1041-1053): for any files, served
\* with any command line, however the bytes arrive.
THEOREM AlertRight == PathSpec => AlertIsTheRule
<1> DEFINE Right == /\ Says(content[Last(delivered')], "person", threshold')
                    /\ Says(content[Last(delivered')], "rod", threshold')
           Shown == delivered' # delivered /\ Last(delivered') # Junk /\ threshold' > 0
<1>1. PathTypeOK /\ PathTypeOK' /\ [PathNext]_pathVars => (Shown => (alert' <=> Right))
    <2> SUFFICES ASSUME PathTypeOK, PathTypeOK', [PathNext]_pathVars,
                        delivered' # delivered, Last(delivered') # Junk, threshold' > 0
                 PROVE  alert' <=> Right
        OBVIOUS
    <2>1. Receive
        BY DEF PathNext, Serve, Reconnect, Collect, Wait, SendFrame, LoseConnection, OnReadyRead,
               ReadAll, NeedMore, BadLength, pathVars, vars
    <2>2. PICK objects \in Payload(Last(delivered')) : alert' = Alert(objects, threshold')
        BY <2>1 DEF Receive
    <2>3. threshold' \in Nat /\ sent' = sent
        <3>1. sent' = sent /\ threshold' \in Thresholds
            BY <2>1 DEF Receive, CutFrame
        <3> QED
            BY <3>1, PathAssumption
    <2>4. /\ delivered \in Seq(0 .. sent) /\ delivered' \in Seq(0 .. sent)
          /\ sent \in Nat
        BY <2>3 DEF PathTypeOK, TypeOK
    <2>5. delivered' # <<>>
        <3>1. PICK len : \E m \in Messages(len) : delivered' = delivered \o m
            BY <2>1 DEF Receive, CutFrame
        <3>2. PICK m : delivered' = delivered \o m /\ (m = <<>> \/ \E x : m = <<x>>)
            <4>1. PICK m \in Messages(len) : delivered' = delivered \o m
                BY <3>1
            <4>2. m = <<>> \/ \E x : m = <<x>>
                BY <4>1 DEF Messages
            <4> QED
                BY <4>1, <4>2
        <3>3. m # <<>>
            <4>1. delivered \o <<>> = delivered
                BY <2>4
            <4> QED
                BY <3>2, <4>1
        <3>4. PICK x : m = <<x>>
            BY <3>2, <3>3
        <3> DEFINE S == (0 .. sent) \cup {x}
        <3>5. delivered \in Seq(S) /\ <<x>> \in Seq(S) /\ Len(<<x>>) = 1
            <4>1. 0 .. sent \subseteq S /\ x \in S
                OBVIOUS
            <4> HIDE DEF S
            <4>2. delivered \in Seq(S)
                <5>1. /\ Len(delivered) \in Nat /\ DOMAIN delivered = 1 .. Len(delivered)
                      /\ delivered = [i \in 1 .. Len(delivered) |-> delivered[i]]
                      /\ \A i \in 1 .. Len(delivered) : delivered[i] \in 0 .. sent
                    BY <2>4
                <5>2. \A i \in 1 .. Len(delivered) : delivered[i] \in S
                    BY <4>1, <5>1, Zenon
                <5> QED
                    BY <5>1, <5>2
            <4> QED
                BY <4>1, <4>2
        <3> HIDE DEF S
        <3>6. Len(delivered \o <<x>>) = Len(delivered) + 1 /\ Len(delivered) \in Nat
            BY <3>5
        <3> QED
            BY <3>2, <3>4, <3>6
    <2> DEFINE msg == Last(delivered')
               made == content[msg]
    <2>6. msg \in 1 .. sent
        <3>1. Len(delivered') \in Nat \ {0}
            BY <2>4, <2>5
        <3>2. msg = delivered'[Len(delivered')]
            BY DEF Last
        <3>3. msg \in 0 .. sent
            BY <2>4, <3>1, <3>2
        <3> HIDE DEF msg
        <3>4. msg # 0
            BY DEF msg, Junk
        <3> QED
            BY <2>4, <3>3, <3>4
    <2>7. made \in [file : LabelsRead, classes : ClassesRead]
        <3> DEFINE Made == [file : LabelsRead, classes : ClassesRead]
        <3>1. content \in Seq(Made) /\ Len(content) = sent
            BY DEF PathTypeOK
        <3> HIDE DEF msg, Made
        <3>2. content[msg] \in Made
            BY <2>4, <2>6, <3>1
        <3> QED
            BY <3>2 DEF Made
    <2>8. objects = Objects(opts, made.file, ClassMap(made.classes))
        BY <2>2 DEF Payload
    <2> HIDE DEF msg, made
    <2>9. ASSUME NEW name \in {"person", "rod"}
          PROVE  Confidence(objects, name) >= threshold'
                     <=> Says(made, name, threshold')
        <3>1. /\ IsFiniteSet(objects) /\ \A o \in objects : o.conf \in Int
              /\ (\E o \in objects : Spelling[o.label] = name /\ o.conf >= threshold') <=>
                     Says(made, name, threshold')
            BY <2>3, <2>7, <2>8, ObjectsSay
        <3>2. Confidence(objects, name) >= threshold' <=>
                  \/ threshold' = 0
                  \/ \E o \in objects : Spelling[o.label] = name /\ o.conf >= threshold'
            BY <2>3, <3>1, ConfidenceMeets
        <3>3. threshold' # 0
            BY <2>3
        <3> QED
            BY <3>1, <3>2, <3>3
    <2>10. Alert(objects, threshold') <=> /\ Confidence(objects, "person") >= threshold'
                                          /\ Confidence(objects, "rod") >= threshold'
        BY DEF Alert
    <2>11. Right <=> Says(made, "person", threshold') /\ Says(made, "rod", threshold')
        BY DEF made, msg
    <2> HIDE DEF Right
    <2> QED
        BY <2>2, <2>9, <2>10, <2>11
<1>2. PathTypeOK /\ PathTypeOK' /\ [PathNext]_pathVars
          => [Shown => (alert' <=> Right)]_pathVars
    BY <1>1
<1> QED
    BY <1>2, PathTypeCorrect, PTL DEF PathSpec, AlertIsTheRule
=============================================================================
