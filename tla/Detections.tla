----------------------------- MODULE Detections -----------------------------
(***************************************************************************)
(* What a telemetry frame says was detected: the label file and the class map *)
(* as TcpSimServer reads them, the simulated person and rod it sends when the  *)
(* file yields nothing, and the alert rule of the window.                    *)
(*                                                                         *)
(* A label file is the set of its lines, [cls, conf], those that five numbers  *)
(* cannot be read from excluded; {} is also a file that cannot be opened, or     *)
(* was emptied to be written anew.  A class map file is a partial function from  *)
(* numbers to names, of its last line for each number.                       *)
(***************************************************************************)
EXTENDS ServerOptions

CONSTANT Spelling   \* [names -> the name trimmed, in lower case]

\* loadClassMap()
ClassMap(file) ==
    [cls \in DOMAIN file \cup {0, 1} |->
        IF cls \in DOMAIN file THEN file[cls] ELSE IF cls = 0 THEN "person" ELSE "rod"]

NameOf(cls, map) == IF cls \in DOMAIN map THEN map[cls] ELSE "cls"

Object(label, conf) == [label |-> label, conf |-> conf]

\* loadYoloObjects()
YoloObjects(file, map) == {Object(NameOf(line.cls, map), line.conf) : line \in file}

Simulated(opts) == {Object("person", opts["--person-conf"]), Object("rod", opts["--rod-conf"])}

\* The detections of one frame.  --fixed-msg is about the boxes, which no rule reads.
Objects(opts, file, map) == IF file = {} THEN Simulated(opts) ELSE YoloObjects(file, map)

\* Mutated form: names are compared as they were sent.
ConfidenceRaw(objects, name) ==
    Max({o.conf : o \in {x \in objects : x.label = name}} \cup {0})

\* The larger one when a label comes twice, and 0 when it does not come.
Confidence(objects, name) ==
    Max({o.conf : o \in {x \in objects : Spelling[x.label] = name}} \cup {0})

\* evaluatePersonRodAlert()
Alert(objects, threshold) ==
    Confidence(objects, "person") >= threshold /\ Confidence(objects, "rod") >= threshold
=============================================================================
