--------------------------- MODULE MCTelemetryPath ---------------------------
(* Model checking of TelemetryPath: three frames, of one and two bytes; command *)
(* lines of two and three words, of two options, and of three waits.             *)
EXTENDS TelemetryPath

MCPayloadLen == <<2, 1, 2>>

MCNumber == "70000" :> 70000 @@ "-5" :> -5 @@ "50" :> 50 @@ "3000" :> 3000
MCDashed == {"-5", "-x"}

Words == DOMAIN MCNumber \cup MCDashed \cup Waits \cup
    {"--help", "--tcp-port", "--yolo-txt", "--person-conf", "--fixed-msg", "f"}
Given(options) == {<<o, number>> : o \in options, number \in DOMAIN MCNumber}
Segments ==
    Given(Waits \cup {"--tcp-port", "--person-conf"}) \cup
    {<<"--yolo-txt", "f">>, <<"--fixed-msg">>, <<"--require-rtsp">>}
MCCommandLines ==
    {<<a, b>> : a, b \in Words}
    \cup {<<a, b, c>> : a, b \in Words, c \in {"--help", "--fixed-msg", "-x", "f"}}
    \cup {a \o b : a, b \in Segments}
    \cup {a \o b \o c : a, b, c \in Given(Waits)}

MCServed == {<<>>, <<"--yolo-txt", "f", "--class-map", "m">>}
MCSpelling == [name \in {"person", "rod", "cls"} |-> name] @@ "Person " :> "person"
MCLabelFiles ==
    {{}, {[cls |-> 2, conf |-> 90], [cls |-> 1, conf |-> 50], [cls |-> 1, conf |-> 80]}}
MCClassFiles == {<<>>, 2 :> "Person "}
=============================================================================
