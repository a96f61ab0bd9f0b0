---------------------------- MODULE ServerOptions ----------------------------
(***************************************************************************)
(* The command line of sim_server (server/app/main.cpp): parse_options() over *)
(* the words of argv, and what main() makes of its result.  A word is a        *)
(* string; Number gives what stoi() or stod() read from it, in any unit, and    *)
(* a word it does not know makes them throw.                                *)
(***************************************************************************)
EXTENDS SequencesExt, Integers

CONSTANTS
    Number,   \* [numeric words -> Int]
    Dashed    \* the words that begin with '-' and are no option

ASSUME NumberAssumption == \A word \in DOMAIN Number : Number[word] \in Int

TextOptions == {"--video", "--rtsp-url", "--ffmpeg", "--yolo-txt", "--class-map"}
Waits == {"--tcp-retry-ms", "--rtsp-retry-min-ms", "--rtsp-retry-max-ms", "--health-interval-sec"}
IntOptions == Waits \cup {"--tcp-port"}
Boxes == {"--person-cx", "--person-cy", "--person-w", "--person-h",
          "--rod-cx", "--rod-cy", "--rod-w", "--rod-h"}
RealOptions == Boxes \cup {"--person-conf", "--rod-conf"}
Flags == {"--require-rtsp", "--fixed-msg"}
Named == TextOptions \cup IntOptions \cup RealOptions
Help == {"--help", "-h"}

\* The members of ServerOptions at their defaults; reals in hundredths.
Default(option) ==
    CASE option = "--tcp-port" -> 9000
      [] option = "--tcp-retry-ms" -> 2000
      [] option = "--rtsp-retry-min-ms" -> 1000
      [] option = "--rtsp-retry-max-ms" -> 10000
      [] option = "--health-interval-sec" -> 0
      [] option = "--person-conf" -> 92 [] option = "--rod-conf" -> 88
      [] option = "--person-cx" -> 36   [] option = "--rod-cx" -> 38
      [] option = "--person-cy" -> 38   [] option = "--rod-cy" -> 40
      [] option = "--person-w" -> 30    [] option = "--rod-w" -> 28
      [] option = "--person-h" -> 44    [] option = "--rod-h" -> 13
      [] option = "--video" -> "media/test.mp4"
      [] option = "--rtsp-url" -> "rtsp://127.0.0.1:8554/live"
      [] option = "--ffmpeg" -> "ffmpeg"
      [] option \in {"--yolo-txt", "--class-map"} -> ""
      [] option \in Flags -> FALSE
Defaults == [option \in Named \cup Flags |-> Default(option)]

MinWait == 100
AtLeast(bound, value) == IF value < bound THEN bound ELSE value

\* The bounds at the end of parse_options().
Clamp(opts) ==
    LET min == AtLeast(MinWait, opts["--rtsp-retry-min-ms"]) IN
    [opts EXCEPT !["--tcp-retry-ms"] = AtLeast(MinWait, @),
                 !["--rtsp-retry-min-ms"] = min,
                 !["--rtsp-retry-max-ms"] = AtLeast(min, @),
                 !["--health-interval-sec"] = AtLeast(0, @)]

\* Mutated form: the bounds are applied as each option is read.
AssignClamped(opts, option, value) == Clamp([opts EXCEPT ![option] = value])

Assign(opts, option, value) == [opts EXCEPT ![option] = value]

PortOf(number) == number % 65536   \* static_cast<std::uint16_t>

\* stoi(), stod() or the word itself; p.end becomes "throws" when they do.
TakeValue(p, option, word) ==
    IF option \in TextOptions THEN [p EXCEPT !.opts = Assign(@, option, word)]
    ELSE IF word \notin DOMAIN Number THEN [p EXCEPT !.end = "throws"]
    ELSE [p EXCEPT !.opts = Assign(@, option,
                                IF option = "--tcp-port" THEN PortOf(Number[word]) ELSE Number[word])]

\* One word of argv: the value an option waits for, an option, or one of the two
\* legacy positions, which only come before any option.
ParseWord(p, word) ==
    LET q == [p EXCEPT !.at = @ + 1] IN
    IF p.end # "none" THEN p
    ELSE CASE p.waits # "none" -> [TakeValue(q, p.waits, word) EXCEPT !.waits = "none"]
           [] p.waits = "none" /\ word \in Named -> [q EXCEPT !.waits = word, !.named = TRUE]
           [] p.waits = "none" /\ word \in Flags ->
                 [q EXCEPT !.opts = Assign(@, word, TRUE), !.named = TRUE]
           [] OTHER ->
                 IF word \in Dashed \cup Help \/ p.named \/ p.at > 2 THEN [p EXCEPT !.end = "usage"]
                 ELSE TakeValue(q, IF p.at = 1 THEN "--tcp-port" ELSE "--video", word)

Untouched == [opts |-> Defaults, named |-> FALSE, at |-> 1, waits |-> "none", end |-> "none"]

Parsed(argv) ==
    LET after[n \in 0 .. Len(argv)] ==
            IF n = 0 THEN Untouched ELSE ParseWord(after[n - 1], argv[n])
    IN  after[Len(argv)]

\* main() runs the server: no word asks for help, even as an option's value, and
\* every word was understood.
Accepted(argv) ==
    /\ \A i \in DOMAIN argv : argv[i] \notin Help
    /\ Parsed(argv).end = "none" /\ Parsed(argv).waits = "none"

Options(argv) == Clamp(Parsed(argv).opts)

-----------------------------------------------------------------------------
\* What run_rtsp_loop, run_tcp_loop and the health log rely on: waits of at
\* least 100 ms, the two bounds of the backoff in order.
InRange(opts) ==
    /\ opts["--tcp-retry-ms"] >= MinWait
    /\ MinWait <= opts["--rtsp-retry-min-ms"]
    /\ opts["--rtsp-retry-min-ms"] <= opts["--rtsp-retry-max-ms"]
    /\ opts["--health-interval-sec"] >= 0
=============================================================================
