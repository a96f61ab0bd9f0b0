------------------------ MODULE ServerOptions_proofs ------------------------
(***************************************************************************)
(* What parse_options() leaves, for every command line, and which parts of *)
(* a command line may change places.                                       *)
(*                                                                         *)
(* The loop over argv is a recursive function of the words read; where a   *)
(* proof needs induction over it, it looks for the least word that goes    *)
(* wrong, with the well-foundedness of a finite set's subsets (CountingUp).*)
(***************************************************************************)
EXTENDS ServerOptions, FiniteSetTheorems, WellFoundedInduction, TLAPS

\* A bound from below is kept and is one.
LEMMA AtLeastBounds ==
    ASSUME NEW bound \in Int, NEW value \in Int
    PROVE  AtLeast(bound, value) \in Int /\ AtLeast(bound, value) >= bound
BY DEF AtLeast

\* main.cpp:173-176: whatever was read, the loops get waits of at least 100 ms and
\* a backoff whose maximum is not below its minimum (what RtspSupervisor assumes
\* of RetryMin and RetryMax), since the minimum is bounded before it is compared.
THEOREM ClampInRange ==
    ASSUME NEW Keys, NEW Values, NEW opts \in [Keys -> Values], Waits \subseteq Keys,
           \A wait \in Waits : opts[wait] \in Int
    PROVE  InRange(Clamp(opts))
<1> DEFINE min == AtLeast(MinWait, opts["--rtsp-retry-min-ms"])
<1>1. MinWait \in Int /\ 0 \in Int
    BY DEF MinWait
<1>2. \A wait \in Waits : wait \in DOMAIN opts /\ opts[wait] \in Int
    OBVIOUS
<1>3. min \in Int /\ min >= MinWait
    BY <1>1, <1>2, AtLeastBounds DEF Waits
<1>4. /\ Clamp(opts)["--tcp-retry-ms"] = AtLeast(MinWait, opts["--tcp-retry-ms"])
      /\ Clamp(opts)["--rtsp-retry-min-ms"] = min
      /\ Clamp(opts)["--rtsp-retry-max-ms"] = AtLeast(min, opts["--rtsp-retry-max-ms"])
      /\ Clamp(opts)["--health-interval-sec"] = AtLeast(0, opts["--health-interval-sec"])
    BY <1>2 DEF Clamp, Waits
<1>5. AtLeast(MinWait, opts["--tcp-retry-ms"]) >= MinWait
    BY <1>1, <1>2, AtLeastBounds DEF Waits
<1>6. AtLeast(min, opts["--rtsp-retry-max-ms"]) >= min
    BY <1>2, <1>3, AtLeastBounds DEF Waits
<1>7. AtLeast(0, opts["--health-interval-sec"]) >= 0
    BY <1>1, <1>2, AtLeastBounds DEF Waits
<1> HIDE DEF min
<1> QED
    BY <1>1, <1>3, <1>4, <1>5, <1>6, <1>7 DEF InRange

\* A finite set of numbers that is not empty has a largest one.  Otherwise a smallest
\* subset without one would have an element more than one that has one.
LEMMA MaxOfFinite ==
    ASSUME NEW S, IsFiniteSet(S), S \subseteq Int, S # {}
    PROVE  Max(S) \in S /\ \A y \in S : Max(S) >= y
<1> DEFINE HasMax(U) == \E x \in U : \A y \in U : x >= y
           Lacking == {U \in SUBSET S : U # {} /\ ~HasMax(U)}
<1>1. ASSUME Lacking # {} PROVE FALSE
    <2> DEFINE R == StrictSubsetOrdering(S)
    <2>1. IsWellFoundedOn(R, FiniteSubsetsOf(S))
        BY FS_StrictSubsetOrderingWellFounded
    <2>2. Lacking \subseteq FiniteSubsetsOf(S)
        BY FS_FiniteSubsetsOfFinite
    <2> HIDE DEF R, Lacking
    <2>3. PICK U \in Lacking : \A V \in Lacking : <<V, U>> \notin R
        BY <1>1, <2>1, <2>2, WFMin
    <2>4. U \in SUBSET S /\ U # {} /\ ~HasMax(U)
        BY DEF Lacking
    <2>5. PICK x : x \in U
        BY <2>4
    <2> DEFINE V == U \ {x}
    <2>6. V \in SUBSET S /\ V \subseteq U /\ V # U
        BY <2>4, <2>5
    <2>7. <<V, U>> \in R
        BY <2>4, <2>6 DEF R, StrictSubsetOrdering
    <2>8. V = {} \/ HasMax(V)
        BY <2>3, <2>6, <2>7 DEF Lacking
    <2>9. \A y \in U : y \in Int /\ (y = x \/ y \in V)
        BY <2>4
    <2>10. CASE V = {}
        BY <2>4, <2>5, <2>9, <2>10
    <2>11. CASE HasMax(V)
        <3>1. PICK z \in V : \A y \in V : z >= y
            BY <2>11
        <3>2. z \in Int /\ z \in U /\ x \in Int
            BY <2>5, <2>6, <2>9
        <3>3. CASE z >= x
            BY <2>4, <2>9, <3>1, <3>2, <3>3
        <3>4. CASE x >= z
            <4>1. \A y \in U : x >= y
                BY <2>9, <3>1, <3>2, <3>4
            <4> QED
                BY <2>4, <2>5, <4>1
        <3> QED
            BY <3>2, <3>3, <3>4
    <2> QED
        BY <2>8, <2>10, <2>11
<1>2. HasMax(S)
    BY <1>1
<1> QED
    BY <1>2 DEF Max

\* So what holds of 0 and goes on from each number to the next holds up to n.
LEMMA CountingUp ==
    ASSUME NEW n \in Nat, NEW T, 0 \in T, \A k \in 0 .. n - 1 : k \in T => k + 1 \in T
    PROVE  \A k \in 0 .. n : k \in T
<1> DEFINE S == {k \in 0 .. n : \A j \in 0 .. k : j \in T}
<1>1. IsFiniteSet(0 .. n)
    BY FS_Interval
<1>2. IsFiniteSet(S)
    BY <1>1, FS_Subset
<1>3. 0 \in S
    OBVIOUS
<1>4. Max(S) \in S /\ \A k \in S : Max(S) >= k
    <2>1. S \subseteq Int /\ S # {}
        BY <1>3
    <2> HIDE DEF S
    <2> QED
        BY <1>2, <2>1, MaxOfFinite
<1>5. PICK m \in S : \A k \in S : m >= k
    BY <1>4
<1>6. m \in 0 .. n /\ \A j \in 0 .. m : j \in T
    OBVIOUS
<1>7. ASSUME m < n PROVE FALSE
    <2>1. m + 1 \in T
        BY <1>6, <1>7
    <2>2. \A j \in 0 .. m + 1 : j \in 0 .. m \/ j = m + 1
        BY <1>6
    <2>3. m + 1 \in S
        BY <1>6, <1>7, <2>1, <2>2
    <2> QED
        BY <1>5, <1>6, <2>3
<1> QED
    BY <1>6, <1>7

-----------------------------------------------------------------------------
\* The loop of parse_options(), after each number of words.
Trace(argv) ==
    CHOOSE after :
        after = [n \in 0 .. Len(argv) |->
                    IF n = 0 THEN Untouched ELSE ParseWord(after[n - 1], argv[n])]

\* It begins with the defaults, goes on word by word, and Parsed is where it ends.
LEMMA TraceSteps ==
    ASSUME NEW argv, Len(argv) \in Nat
    PROVE  /\ Trace(argv)[0] = Untouched
           /\ \A n \in 1 .. Len(argv) : Trace(argv)[n] = ParseWord(Trace(argv)[n - 1], argv[n])
           /\ Parsed(argv) = Trace(argv)[Len(argv)]
<1> DEFINE Entry(f, n) == IF n = 0 THEN Untouched ELSE ParseWord(f[n - 1], argv[n])
           IsTrace(f, m) == f = [n \in 0 .. m |-> Entry(f, n)]
           T == {m \in 0 .. Len(argv) : \E f : IsTrace(f, m)}
<1>1. 0 \in T
    <2> DEFINE f == [n \in 0 .. 0 |-> Untouched]
    <2>1. \A n \in 0 .. 0 : n = 0
        OBVIOUS
    <2>2. IsTrace(f, 0)
        BY <2>1
    <2> HIDE DEF f, IsTrace
    <2> QED
        BY <2>2
<1>2. ASSUME NEW m \in 0 .. Len(argv) - 1, m \in T
      PROVE  m + 1 \in T
    <2>1. PICK f : IsTrace(f, m)
        BY <1>2
    <2> DEFINE g == [n \in 0 .. m + 1 |->
                        IF n = m + 1 THEN ParseWord(f[m], argv[m + 1]) ELSE f[n]]
    <2>2. \A n \in 0 .. m : f[n] = Entry(f, n) /\ g[n] = f[n]
        <3> HIDE DEF Entry
        <3> QED
            BY <2>1
    <2>3. ASSUME NEW n \in 0 .. m + 1 PROVE g[n] = Entry(g, n)
        <3>1. CASE n = 0
            <4>1. Entry(f, 0) = Untouched /\ 0 \in 0 .. m
                OBVIOUS
            <4>2. f[0] = Untouched /\ g[0] = f[0]
                <5> HIDE DEF g, Entry
                <5> QED
                    BY <2>2, <4>1
            <4> HIDE DEF g
            <4> QED
                BY <3>1, <4>2
        <3>2. CASE n \in 1 .. m
            <4>1. n - 1 \in 0 .. m /\ n \in 0 .. m /\ n # 0
                BY <3>2
            <4>2. g[n] = Entry(f, n) /\ g[n - 1] = f[n - 1]
                BY <2>2, <4>1
            <4> HIDE DEF g
            <4> QED
                BY <4>1, <4>2
        <3>3. CASE n = m + 1
            <4>1. n - 1 = m /\ n # 0 /\ m \in 0 .. m
                BY <3>3
            <4>2. g[n] = ParseWord(f[m], argv[m + 1]) /\ g[m] = f[m]
                BY <2>2, <3>3, <4>1
            <4> HIDE DEF g
            <4> QED
                BY <3>3, <4>1, <4>2
        <3> QED
            BY <3>1, <3>2, <3>3
    <2>4. g = [n \in 0 .. m + 1 |-> g[n]]
        OBVIOUS
    <2>5. IsTrace(g, m + 1)
        <3> HIDE DEF g, Entry
        <3>1. [n \in 0 .. m + 1 |-> g[n]] = [n \in 0 .. m + 1 |-> Entry(g, n)]
            BY <2>3
        <3> QED
            BY <2>4, <3>1, Zenon
    <2> HIDE DEF g, IsTrace
    <2> QED
        BY <2>5
<1>3. \E f : IsTrace(f, Len(argv))
    <2> HIDE DEF IsTrace
    <2>1. \A k \in 0 .. Len(argv) : k \in T
        <3> HIDE DEF T
        <3> QED
            BY <1>1, <1>2, CountingUp
    <2> QED
        BY <2>1
<1>4. IsTrace(Trace(argv), Len(argv))
    <2> DEFINE f == CHOOSE f : IsTrace(f, Len(argv))
    <2>1. IsTrace(f, Len(argv))
        <3> HIDE DEF IsTrace
        <3> QED
            BY <1>3, Zenon
    <2>2. f = Trace(argv)
        BY Zenon DEF Trace
    <2> QED
        BY <2>1, <2>2, Zenon
<1>5. Parsed(argv) = Trace(argv)[Len(argv)]
    BY Zenon DEF Parsed, Trace
<1>6. \A n \in 0 .. Len(argv) : Trace(argv)[n] = Entry(Trace(argv), n)
    <2> HIDE DEF Entry
    <2> QED
        BY <1>4
<1> HIDE DEF IsTrace, T
<1> QED
    BY <1>5, <1>6

-----------------------------------------------------------------------------

Keys == Named \cup Flags

\* What the members of ServerOptions hold: a port of 16 bits, and numbers.
Fits(option, value) ==
    /\ option \in IntOptions \cup RealOptions => value \in Int
    /\ option = "--tcp-port" => value >= 0 /\ value < 65536
WellTyped(opts) ==
    /\ opts = [option \in Keys |-> opts[option]]
    /\ \A option \in Keys : Fits(option, opts[option])

\* What the loop holds after any word.
ParseOK(p) ==
    /\ DOMAIN p = {"opts", "named", "at", "waits", "end"}
    /\ WellTyped(p.opts)
    /\ p.waits \in Named \cup {"none"} /\ p.end \in {"none", "usage", "throws"}

\* No option is of two kinds.
LEMMA Kinds ==
    /\ Named \cap Flags = {} /\ TextOptions \cap (IntOptions \cup RealOptions \cup Flags) = {}
    /\ "--tcp-port" \in IntOptions /\ "--video" \in TextOptions /\ "none" \notin Keys
    /\ Keys \cap Help = {}
BY DEF Keys, Named, TextOptions, IntOptions, RealOptions, Waits, Boxes, Flags, Help

LEMMA DefaultsTyped == WellTyped(Defaults)
<1>1. /\ Default("--tcp-port") = 9000
      /\ Default("--tcp-retry-ms") = 2000
      /\ Default("--rtsp-retry-min-ms") = 1000
      /\ Default("--rtsp-retry-max-ms") = 10000
      /\ Default("--health-interval-sec") = 0
      /\ Default("--person-conf") = 92 /\ Default("--rod-conf") = 88
    BY DEF Default, Flags
<1>2. /\ Default("--person-cx") = 36 /\ Default("--rod-cx") = 38
      /\ Default("--person-cy") = 38 /\ Default("--rod-cy") = 40
      /\ Default("--person-w") = 30 /\ Default("--rod-w") = 28
      /\ Default("--person-h") = 44 /\ Default("--rod-h") = 13
    BY DEF Default, Flags
<1>3. \A option \in IntOptions \cup RealOptions : Default(option) \in Int
    BY <1>1, <1>2 DEF IntOptions, RealOptions, Boxes, Waits
<1>4. Default("--tcp-port") >= 0 /\ Default("--tcp-port") < 65536
    BY <1>1
<1>5. Defaults = [option \in Keys |-> Default(option)]
    BY DEF Defaults, Keys
<1> QED
    BY <1>3, <1>4, <1>5 DEF WellTyped, Fits

LEMMA AssignTyped ==
    ASSUME NEW opts, WellTyped(opts), NEW option \in Keys, NEW value, Fits(option, value)
    PROVE  WellTyped(Assign(opts, option, value))
<1> DEFINE next == Assign(opts, option, value)
<1>1. opts = [o \in Keys |-> opts[o]]
    BY DEF WellTyped
<1>2. next = [o \in Keys |-> IF o = option THEN value ELSE opts[o]]
    BY <1>1 DEF Assign
<1> HIDE DEF next
<1>3. next = [o \in Keys |-> next[o]]
    BY <1>2
<1>4. \A o \in Keys : Fits(o, next[o])
    <2>1. \A o \in Keys : Fits(o, opts[o])
        BY DEF WellTyped
    <2> QED
        BY <1>2, <2>1
<1> QED
    BY <1>3, <1>4 DEF WellTyped, next

LEMMA UntouchedOK == ParseOK(Untouched)
BY DefaultsTyped DEF ParseOK, Untouched

\* The value of an option, whichever it is.
LEMMA TakeValueOK ==
    ASSUME NEW p, ParseOK(p), NEW option \in Named, NEW word
    PROVE  /\ ParseOK(TakeValue(p, option, word))
           /\ TakeValue(p, option, word).waits = p.waits
<1>1. CASE option \in TextOptions
    <2>1. Fits(option, word) /\ option \in Keys
        <3>1. option \notin IntOptions \cup RealOptions /\ option # "--tcp-port"
            BY <1>1, Kinds, Zenon
        <3> QED
            BY <3>1 DEF Fits, Keys
    <2>2. WellTyped(Assign(p.opts, option, word))
        BY <2>1, AssignTyped DEF ParseOK
    <2>3. TakeValue(p, option, word) = [p EXCEPT !.opts = Assign(p.opts, option, word)]
        BY <1>1 DEF TakeValue
    <2> QED
        BY <2>2, <2>3 DEF ParseOK
<1>2. CASE option \notin TextOptions /\ word \notin DOMAIN Number
    <2>1. TakeValue(p, option, word) = [p EXCEPT !.end = "throws"]
        BY <1>2 DEF TakeValue
    <2> QED
        BY <2>1 DEF ParseOK
<1>3. CASE option \notin TextOptions /\ word \in DOMAIN Number
    <2> DEFINE value == IF option = "--tcp-port" THEN PortOf(Number[word]) ELSE Number[word]
    <2>1. Number[word] \in Int
        BY <1>3, NumberAssumption
    <2>2. PortOf(Number[word]) \in Int /\ PortOf(Number[word]) >= 0 /\ PortOf(Number[word]) < 65536
        BY <2>1 DEF PortOf
    <2>3. option \in Keys
        BY DEF Keys
    <2>4. Fits(option, value)
        BY <2>1, <2>2 DEF Fits
    <2>5. TakeValue(p, option, word) = [p EXCEPT !.opts = Assign(p.opts, option, value)]
        BY <1>3 DEF TakeValue
    <2> HIDE DEF value
    <2>6. WellTyped(Assign(p.opts, option, value))
        BY <2>3, <2>4, AssignTyped DEF ParseOK
    <2> QED
        BY <2>5, <2>6 DEF ParseOK
<1> QED
    BY <1>1, <1>2, <1>3

\* One word, by what it is.  The value an option waits for;
LEMMA ValueWord ==
    ASSUME NEW p, ParseOK(p), NEW word, p.end = "none", p.waits # "none"
    PROVE  ParseWord(p, word) =
               [TakeValue([p EXCEPT !.at = p.at + 1], p.waits, word) EXCEPT !.waits = "none"]
BY DEF ParseWord

\* an option that takes a value;
LEMMA NamedWord ==
    ASSUME NEW p, ParseOK(p), NEW word \in Named, p.end = "none", p.waits = "none"
    PROVE  ParseWord(p, word) = [p EXCEPT !.at = p.at + 1, !.waits = word, !.named = TRUE]
<1>1. ParseWord(p, word) = [[p EXCEPT !.at = p.at + 1] EXCEPT !.waits = word, !.named = TRUE]
    BY Kinds DEF ParseWord
<1> QED
    BY <1>1 DEF ParseOK

\* a flag;
LEMMA FlagWord ==
    ASSUME NEW p, ParseOK(p), NEW word \in Flags, p.end = "none", p.waits = "none"
    PROVE  ParseWord(p, word) =
               [p EXCEPT !.at = p.at + 1, !.opts = Assign(p.opts, word, TRUE), !.named = TRUE]
<1>1. ParseWord(p, word) =
          [[p EXCEPT !.at = p.at + 1] EXCEPT !.opts = Assign(p.opts, word, TRUE), !.named = TRUE]
    BY Kinds DEF ParseWord, ParseOK
<1> QED
    BY <1>1 DEF ParseOK

\* and any other, which once an option was read, or a dash begins it, is an error.
LEMMA OtherWord ==
    ASSUME NEW p, ParseOK(p), NEW word, word \notin Keys, p.end = "none", p.waits = "none"
    PROVE  \/ ParseWord(p, word) = [p EXCEPT !.end = "usage"]
           \/ /\ ~p.named
              /\ \E option \in {"--tcp-port", "--video"} :
                    ParseWord(p, word) = TakeValue([p EXCEPT !.at = p.at + 1], option, word)
<1>1. ParseWord(p, word) =
          IF word \in Dashed \cup Help \/ p.named \/ p.at > 2 THEN [p EXCEPT !.end = "usage"]
          ELSE TakeValue([p EXCEPT !.at = p.at + 1],
                         IF p.at = 1 THEN "--tcp-port" ELSE "--video", word)
    BY DEF ParseWord, Keys
<1> QED
    BY <1>1

\* No word takes the loop out of its type.
LEMMA WordOK ==
    ASSUME NEW p, ParseOK(p), NEW word
    PROVE  ParseOK(ParseWord(p, word))
<1> DEFINE q == [p EXCEPT !.at = p.at + 1]
<1>1. ParseOK(q)
    BY DEF ParseOK
<1>2. CASE p.end # "none"
    <2>1. ParseWord(p, word) = p
        BY <1>2 DEF ParseWord
    <2> QED
        BY <2>1
<1>3. CASE p.end = "none" /\ p.waits # "none"
    <2>1. p.waits \in Named
        BY <1>3 DEF ParseOK
    <2>2. ParseOK(TakeValue(q, p.waits, word))
        BY <1>1, <2>1, TakeValueOK
    <2>3. ParseWord(p, word) = [TakeValue(q, p.waits, word) EXCEPT !.waits = "none"]
        BY <1>3, ValueWord
    <2> DEFINE r == TakeValue(q, p.waits, word)
    <2> HIDE DEF r
    <2>4. ParseOK([r EXCEPT !.waits = "none"])
        BY <2>2 DEF ParseOK, r
    <2> QED
        BY <2>3, <2>4 DEF r
<1>4. CASE p.end = "none" /\ p.waits = "none" /\ word \in Named
    <2> DEFINE r == [p EXCEPT !.at = p.at + 1, !.waits = word, !.named = TRUE]
    <2>1. ParseOK(r)
        BY <1>4 DEF ParseOK
    <2>2. ParseWord(p, word) = r
        BY <1>4, NamedWord
    <2> QED
        BY <2>1, <2>2
<1>5. CASE p.end = "none" /\ p.waits = "none" /\ word \in Flags
    <2>1. Fits(word, TRUE) /\ word \in Keys
        <3>1. word \in Keys /\ word \notin Named
            BY <1>5, Kinds DEF Keys
        <3>2. word \notin IntOptions \cup RealOptions /\ word # "--tcp-port"
            BY <3>1, Kinds DEF Named
        <3>3. \A value : Fits(word, value)
            BY <3>2 DEF Fits
        <3> QED
            BY <3>1, <3>3
    <2>2. WellTyped(Assign(p.opts, word, TRUE))
        BY <2>1, AssignTyped DEF ParseOK
    <2> DEFINE r == [p EXCEPT !.at = p.at + 1, !.opts = Assign(p.opts, word, TRUE),
                              !.named = TRUE]
    <2>3. ParseOK(r)
        BY <1>5, <2>2 DEF ParseOK
    <2>4. ParseWord(p, word) = r
        BY <1>5, FlagWord
    <2> QED
        BY <2>3, <2>4
<1>6. CASE p.end = "none" /\ p.waits = "none" /\ word \notin Keys
    <2>1. CASE ParseWord(p, word) = [p EXCEPT !.end = "usage"]
        BY <2>1 DEF ParseOK
    <2>2. ASSUME NEW option \in {"--tcp-port", "--video"},
                 ParseWord(p, word) = TakeValue(q, option, word)
          PROVE  ParseOK(ParseWord(p, word))
        <3>1. option \in Named
            BY Kinds DEF Named
        <3> QED
            BY <1>1, <2>2, <3>1, TakeValueOK
    <2> QED
        BY <1>6, <2>1, <2>2, OtherWord
<1> QED
    BY <1>2, <1>3, <1>4, <1>5, <1>6 DEF Keys

\* So the whole loop stays in it.
LEMMA TraceOK ==
    ASSUME NEW argv, Len(argv) \in Nat
    PROVE  \A n \in 0 .. Len(argv) : ParseOK(Trace(argv)[n])
<1> DEFINE T == {n \in 0 .. Len(argv) : ParseOK(Trace(argv)[n])}
<1>1. 0 \in T
    BY TraceSteps, UntouchedOK
<1>2. ASSUME NEW k \in 0 .. Len(argv) - 1, k \in T PROVE k + 1 \in T
    <2>1. k + 1 \in 1 .. Len(argv) /\ (k + 1) - 1 = k
        OBVIOUS
    <2>2. Trace(argv)[k + 1] = ParseWord(Trace(argv)[k], argv[k + 1])
        BY <2>1, TraceSteps
    <2>3. ParseOK(Trace(argv)[k + 1])
        BY <1>2, <2>2, WordOK
    <2> QED
        BY <2>1, <2>3
<1> HIDE DEF T
<1>3. \A k \in 0 .. Len(argv) : k \in T
    BY <1>1, <1>2, CountingUp
<1> QED
    BY <1>3 DEF T

\* The bounds at the end keep the types.
LEMMA ClampTyped ==
    ASSUME NEW opts, WellTyped(opts)
    PROVE  WellTyped(Clamp(opts)) /\ InRange(Clamp(opts))
<1> DEFINE min == AtLeast(MinWait, opts["--rtsp-retry-min-ms"])
           max == AtLeast(min, opts["--rtsp-retry-max-ms"])
           tcp == AtLeast(MinWait, opts["--tcp-retry-ms"])
           health == AtLeast(0, opts["--health-interval-sec"])
           mid == Assign(Assign(opts, "--tcp-retry-ms", tcp), "--rtsp-retry-min-ms", min)
           next == Assign(Assign(mid, "--rtsp-retry-max-ms", max), "--health-interval-sec", health)
<1>1. Waits \subseteq Keys /\ Waits \subseteq IntOptions /\ "--tcp-port" \notin Waits
    BY DEF Waits, Keys, Named, IntOptions
<1>2. \A wait \in Waits : opts[wait] \in Int
    BY <1>1 DEF WellTyped, Fits
<1>3. min \in Int /\ tcp \in Int /\ health \in Int /\ MinWait \in Int
    <2>1. MinWait \in Int /\ 0 \in Int
        BY DEF MinWait
    <2> QED
        BY <1>2, <2>1, AtLeastBounds DEF Waits
<1>4. max \in Int
    <2> HIDE DEF min
    <2> QED
        BY <1>2, <1>3, AtLeastBounds DEF Waits
<1> HIDE DEF min, max, tcp, health
<1>5. \A wait \in Waits : \A value \in Int : Fits(wait, value)
    <2> SUFFICES ASSUME NEW wait \in Waits, NEW value \in Int PROVE Fits(wait, value)
        OBVIOUS
    <2>1. wait # "--tcp-port"
        BY <1>1
    <2> QED
        BY <2>1 DEF Fits
<1>6. /\ Fits("--tcp-retry-ms", tcp) /\ Fits("--rtsp-retry-min-ms", min)
      /\ Fits("--rtsp-retry-max-ms", max) /\ Fits("--health-interval-sec", health)
      /\ {"--tcp-retry-ms", "--rtsp-retry-min-ms", "--rtsp-retry-max-ms", "--health-interval-sec"}
             \subseteq Keys
    BY <1>1, <1>3, <1>4, <1>5 DEF Waits
<1>7. WellTyped(mid)
    <2>1. WellTyped(Assign(opts, "--tcp-retry-ms", tcp))
        BY <1>6, AssignTyped
    <2> QED
        BY <1>6, <2>1, AssignTyped
<1>8. WellTyped(next)
    <2> HIDE DEF mid
    <2>1. WellTyped(Assign(mid, "--rtsp-retry-max-ms", max))
        BY <1>6, <1>7, AssignTyped
    <2> QED
        BY <1>6, <2>1, AssignTyped
<1>9. Clamp(opts) = next
    <2>1. opts = [o \in Keys |-> opts[o]]
        BY DEF WellTyped
    <2>2. Clamp(opts) = [opts EXCEPT !["--tcp-retry-ms"] = tcp, !["--rtsp-retry-min-ms"] = min,
                                     !["--rtsp-retry-max-ms"] = max, !["--health-interval-sec"] = health]
        BY <1>6, <2>1 DEF Clamp, tcp, min, max, health
    <2> QED
        BY <2>2 DEF Assign
<1>10. InRange(Clamp(opts))
    <2> DEFINE Values == {opts[k] : k \in Keys}
    <2>1. opts \in [Keys -> Values]
        BY DEF WellTyped
    <2> HIDE DEF Values
    <2> QED
        BY <1>1, <1>2, <2>1, ClampInRange
<1> QED
    BY <1>8, <1>9, <1>10

\* main.cpp:87-178: whatever words the command line has, the members of ServerOptions
\* hold numbers where numbers are asked for, the port is one of 16 bits, and the waits
\* are in range, the backoff's bounds in order.
THEOREM OptionsInRange ==
    ASSUME NEW argv, Len(argv) \in Nat
    PROVE  WellTyped(Options(argv)) /\ InRange(Options(argv))
<1>1. ParseOK(Trace(argv)[Len(argv)])
    BY TraceOK
<1>2. WellTyped(Parsed(argv).opts)
    BY <1>1, TraceSteps DEF ParseOK
<1> QED
    BY <1>2, ClampTyped DEF Options

-----------------------------------------------------------------------------
\* Two loops that read the same words, from p0 and from q0, agree on what is expected
\* next, and on each option either both have it from these words, of which K are those
\* that name an option, or both have it from where they began.
Alike(p0, p, q0, q, K) ==
    /\ p.named = TRUE /\ q.named = TRUE
    /\ p.waits = q.waits /\ p.waits \in K \cup {"none"}
    /\ p.end = q.end
    /\ \A option \in Keys :
          \/ option \in K /\ p.opts[option] = q.opts[option]
          \/ p.opts[option] = p0.opts[option] /\ q.opts[option] = q0.opts[option]

LEMMA AssignApplied ==
    ASSUME NEW opts, WellTyped(opts), NEW option, NEW value, NEW o \in Keys
    PROVE  Assign(opts, option, value)[o] = IF o = option THEN value ELSE opts[o]
BY DEF WellTyped, Assign

LEMMA WordAlike ==
    ASSUME NEW p0, NEW p, NEW q0, NEW q, NEW K, Alike(p0, p, q0, q, K), ParseOK(p), ParseOK(q),
           K \subseteq Keys, NEW word, word \in Keys => word \in K
    PROVE  Alike(p0, ParseWord(p, word), q0, ParseWord(q, word), K)
<1> DEFINE r == ParseWord(p, word)
           s == ParseWord(q, word)
<1>1. \A option \in Keys :
          \/ option \in K /\ p.opts[option] = q.opts[option]
          \/ p.opts[option] = p0.opts[option] /\ q.opts[option] = q0.opts[option]
    BY DEF Alike
<1>2. WellTyped(p.opts) /\ WellTyped(q.opts)
    BY DEF ParseOK
<1>3. CASE p.end # "none"
    <2>1. r = p /\ s = q
        BY <1>3 DEF ParseWord, Alike
    <2> QED
        BY <2>1
<1>4. CASE p.end = "none" /\ p.waits # "none"
    <2> DEFINE option == p.waits
               a == [p EXCEPT !.at = p.at + 1]
               b == [q EXCEPT !.at = q.at + 1]
    <2>1. option \in K /\ option \in Named /\ q.waits = option /\ q.end = "none"
        BY <1>4 DEF Alike, ParseOK
    <2>2. r = [TakeValue(a, option, word) EXCEPT !.waits = "none"]
        BY <1>4, ValueWord
    <2>3. s = [TakeValue(b, option, word) EXCEPT !.waits = "none"]
        <3>1. s = [TakeValue(b, q.waits, word) EXCEPT !.waits = "none"]
            BY <1>4, <2>1, ValueWord
        <3> QED
            BY <2>1, <3>1
    <2>4. /\ DOMAIN a = DOMAIN p /\ DOMAIN b = DOMAIN q
          /\ a.opts = p.opts /\ a.named = p.named /\ a.end = p.end
          /\ b.opts = q.opts /\ b.named = q.named /\ b.end = q.end
        BY DEF ParseOK
    <2>5. CASE option \notin TextOptions /\ word \notin DOMAIN Number
        <3>1. /\ TakeValue(a, option, word) = [a EXCEPT !.end = "throws"]
              /\ TakeValue(b, option, word) = [b EXCEPT !.end = "throws"]
            BY <2>5 DEF TakeValue
        <3> HIDE DEF a, b, r, s, option
        <3>2. /\ r.opts = p.opts /\ r.named = p.named /\ r.waits = "none" /\ r.end = "throws"
              /\ s.opts = q.opts /\ s.named = q.named /\ s.waits = "none" /\ s.end = "throws"
            BY <2>2, <2>3, <2>4, <3>1 DEF ParseOK
        <3> QED
            BY <3>2 DEF Alike, r, s
    <2>6. CASE option \in TextOptions \/ word \in DOMAIN Number
        <3> DEFINE value == IF option \in TextOptions THEN word
                            ELSE IF option = "--tcp-port" THEN PortOf(Number[word]) ELSE Number[word]
        <3>1. /\ TakeValue(a, option, word) = [a EXCEPT !.opts = Assign(a.opts, option, value)]
              /\ TakeValue(b, option, word) = [b EXCEPT !.opts = Assign(b.opts, option, value)]
            BY <2>6 DEF TakeValue
        <3> HIDE DEF a, b, r, s, option, value
        <3>2. /\ r.opts = Assign(p.opts, option, value) /\ r.named = p.named
              /\ r.waits = "none" /\ r.end = p.end
              /\ s.opts = Assign(q.opts, option, value) /\ s.named = q.named
              /\ s.waits = "none" /\ s.end = q.end
            BY <2>2, <2>3, <2>4, <3>1 DEF ParseOK
        <3>3. \A o \in Keys : \/ o \in K /\ r.opts[o] = s.opts[o]
                              \/ r.opts[o] = p0.opts[o] /\ s.opts[o] = q0.opts[o]
            <4> SUFFICES ASSUME NEW o \in Keys
                         PROVE  \/ o \in K /\ r.opts[o] = s.opts[o]
                                \/ r.opts[o] = p0.opts[o] /\ s.opts[o] = q0.opts[o]
                OBVIOUS
            <4>1. Assign(p.opts, option, value)[o] = IF o = option THEN value ELSE p.opts[o]
                BY <1>2, AssignApplied
            <4>2. Assign(q.opts, option, value)[o] = IF o = option THEN value ELSE q.opts[o]
                BY <1>2, AssignApplied
            <4>3. \/ o \in K /\ p.opts[o] = q.opts[o]
                  \/ p.opts[o] = p0.opts[o] /\ q.opts[o] = q0.opts[o]
                BY <1>1
            <4> QED
                BY <2>1, <3>2, <4>1, <4>2, <4>3
        <3> QED
            BY <3>2, <3>3 DEF Alike, r, s
    <2> QED
        BY <2>5, <2>6
<1>5. CASE p.end = "none" /\ p.waits = "none" /\ word \in Named
    <2>1. word \in K /\ q.end = "none" /\ q.waits = "none"
        BY <1>5 DEF Alike, Keys
    <2>2. /\ r = [p EXCEPT !.at = p.at + 1, !.waits = word, !.named = TRUE]
          /\ s = [q EXCEPT !.at = q.at + 1, !.waits = word, !.named = TRUE]
        BY <1>5, <2>1, NamedWord
    <2> HIDE DEF r, s
    <2>3. /\ r.opts = p.opts /\ r.named = TRUE /\ r.waits = word /\ r.end = p.end
          /\ s.opts = q.opts /\ s.named = TRUE /\ s.waits = word /\ s.end = q.end
        BY <2>2 DEF ParseOK
    <2> QED
        BY <2>1, <2>3 DEF Alike, r, s
<1>6. CASE p.end = "none" /\ p.waits = "none" /\ word \in Flags
    <2>1. word \in K /\ q.end = "none" /\ q.waits = "none"
        BY <1>6 DEF Alike, Keys
    <2>2. /\ r = [p EXCEPT !.at = p.at + 1, !.opts = Assign(p.opts, word, TRUE), !.named = TRUE]
          /\ s = [q EXCEPT !.at = q.at + 1, !.opts = Assign(q.opts, word, TRUE), !.named = TRUE]
        BY <1>6, <2>1, FlagWord
    <2> HIDE DEF r, s
    <2>3. /\ r.opts = Assign(p.opts, word, TRUE) /\ r.named = TRUE
          /\ r.waits = p.waits /\ r.end = p.end
          /\ s.opts = Assign(q.opts, word, TRUE) /\ s.named = TRUE
          /\ s.waits = q.waits /\ s.end = q.end
        BY <2>2 DEF ParseOK
    <2>4. \A o \in Keys : \/ o \in K /\ r.opts[o] = s.opts[o]
                          \/ r.opts[o] = p0.opts[o] /\ s.opts[o] = q0.opts[o]
        <3> SUFFICES ASSUME NEW o \in Keys
                     PROVE  \/ o \in K /\ r.opts[o] = s.opts[o]
                            \/ r.opts[o] = p0.opts[o] /\ s.opts[o] = q0.opts[o]
            OBVIOUS
        <3>1. PICK value : value = TRUE
            OBVIOUS
        <3>2. r.opts = Assign(p.opts, word, value) /\ s.opts = Assign(q.opts, word, value)
            BY <2>3, <3>1, Zenon
        <3>3. r.opts[o] = IF o = word THEN value ELSE p.opts[o]
            BY <1>2, <3>2, AssignApplied
        <3>4. s.opts[o] = IF o = word THEN value ELSE q.opts[o]
            BY <1>2, <3>2, AssignApplied
        <3> QED
            BY <1>1, <2>1, <3>3, <3>4
    <2> QED
        BY <2>3, <2>4 DEF Alike, r, s
<1>7. CASE p.end = "none" /\ p.waits = "none" /\ word \notin Keys
    <2>1. q.end = "none" /\ q.waits = "none" /\ p.named /\ q.named
        BY <1>7 DEF Alike
    <2>2. r = [p EXCEPT !.end = "usage"] /\ s = [q EXCEPT !.end = "usage"]
        BY <1>7, <2>1, OtherWord
    <2> HIDE DEF r, s
    <2>3. /\ r.opts = p.opts /\ r.named = p.named /\ r.waits = p.waits /\ r.end = "usage"
          /\ s.opts = q.opts /\ s.named = q.named /\ s.waits = q.waits /\ s.end = "usage"
        BY <2>2 DEF ParseOK
    <2> QED
        BY <2>3 DEF Alike, r, s
<1> QED
    BY <1>3, <1>4, <1>5, <1>6, <1>7 DEF Keys

\* The first word is an option: it makes two loops alike.
LEMMA FirstAlike ==
    ASSUME NEW p, NEW q, ParseOK(p), ParseOK(q), NEW K, K \subseteq Keys, NEW word \in K,
           p.end = "none", p.waits = "none", q.end = "none", q.waits = "none"
    PROVE  Alike(p, ParseWord(p, word), q, ParseWord(q, word), K)
<1> DEFINE r == ParseWord(p, word)
           s == ParseWord(q, word)
<1>1. CASE word \in Named
    <2>1. /\ r = [p EXCEPT !.at = p.at + 1, !.waits = word, !.named = TRUE]
          /\ s = [q EXCEPT !.at = q.at + 1, !.waits = word, !.named = TRUE]
        BY <1>1, NamedWord
    <2> HIDE DEF r, s
    <2>2. /\ r.opts = p.opts /\ r.named = TRUE /\ r.waits = word /\ r.end = p.end
          /\ s.opts = q.opts /\ s.named = TRUE /\ s.waits = word /\ s.end = q.end
        BY <2>1 DEF ParseOK
    <2> QED
        BY <2>2 DEF Alike, r, s
<1>2. CASE word \in Flags
    <2>1. /\ r = [p EXCEPT !.at = p.at + 1, !.opts = Assign(p.opts, word, TRUE), !.named = TRUE]
          /\ s = [q EXCEPT !.at = q.at + 1, !.opts = Assign(q.opts, word, TRUE), !.named = TRUE]
        BY <1>2, FlagWord
    <2> HIDE DEF r, s
    <2>2. /\ r.opts = Assign(p.opts, word, TRUE) /\ r.named = TRUE
          /\ r.waits = p.waits /\ r.end = p.end
          /\ s.opts = Assign(q.opts, word, TRUE) /\ s.named = TRUE
          /\ s.waits = q.waits /\ s.end = q.end
        BY <2>1 DEF ParseOK
    <2>3. ASSUME NEW o \in Keys
          PROVE  \/ o \in K /\ r.opts[o] = s.opts[o]
                 \/ r.opts[o] = p.opts[o] /\ s.opts[o] = q.opts[o]
        <3>1. PICK value : value = TRUE
            OBVIOUS
        <3>2. r.opts = Assign(p.opts, word, value) /\ s.opts = Assign(q.opts, word, value)
            BY <2>2, <3>1, Zenon
        <3>3. WellTyped(p.opts) /\ WellTyped(q.opts)
            BY DEF ParseOK
        <3>4. Assign(p.opts, word, value)[o] = IF o = word THEN value ELSE p.opts[o]
            BY <3>3, AssignApplied
        <3>5. Assign(q.opts, word, value)[o] = IF o = word THEN value ELSE q.opts[o]
            BY <3>3, AssignApplied
        <3> QED
            BY <3>2, <3>4, <3>5
    <2> QED
        BY <2>2, <2>3 DEF Alike, r, s
<1> QED
    BY <1>1, <1>2 DEF Keys

\* A loop over words from any state: runs[k] is where it is after k of
\* them, and last how many there are.
Run(words, last, runs) ==
    /\ \A k \in 0 .. last : ParseOK(runs[k])
    /\ \A k \in 1 .. last : runs[k] = ParseWord(runs[k - 1], words[k])

LEMMA RunAlike ==
    ASSUME NEW words, NEW last \in Nat \ {0}, NEW f, NEW g, Run(words, last, f), Run(words, last, g),
           f[0].end = "none", f[0].waits = "none", g[0].end = "none", g[0].waits = "none",
           NEW K, K \subseteq Keys, words[1] \in Keys,
           \A k \in 1 .. last : words[k] \in Keys => words[k] \in K
    PROVE  Alike(f[0], f[last], g[0], g[last], K)
<1> DEFINE T == {k \in 0 .. last - 1 : Alike(f[0], f[k + 1], g[0], g[k + 1], K)}
<1>1. 0 \in T
    <2>1. f[1] = ParseWord(f[0], words[1]) /\ g[1] = ParseWord(g[0], words[1])
        <3>1. 1 \in 1 .. last /\ 1 - 1 = 0
            OBVIOUS
        <3> QED
            BY <3>1 DEF Run
    <2>2. ParseOK(f[0]) /\ ParseOK(g[0]) /\ words[1] \in K
        BY DEF Run
    <2>3. Alike(f[0], ParseWord(f[0], words[1]), g[0], ParseWord(g[0], words[1]), K)
        BY <2>2, FirstAlike
    <2> QED
        BY <2>1, <2>3
<1>2. ASSUME NEW k \in 0 .. (last - 1) - 1, k \in T PROVE k + 1 \in T
    <2> DEFINE n == k + 1
    <2>1. n \in 0 .. last /\ n + 1 \in 1 .. last /\ (n + 1) - 1 = n /\ n \in 0 .. last - 1
        OBVIOUS
    <2>2. Alike(f[0], f[n], g[0], g[n], K)
        BY <1>2
    <2> HIDE DEF n
    <2>3. f[n + 1] = ParseWord(f[n], words[n + 1]) /\ g[n + 1] = ParseWord(g[n], words[n + 1])
        BY <2>1 DEF Run
    <2>4. ParseOK(f[n]) /\ ParseOK(g[n]) /\ (words[n + 1] \in Keys => words[n + 1] \in K)
        BY <2>1 DEF Run
    <2>5. Alike(f[0], ParseWord(f[n], words[n + 1]), g[0], ParseWord(g[n], words[n + 1]), K)
        BY <2>2, <2>4, WordAlike
    <2>6. Alike(f[0], f[n + 1], g[0], g[n + 1], K)
        BY <2>3, <2>5
    <2>7. n \in T
        BY <2>1, <2>6
    <2> QED
        BY <2>7 DEF n
<1>3. \A k \in 0 .. last - 1 : k \in T
    <2>1. last - 1 \in Nat
        OBVIOUS
    <2> HIDE DEF T
    <2> QED
        BY <1>1, <1>2, <2>1, CountingUp
<1>4. last - 1 \in T /\ (last - 1) + 1 = last
    BY <1>3
<1> QED
    BY <1>4

\* What is read first is not changed by what comes after.
LEMMA TracePrefix ==
    ASSUME NEW argv, Len(argv) \in Nat, NEW first, Len(first) \in Nat, Len(first) <= Len(argv),
           \A n \in 1 .. Len(first) : argv[n] = first[n]
    PROVE  \A n \in 0 .. Len(first) : Trace(argv)[n] = Trace(first)[n]
<1> DEFINE T == {n \in 0 .. Len(first) : Trace(argv)[n] = Trace(first)[n]}
<1>1. 0 \in T
    BY TraceSteps
<1>2. ASSUME NEW k \in 0 .. Len(first) - 1, k \in T PROVE k + 1 \in T
    <2>1. /\ k + 1 \in 1 .. Len(first) /\ k + 1 \in 1 .. Len(argv) /\ (k + 1) - 1 = k
          /\ k + 1 \in 0 .. Len(first)
        OBVIOUS
    <2>2. Trace(argv)[k + 1] = ParseWord(Trace(argv)[k], argv[k + 1])
        BY <2>1, TraceSteps
    <2>3. Trace(first)[k + 1] = ParseWord(Trace(first)[k], first[k + 1])
        BY <2>1, TraceSteps
    <2>4. Trace(argv)[k] = Trace(first)[k] /\ argv[k + 1] = first[k + 1]
        BY <1>2, <2>1
    <2>5. Trace(argv)[k + 1] = Trace(first)[k + 1]
        BY <2>2, <2>3, <2>4
    <2> QED
        BY <2>1, <2>5
<1> HIDE DEF T
<1>3. \A n \in 0 .. Len(first) : n \in T
    BY <1>1, <1>2, CountingUp
<1> QED
    BY <1>3 DEF T

\* Once the loop has ended it stays ended.
LEMMA EndStays ==
    ASSUME NEW argv, Len(argv) \in Nat, NEW m \in 0 .. Len(argv), Trace(argv)[m].end # "none"
    PROVE  Parsed(argv).end # "none"
<1> DEFINE T == {n \in 0 .. Len(argv) - m : Trace(argv)[m + n].end # "none"}
<1>1. 0 \in T
    OBVIOUS
<1>2. ASSUME NEW k \in 0 .. (Len(argv) - m) - 1, k \in T PROVE k + 1 \in T
    <2>1. /\ m + (k + 1) \in 1 .. Len(argv) /\ (m + (k + 1)) - 1 = m + k
          /\ k + 1 \in 0 .. Len(argv) - m
        OBVIOUS
    <2>2. Trace(argv)[m + (k + 1)] = ParseWord(Trace(argv)[m + k], argv[m + (k + 1)])
        BY <2>1, TraceSteps
    <2>3. Trace(argv)[m + k].end # "none"
        BY <1>2
    <2>4. Trace(argv)[m + (k + 1)] = Trace(argv)[m + k]
        BY <2>2, <2>3 DEF ParseWord
    <2> QED
        BY <2>1, <2>3, <2>4
<1>3. \A n \in 0 .. Len(argv) - m : n \in T
    <2>1. Len(argv) - m \in Nat
        OBVIOUS
    <2> HIDE DEF T
    <2> QED
        BY <1>1, <1>2, <2>1, CountingUp
<1>4. Trace(argv)[m + (Len(argv) - m)].end # "none" /\ m + (Len(argv) - m) = Len(argv)
    BY <1>3
<1> QED
    BY <1>4, TraceSteps

\* Each part of a command line is a run from where the part before it ended.
LEMMA Runs ==
    ASSUME NEW a, NEW b, NEW ab, Len(a) \in Nat, Len(b) \in Nat, Len(ab) = Len(a) + Len(b),
           \A n \in 1 .. Len(b) : ab[Len(a) + n] = b[n]
    PROVE  Run(b, Len(b), [k \in 0 .. Len(b) |-> Trace(ab)[Len(a) + k]])
<1> DEFINE runs == [k \in 0 .. Len(b) |-> Trace(ab)[Len(a) + k]]
<1>1. \A k \in 0 .. Len(b) : runs[k] = Trace(ab)[Len(a) + k] /\ Len(a) + k \in 0 .. Len(ab)
    OBVIOUS
<1> HIDE DEF runs
<1>2. \A k \in 0 .. Len(b) : ParseOK(runs[k])
    BY <1>1, TraceOK
<1>3. ASSUME NEW k \in 1 .. Len(b)
      PROVE  runs[k] = ParseWord(runs[k - 1], b[k])
    <2>1. /\ Len(a) + k \in 1 .. Len(ab) /\ (Len(a) + k) - 1 = Len(a) + (k - 1)
          /\ k \in 0 .. Len(b) /\ k - 1 \in 0 .. Len(b)
        OBVIOUS
    <2>2. Trace(ab)[Len(a) + k] = ParseWord(Trace(ab)[Len(a) + (k - 1)], ab[Len(a) + k])
        <3> DEFINE n == Len(a) + k
        <3>1. Len(ab) \in Nat /\ n \in 1 .. Len(ab) /\ n - 1 = Len(a) + (k - 1)
            BY <2>1
        <3> HIDE DEF n
        <3>2. Trace(ab)[n] = ParseWord(Trace(ab)[n - 1], ab[n])
            BY <3>1, TraceSteps
        <3> QED
            BY <3>1, <3>2 DEF n
    <2>3. runs[k] = Trace(ab)[Len(a) + k] /\ runs[k - 1] = Trace(ab)[Len(a) + (k - 1)]
        BY <1>1, <2>1
    <2> QED
        BY <2>2, <2>3
<1> QED
    BY <1>2, <1>3 DEF Run, runs

\* main.cpp:89-176: two parts of a command line that share no option may be swapped, if
\* the first is complete in itself and begins with an option: the same is accepted, and
\* every member of ServerOptions is the same.
THEOREM PartsMaySwap ==
    ASSUME NEW Words, NEW before \in Seq(Words), NEW behind \in Seq(Words),
           before # <<>>, behind # <<>>, before[1] \in Keys,
           Accepted(before \o behind), Accepted(before),
           Range(before) \cap Range(behind) \cap Keys = {}
    PROVE  Accepted(behind \o before) /\ Options(behind \o before) = Options(before \o behind)
<1> DEFINE m == Len(before)
           n == Len(behind)
           ab == before \o behind
           ba == behind \o before
           Kb == Range(before) \cap Keys
           Kh == Range(behind) \cap Keys
           fromB == [k \in 0 .. n |-> Trace(ab)[m + k]]
           fromH == [k \in 0 .. m |-> Trace(ba)[n + k]]
<1>1. m \in Nat \ {0} /\ n \in Nat \ {0}
    OBVIOUS
<1>2. /\ Len(ab) = m + n /\ Len(ba) = n + m
      /\ \A k \in 1 .. m : ab[k] = before[k] /\ ba[n + k] = before[k]
      /\ \A k \in 1 .. n : ba[k] = behind[k] /\ ab[m + k] = behind[k]
    OBVIOUS
<1>3. /\ \A k \in 1 .. m : before[k] \in Keys => before[k] \in Kb
      /\ \A k \in 1 .. n : behind[k] \in Keys => behind[k] \in Kh
      /\ Kb \subseteq Keys /\ Kh \subseteq Keys /\ Kb \cap Kh = {}
    BY DEF Range
<1> HIDE DEF m, n, ab, ba, Kb, Kh
<1>4. /\ \A k \in 0 .. m : Trace(ab)[k] = Trace(before)[k]
      /\ \A k \in 0 .. n : Trace(ba)[k] = Trace(behind)[k]
    <2>1. /\ Len(before) \in Nat /\ Len(behind) \in Nat /\ Len(ab) \in Nat /\ Len(ba) \in Nat
          /\ Len(before) <= Len(ab) /\ Len(behind) <= Len(ba)
        BY <1>1, <1>2 DEF m, n
    <2>2. /\ \A k \in 1 .. Len(before) : ab[k] = before[k]
          /\ \A k \in 1 .. Len(behind) : ba[k] = behind[k]
        BY <1>2 DEF m, n
    <2>3. \A k \in 0 .. Len(before) : Trace(ab)[k] = Trace(before)[k]
        BY <2>1, <2>2, TracePrefix
    <2>4. \A k \in 0 .. Len(behind) : Trace(ba)[k] = Trace(behind)[k]
        BY <2>1, <2>2, TracePrefix
    <2> QED
        BY <2>3, <2>4 DEF m, n
<1>5. Run(behind, n, fromB) /\ Run(before, m, fromH)
    <2>1. /\ Len(before) \in Nat /\ Len(behind) \in Nat
          /\ Len(ab) = Len(before) + Len(behind) /\ Len(ba) = Len(behind) + Len(before)
          /\ \A k \in 1 .. Len(behind) : ab[Len(before) + k] = behind[k]
          /\ \A k \in 1 .. Len(before) : ba[Len(behind) + k] = before[k]
        BY <1>1, <1>2 DEF m, n
    <2>2. Run(behind, Len(behind), [k \in 0 .. Len(behind) |-> Trace(ab)[Len(before) + k]])
        BY <2>1, Runs
    <2>3. Run(before, Len(before), [k \in 0 .. Len(before) |-> Trace(ba)[Len(behind) + k]])
        BY <2>1, Runs
    <2> QED
        BY <2>2, <2>3 DEF m, n
<1>6. Run(before, m, Trace(before)) /\ Run(behind, n, Trace(behind))
    BY <1>1, TraceSteps, TraceOK DEF Run, m, n
<1>7. /\ Trace(before)[0] = Untouched /\ Trace(behind)[0] = Untouched
      /\ Trace(before)[m] = Parsed(before) /\ Trace(behind)[n] = Parsed(behind)
      /\ Trace(ab)[m + n] = Parsed(ab) /\ Trace(ba)[n + m] = Parsed(ba)
    <2>1. /\ Len(ab) \in Nat /\ Len(ba) \in Nat /\ Len(before) \in Nat /\ Len(behind) \in Nat
          /\ m = Len(before) /\ n = Len(behind)
        BY <1>1, <1>2 DEF m, n
    <2>2. /\ Parsed(ab) = Trace(ab)[Len(ab)] /\ Parsed(ba) = Trace(ba)[Len(ba)]
          /\ Parsed(before) = Trace(before)[Len(before)] /\ Trace(before)[0] = Untouched
          /\ Parsed(behind) = Trace(behind)[Len(behind)] /\ Trace(behind)[0] = Untouched
        BY <2>1, TraceSteps
    <2> QED
        BY <1>2, <2>1, <2>2
<1>8. /\ fromB[0] = Parsed(before) /\ fromB[n] = Parsed(ab)
      /\ fromH[0] = Parsed(behind) /\ fromH[m] = Parsed(ba)
    <2>1. /\ 0 \in 0 .. n /\ 0 \in 0 .. m /\ m + 0 = m /\ n + 0 = n
          /\ m \in 0 .. m /\ n \in 0 .. n
        BY <1>1
    <2> QED
        BY <1>4, <1>7, <2>1
<1> HIDE DEF fromB, fromH
<1>9. /\ Parsed(ab).end = "none" /\ Parsed(ab).waits = "none"
      /\ Parsed(before).end = "none" /\ Parsed(before).waits = "none"
    BY DEF Accepted, ab
<1>10. Untouched.end = "none" /\ Untouched.waits = "none"
    BY DEF Untouched
\* Behind an option nothing but an option, its value or a flag is accepted.
<1>11. behind[1] \in Keys
    <2>1. Alike(Untouched, Parsed(before), Untouched, Parsed(before), Kb)
        <3> DEFINE f == Trace(before)
        <3>1. /\ Run(before, m, f) /\ f[0] = Untouched /\ f[m] = Parsed(before)
              /\ f[0].end = "none" /\ f[0].waits = "none"
            BY <1>6, <1>7, <1>10
        <3> HIDE DEF f
        <3>2. Alike(f[0], f[m], f[0], f[m], Kb)
            BY <1>1, <1>3, <3>1, RunAlike
        <3> QED
            BY <3>1, <3>2
    <2>2. Parsed(before).named = TRUE
        BY <2>1 DEF Alike
    <2>3. fromB[1] = ParseWord(Parsed(before), behind[1]) /\ ParseOK(Parsed(before))
        <3>1. 1 \in 1 .. n /\ 1 - 1 = 0 /\ 0 \in 0 .. n
            BY <1>1
        <3> QED
            BY <1>5, <1>8, <3>1 DEF Run
    <2>4. ASSUME behind[1] \notin Keys PROVE FALSE
        <3>1. fromB[1] = [Parsed(before) EXCEPT !.end = "usage"]
            BY <1>9, <2>2, <2>3, <2>4, OtherWord
        <3>2. fromB[1].end # "none"
            BY <2>3, <3>1 DEF ParseOK
        <3>3. fromB[1] = Trace(ab)[m + 1] /\ m + 1 \in 0 .. Len(ab) /\ Len(ab) \in Nat
            BY <1>1, <1>2 DEF fromB
        <3>4. Trace(ab)[m + 1].end # "none"
            BY <3>2, <3>3
        <3> QED
            BY <1>9, <3>3, <3>4, EndStays
    <2> QED
        BY <2>4
\* Behind reads the same whether before was read first or not,
<1>12. Alike(Parsed(before), Parsed(ab), Untouched, Parsed(behind), Kh)
    <2> DEFINE g == Trace(behind)
    <2>1. /\ fromB[0].end = "none" /\ fromB[0].waits = "none"
          /\ Run(behind, n, g) /\ g[0] = Untouched /\ g[n] = Parsed(behind)
          /\ g[0].end = "none" /\ g[0].waits = "none"
        BY <1>6, <1>7, <1>8, <1>9, <1>10
    <2> HIDE DEF g
    <2>2. Alike(fromB[0], fromB[n], g[0], g[n], Kh)
        BY <1>1, <1>3, <1>5, <1>11, <2>1, RunAlike
    <2> QED
        BY <1>8, <2>1, <2>2
<1>13. Parsed(behind).end = "none" /\ Parsed(behind).waits = "none"
    BY <1>9, <1>12 DEF Alike
\* and so does before.
<1>14. Alike(Untouched, Parsed(before), Parsed(behind), Parsed(ba), Kb)
    <2> DEFINE f == Trace(before)
    <2>1. /\ fromH[0].end = "none" /\ fromH[0].waits = "none"
          /\ Run(before, m, f) /\ f[0] = Untouched /\ f[m] = Parsed(before)
          /\ f[0].end = "none" /\ f[0].waits = "none"
        BY <1>6, <1>7, <1>8, <1>10, <1>13
    <2> HIDE DEF f
    <2>2. Alike(f[0], f[m], fromH[0], fromH[m], Kb)
        BY <1>1, <1>3, <1>5, <2>1, RunAlike
    <2> QED
        BY <1>8, <2>1, <2>2
<1>15. Parsed(ba).end = "none" /\ Parsed(ba).waits = "none"
    BY <1>9, <1>14 DEF Alike
<1>16. Parsed(ba).opts = Parsed(ab).opts
    <2>1. ASSUME NEW o \in Keys PROVE Parsed(ba).opts[o] = Parsed(ab).opts[o]
        <3>1. \/ o \in Kh /\ Parsed(ab).opts[o] = Parsed(behind).opts[o]
              \/ /\ Parsed(ab).opts[o] = Parsed(before).opts[o]
                 /\ Parsed(behind).opts[o] = Untouched.opts[o]
            BY <1>12 DEF Alike
        <3>2. \/ o \in Kb /\ Parsed(before).opts[o] = Parsed(ba).opts[o]
              \/ /\ Parsed(before).opts[o] = Untouched.opts[o]
                 /\ Parsed(ba).opts[o] = Parsed(behind).opts[o]
            BY <1>14 DEF Alike
        <3> QED
            BY <1>3, <3>1, <3>2
    <2>2. ParseOK(Parsed(ba)) /\ ParseOK(Parsed(ab))
        <3>1. 0 \in 0 .. n /\ n \in 0 .. n /\ m \in 0 .. m
            BY <1>1
        <3> QED
            BY <1>5, <1>8, <3>1 DEF Run
    <2>3. /\ Parsed(ba).opts = [o \in Keys |-> Parsed(ba).opts[o]]
          /\ Parsed(ab).opts = [o \in Keys |-> Parsed(ab).opts[o]]
        BY <2>2 DEF ParseOK, WellTyped
    <2> QED
        BY <2>1, <2>3
<1>17. \A k \in DOMAIN ba : ba[k] \notin Help
    <2>1. \A k \in DOMAIN (before \o behind) : (before \o behind)[k] \notin Help
        BY DEF Accepted
    <2>2. /\ \A k \in 1 .. m : before[k] \notin Help
          /\ \A k \in 1 .. n : behind[k] \notin Help
        <3>1. \A k \in 1 .. Len(before) : (before \o behind)[k] = before[k]
                                            /\ k \in DOMAIN (before \o behind)
            OBVIOUS
        <3>2. \A k \in 1 .. Len(behind) : (before \o behind)[Len(before) + k] = behind[k]
                                            /\ Len(before) + k \in DOMAIN (before \o behind)
            OBVIOUS
        <3>3. /\ \A k \in 1 .. Len(before) : before[k] \notin Help
              /\ \A k \in 1 .. Len(behind) : behind[k] \notin Help
            BY <2>1, <3>1, <3>2
        <3> QED
            BY <3>3 DEF m, n
    <2> QED
        BY <2>2 DEF ba, m, n
<1> QED
    BY <1>15, <1>16, <1>17 DEF Accepted, Options, ab, ba
=============================================================================
