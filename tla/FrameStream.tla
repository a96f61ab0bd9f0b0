----------------------------- MODULE FrameStream -----------------------------
(***************************************************************************)
(* The telemetry frames on their way from sim_server to the client: a       *)
(* length of four bytes and a payload (messages.h), a TCP connection that    *)
(* delivers the bytes in order and in any portions, and onReadyRead(), which *)
(* collects them in buf_ and cuts the frames out again.  buf_ outlives the    *)
(* connection: neither reconnect() nor onDisconnected() clears it.           *)
(*                                                                         *)
(* A byte is named by its frame and its place, <<frame, place>>.  Four bytes *)
(* that are no frame's length, or a payload that is no frame's, are read as   *)
(* any length and as any message, since the bytes' values are left out.      *)
(*                                                                         *)
(* Bounds: the frames 1..Len(PayloadLen), MaxLosses lost connections, and    *)
(* Garbage, the lengths the bytes of a payload may be read as.               *)
(***************************************************************************)
EXTENDS Naturals, Sequences

CONSTANTS
    PayloadLen,   \* the payload length of each frame the server sends
    MaxLosses,
    Garbage

ASSUME StreamAssumption ==
    /\ PayloadLen \in Seq(Nat \ {0})
    /\ MaxLosses \in Nat
    /\ Garbage \subseteq Nat

VARIABLES
    sent,        \* the frames sent so far
    wire,        \* bytes under way on the connection
    buf,         \* buf_
    parsing,     \* onReadyRead is in its loop
    delivered,   \* the messages handed to the window
    losses,      \* the connections lost so far
    torn         \* one was lost while buf_ held a part of a frame

vars == <<sent, wire, buf, parsing, delivered, losses, torn>>

HeaderLen == 4
Invalid == 0      \* stands for 0 and for every length above 10 MiB
Junk == 0         \* a message no server sent

Frame(f) == [i \in 1 .. HeaderLen + PayloadLen[f] |-> <<f, i>>]

Init ==
    /\ sent = 0 /\ wire = <<>> /\ buf = <<>> /\ parsing = FALSE
    /\ delivered = <<>> /\ losses = 0 /\ torn = FALSE

\* to_protobuf_frame() and send(), which blocks until all is written.
SendFrame ==
    /\ sent < Len(PayloadLen)
    /\ sent' = sent + 1
    /\ wire' = wire \o Frame(sent + 1)
    /\ UNCHANGED <<buf, parsing, delivered, losses, torn>>

\* Mutated form: what is left of an earlier portion is overwritten.
Overwritten(bytes) == bytes

Appended(bytes) == buf \o bytes

\* readyRead with the next n bytes; readAll() appends them.
ReadAll(n) ==
    /\ ~parsing
    /\ buf' = Appended(SubSeq(wire, 1, n))
    /\ wire' = SubSeq(wire, n + 1, Len(wire))
    /\ parsing' = TRUE
    /\ UNCHANGED <<sent, delivered, losses, torn>>

\* What the first four bytes of buf_ may be read as.
Lengths ==
    IF \E f \in 1 .. sent : SubSeq(buf, 1, HeaderLen) = SubSeq(Frame(f), 1, HeaderLen)
    THEN {PayloadLen[Head(buf)[1]]}
    ELSE Garbage

\* What a payload of len bytes behind them may be parsed as; <<>> is a failure.
Messages(len) ==
    IF \E f \in 1 .. sent : SubSeq(buf, 1, HeaderLen + len) = Frame(f)
    THEN {<<Head(buf)[1]>>}
    ELSE {<<>>, <<Junk>>}

\* Too few bytes for a length, or for the payload it announces.
NeedMore ==
    /\ parsing
    /\ Len(buf) >= HeaderLen =>
          \E len \in Lengths \ {Invalid} : Len(buf) < HeaderLen + len
    /\ parsing' = FALSE
    /\ UNCHANGED <<sent, wire, buf, delivered, losses, torn>>

\* Mutated form: the four bytes of the length stay in buf_.
WithoutPayload(len) == SubSeq(buf, len + 1, Len(buf))

WithoutFrame(len) == SubSeq(buf, HeaderLen + len + 1, Len(buf))

\* Mutated form: the loop ends after one frame.
EndsLoop == FALSE

GoesOn == TRUE

\* One frame is cut off and, if it can be parsed, delivered; the loop goes on.
CutFrame ==
    /\ parsing /\ Len(buf) >= HeaderLen
    /\ \E len \in Lengths \ {Invalid} :
          /\ Len(buf) >= HeaderLen + len
          /\ buf' = WithoutFrame(len)
          /\ \E msg \in Messages(len) : delivered' = delivered \o msg
    /\ parsing' = GoesOn
    /\ UNCHANGED <<sent, wire, losses, torn>>

\* A length of 0 or above 10 MiB empties buf_.
BadLength ==
    /\ parsing /\ Len(buf) >= HeaderLen
    /\ Invalid \in Lengths
    /\ buf' = <<>>
    /\ parsing' = FALSE
    /\ UNCHANGED <<sent, wire, delivered, losses, torn>>

\* The connection is lost with all that was under way, and made anew.
LoseConnection ==
    /\ ~parsing /\ losses < MaxLosses
    /\ losses' = losses + 1
    /\ wire' = <<>>
    /\ torn' = (torn \/ buf # <<>>)
    /\ UNCHANGED <<sent, buf, parsing, delivered>>

OnReadyRead == \E n \in 1 .. Len(wire) : ReadAll(n)
Parse == NeedMore \/ CutFrame \/ BadLength

Next == SendFrame \/ OnReadyRead \/ Parse \/ LoseConnection

Spec == Init /\ [][Next]_vars
-----------------------------------------------------------------------------
TypeOK ==
    /\ sent \in 0 .. Len(PayloadLen)
    /\ wire \in Seq((1 .. sent) \X Nat) /\ buf \in Seq((1 .. sent) \X Nat)
    /\ parsing \in BOOLEAN /\ torn \in BOOLEAN
    /\ delivered \in Seq(0 .. sent)
    /\ losses \in 0 .. MaxLosses

\* Until a connection is lost in the middle of a frame, buf_ begins with the first
\* byte of a frame, whatever portions the bytes arrive in
\* (tcp_client_worker.cpp:79-82, messages.h:74-85).
BufferIsAligned == ~torn /\ buf # <<>> => Head(buf)[2] = 1

\* The invariant of the proofs: until a connection is lost in the middle of a frame,
\* what is in buf_ and under way is whole frames one after the other, the last of
\* them the last one sent.  From each byte on the rest of its frame follows.
BytesAfter(byte) == HeaderLen + PayloadLen[byte[1]] - byte[2]
FollowedFrom(s, i) ==
    /\ s[i][2] \in 1 .. HeaderLen + PayloadLen[s[i][1]]
    /\ i + BytesAfter(s[i]) <= Len(s)
    /\ \A j \in 0 .. BytesAfter(s[i]) : s[i + j] = <<s[i][1], s[i][2] + j>>
Framed(s, last) ==
    /\ s # <<>> => s[1][2] = 1
    /\ \A i \in 1 .. Len(s) :
          /\ FollowedFrom(s, i)
          /\ LET end == i + BytesAfter(s[i]) IN
             IF end = Len(s) THEN s[i][1] = last ELSE s[end + 1] = <<s[i][1] + 1, 1>>
IInv == TypeOK /\ (~torn => Framed(buf \o wire, sent))

\* On a connection that is not lost every frame sent is delivered, if the bytes
\* arrive and the slot runs (tcp_client_worker.cpp:65-117).
EveryFrameArrives ==
    \A f \in 1 .. Len(PayloadLen) :
        sent >= f ~> (losses > 0 \/ \E i \in DOMAIN delivered : delivered[i] = f)

\* The channel of frames that the two ends promise: the next frame to come is
\* the one at the head of the bytes under way.
NextFrame == IF buf \o wire = <<>> THEN sent + 1 ELSE Head(buf \o wire)[1]
Channel == INSTANCE FrameChannel WITH next <- NextFrame, broken <- torn

\* Frames are delivered one by one in the order sent, and those under way on a
\* connection that is lost are skipped (tcp_client_worker.cpp:62-118).
ImplementsChannel == Channel!Spec

\* "The protocol is a 4-byte big-endian length and a protobuf payload"
\* (README.md:40): the four bytes read as a length are a frame's first four.
LengthIsALength == parsing /\ Len(buf) >= HeaderLen => buf[1][2] = 1 /\ buf[4] = <<buf[1][1], 4>>
=============================================================================
