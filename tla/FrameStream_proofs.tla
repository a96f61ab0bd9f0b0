------------------------- MODULE FrameStream_proofs -------------------------
(***************************************************************************)
(* The framing is kept, for any frames, any portions and any number of lost  *)
(* connections: until one is lost in the middle of a frame, the client cuts    *)
(* the stream exactly where the server framed it, and the two ends implement   *)
(* FrameChannel.                                                           *)
(***************************************************************************)
EXTENDS FrameStream, SequenceTheorems, TLAPS

USE DEF HeaderLen

Bytes(n) == (1 .. n) \X Nat
Total(f) == HeaderLen + PayloadLen[f]
First(s) == s[1][1]
IsTail(t, s, c) == Len(t) = Len(s) - c /\ \A i \in 1 .. Len(t) : t[i] = s[c + i]

-----------------------------------------------------------------------------
(* Frames and framed sequences                                             *)

\* A frame has a length and a payload of at least one byte.
LEMMA FrameFacts ==
    ASSUME NEW f \in 1 .. Len(PayloadLen)
    PROVE  /\ PayloadLen[f] \in Nat \ {0}
           /\ Total(f) \in Nat /\ Total(f) > HeaderLen
           /\ Frame(f) \in Seq(Bytes(f))
           /\ Len(Frame(f)) = Total(f)
           /\ \A i \in 1 .. Total(f) : Frame(f)[i] = <<f, i>>
<1>1. PayloadLen[f] \in Nat \ {0}
    BY StreamAssumption, ElementOfSeq
<1>2. Total(f) \in Nat /\ Total(f) > HeaderLen
    BY <1>1 DEF Total
<1>3. Frame(f) = [i \in 1 .. Total(f) |-> <<f, i>>]
    BY DEF Frame, Total
<1>4. \A i \in 1 .. Total(f) : <<f, i>> \in Bytes(f)
    BY <1>2 DEF Bytes
<1>5. Frame(f) \in [1 .. Total(f) -> Bytes(f)]
    BY <1>3, <1>4
<1>6. Frame(f) \in Seq(Bytes(f)) /\ Len(Frame(f)) = Total(f)
    BY <1>2, <1>5
<1> QED
    BY <1>1, <1>2, <1>3, <1>6

\* Types of the operators on bytes.
LEMMA AfterFacts ==
    ASSUME NEW n \in 0 .. Len(PayloadLen), NEW s \in Seq(Bytes(n)), NEW i \in 1 .. Len(s)
    PROVE  /\ s[i] \in Bytes(n)
           /\ s[i][1] \in 1 .. n /\ s[i][2] \in Nat
           /\ PayloadLen[s[i][1]] \in Nat \ {0}
           /\ BytesAfter(s[i]) \in Int
           /\ s[i] = <<s[i][1], s[i][2]>>
<1>1. s[i] \in Bytes(n)
    BY ElementOfSeq
<1>2. s[i][1] \in 1 .. n /\ s[i][2] \in Nat /\ s[i] = <<s[i][1], s[i][2]>>
    BY <1>1 DEF Bytes
<1>3. s[i][1] \in 1 .. Len(PayloadLen)
    BY <1>2, StreamAssumption
<1>4. PayloadLen[s[i][1]] \in Nat \ {0}
    BY <1>3, FrameFacts
<1> QED
    BY <1>1, <1>2, <1>4 DEF BytesAfter

\* What has no bytes is framed.
LEMMA FramedEmpty == ASSUME NEW n PROVE Framed(<<>>, n)
BY EmptySeq DEF Framed

\* One more frame behind those that are there keeps the framing.
LEMMA FramedAppend ==
    ASSUME NEW n \in Nat, n + 1 <= Len(PayloadLen), NEW s \in Seq(Bytes(n)), Framed(s, n)
    PROVE  Framed(s \o Frame(n + 1), n + 1)
<1> DEFINE g == Frame(n + 1)
           t == s \o g
           m == n + 1
<1>0. m \in 1 .. Len(PayloadLen) /\ n \in 0 .. Len(PayloadLen)
    BY StreamAssumption
<1>1. /\ Total(m) \in Nat /\ Total(m) > HeaderLen
      /\ g \in Seq(Bytes(m)) /\ Len(g) = Total(m)
      /\ \A i \in 1 .. Total(m) : g[i] = <<m, i>>
    BY <1>0, FrameFacts
<1>2. s \in Seq(Bytes(m)) /\ Len(s) \in Nat
    <2>1. Bytes(n) \subseteq Bytes(m)
        BY DEF Bytes
    <2> QED
        BY <2>1, SeqMonotonic, LenProperties
<1>3. /\ t \in Seq(Bytes(m)) /\ Len(t) = Len(s) + Total(m)
      /\ \A i \in 1 .. Len(s) : t[i] = s[i]
      /\ \A i \in 1 .. Total(m) : t[Len(s) + i] = <<m, i>>
    <2>1. /\ t \in Seq(Bytes(m)) /\ Len(t) = Len(s) + Len(g)
          /\ \A i \in 1 .. Len(s) + Len(g) : t[i] = IF i <= Len(s) THEN s[i] ELSE g[i - Len(s)]
        BY <1>1, <1>2, ConcatProperties
    <2> HIDE DEF t, g
    <2>2. ASSUME NEW i \in 1 .. Len(s) PROVE t[i] = s[i]
        <3>1. i \in 1 .. Len(s) + Len(g)
            BY <1>1, <1>2
        <3> QED
            BY <2>1, <3>1
    <2>3. ASSUME NEW i \in 1 .. Total(m) PROVE t[Len(s) + i] = <<m, i>>
        <3> DEFINE q == Len(s) + i
        <3>1. q \in 1 .. Len(s) + Len(g) /\ ~(q <= Len(s)) /\ q - Len(s) = i
            BY <1>1, <1>2
        <3> HIDE DEF q
        <3>2. t[q] = IF q <= Len(s) THEN s[q] ELSE g[q - Len(s)]
            BY <2>1, <3>1
        <3>3. t[q] = g[i]
            BY <3>1, <3>2
        <3> QED
            BY <1>1, <3>3 DEF q
    <2> QED
        BY <1>1, <2>1, <2>2, <2>3
<1> HIDE DEF t, g
<1>4. ASSUME t # <<>> PROVE t[1][2] = 1
    <2>1. CASE Len(s) = 0
        BY <1>1, <1>3, <2>1
    <2>2. CASE Len(s) # 0
        <3>1. 1 \in 1 .. Len(s) /\ s # <<>>
            BY <1>2, <2>2, EmptySeq
        <3> QED
            BY <1>3, <3>1 DEF Framed
    <2> QED
        BY <2>1, <2>2
<1>5. ASSUME NEW i \in 1 .. Len(t)
      PROVE  /\ FollowedFrom(t, i)
             /\ LET end == i + BytesAfter(t[i]) IN
                IF end = Len(t) THEN t[i][1] = m ELSE t[end + 1] = <<t[i][1] + 1, 1>>
    <2>1. CASE i \in 1 .. Len(s)
        <3> DEFINE a == BytesAfter(s[i])
        <3>1. t[i] = s[i]
            BY <1>3, <2>1
        <3>2. /\ a \in Int /\ s[i][1] \in 1 .. n
            BY <1>0, <2>1, AfterFacts
        <3>3. /\ s[i][2] \in 1 .. HeaderLen + PayloadLen[s[i][1]]
              /\ i + a <= Len(s)
              /\ \A j \in 0 .. a : s[i + j] = <<s[i][1], s[i][2] + j>>
              /\ IF i + a = Len(s) THEN s[i][1] = n ELSE s[i + a + 1] = <<s[i][1] + 1, 1>>
            BY <2>1 DEF Framed, FollowedFrom
        <3>4. a >= 0
            <4>1. PayloadLen[s[i][1]] \in Nat /\ s[i][2] \in Nat
                BY <1>0, <2>1, AfterFacts
            <4>2. s[i][2] <= HeaderLen + PayloadLen[s[i][1]]
                BY <3>3, <4>1
            <4> QED
                BY <4>1, <4>2 DEF BytesAfter
        <3> HIDE DEF a
        <3>10. i \in Int /\ 1 <= i /\ i <= Len(s) /\ i + a <= Len(s)
            BY <1>2, <2>1, <3>3
        <3>5. i + a <= Len(t) /\ i + a # Len(t)
            BY <1>1, <1>2, <1>3, <2>1, <3>2, <3>3
        <3>6. ASSUME NEW j \in 0 .. a PROVE t[i + j] = <<s[i][1], s[i][2] + j>>
            <4>1. i + j \in 1 .. Len(s)
                BY <1>2, <3>2, <3>10
            <4> QED
                BY <1>3, <3>3, <4>1
        <3>7. t[i + a + 1] = <<s[i][1] + 1, 1>>
            <4>1. CASE i + a = Len(s)
                <5>1. 1 \in 1 .. Total(m)
                    BY <1>1
                <5>2. t[Len(s) + 1] = <<m, 1>>
                    BY <1>3, <5>1
                <5> QED
                    BY <3>3, <4>1, <5>2
            <4>2. CASE i + a # Len(s)
                <5>1. i + a + 1 \in 1 .. Len(s)
                    BY <1>2, <3>2, <3>4, <3>10, <4>2
                <5> QED
                    BY <1>3, <3>3, <4>2, <5>1
            <4> QED
                BY <4>1, <4>2
        <3>8. BytesAfter(t[i]) = a
            BY <3>1 DEF a
        <3>9. FollowedFrom(t, i)
            BY <3>1, <3>3, <3>5, <3>6, <3>8 DEF FollowedFrom
        <3> QED
            BY <3>1, <3>5, <3>7, <3>8, <3>9
    <2>2. CASE ~(i \in 1 .. Len(s))
        <3> DEFINE k == i - Len(s)
        <3>1. k \in 1 .. Total(m) /\ i = Len(s) + k
            BY <1>1, <1>2, <1>3, <2>2
        <3>2. t[i] = <<m, k>>
            BY <1>3, <3>1
        <3>6. t[i][1] = m /\ t[i][2] = k
            BY <3>2
        <3>3. BytesAfter(t[i]) = Total(m) - k
            <4>1. PayloadLen[m] \in Nat /\ k \in Nat
                BY <1>0, <1>1, <3>1, FrameFacts
            <4>2. PayloadLen[t[i][1]] = PayloadLen[m]
                BY <3>6
            <4> HIDE DEF m
            <4> QED
                BY <3>6, <4>1, <4>2 DEF BytesAfter, Total
        <3>4. i + (Total(m) - k) = Len(t)
            BY <1>1, <1>2, <1>3, <3>1
        <3>5. ASSUME NEW j \in 0 .. Total(m) - k PROVE t[i + j] = <<m, k + j>>
            <4>1. k + j \in 1 .. Total(m) /\ i + j = Len(s) + (k + j)
                BY <1>1, <1>2, <3>1
            <4> QED
                BY <1>3, <4>1
        <3> HIDE DEF k
        <3>7. FollowedFrom(t, i)
            <4>1. t[i][2] \in 1 .. HeaderLen + PayloadLen[t[i][1]]
                BY <3>1, <3>6 DEF Total
            <4>2. i + BytesAfter(t[i]) <= Len(t)
                BY <1>1, <1>2, <1>3, <3>3, <3>4
            <4> QED
                BY <3>3, <3>5, <3>6, <4>1, <4>2 DEF FollowedFrom
        <3> QED
            BY <3>3, <3>4, <3>6, <3>7
    <2> QED
        BY <2>1, <2>2
<1>6. Framed(t, m)
    BY <1>4, <1>5 DEF Framed
<1> QED
    BY <1>6 DEF t, g
\* What SubSeq() leaves of a sequence when its first c elements are dropped.
LEMMA DropFacts ==
    ASSUME NEW S, NEW s \in Seq(S), NEW c \in 0 .. Len(s)
    PROVE  /\ SubSeq(s, c + 1, Len(s)) \in Seq(S)
           /\ IsTail(SubSeq(s, c + 1, Len(s)), s, c)
<1> DEFINE b == c + 1
           l == Len(s)
           t == SubSeq(s, b, l)
<1>1. b \in Int /\ l \in Int /\ c \in Nat /\ c <= l /\ b = c + 1 /\ l - b + 1 = l - c
    BY LenProperties
<1>2. \A i \in b .. l : s[i] \in S
    BY <1>1, ElementOfSeq
<1> HIDE DEF b, l
<1>3. /\ t \in Seq(S)
      /\ Len(t) = IF b <= l THEN l - b + 1 ELSE 0
      /\ \A i \in 1 .. l - b + 1 : t[i] = s[b + i - 1]
    BY <1>1, <1>2, SubSeqProperties
<1> HIDE DEF t
<1>4. Len(t) = l - c
    BY <1>1, <1>3
<1>5. ASSUME NEW i \in 1 .. l - c PROVE t[i] = s[c + i]
    <2>1. i \in 1 .. l - b + 1 /\ b + i - 1 = c + i
        BY <1>1
    <2> QED
        BY <1>3, <2>1
<1> QED
    BY <1>3, <1>4, <1>5 DEF t, b, l, IsTail

\* A framed sequence begins with a whole frame, behind which the next one begins.
LEMMA FirstFrame ==
    ASSUME NEW n \in 0 .. Len(PayloadLen), NEW s \in Seq(Bytes(n)), Framed(s, n), s # <<>>
    PROVE  /\ First(s) \in 1 .. n /\ First(s) \in 1 .. Len(PayloadLen)
           /\ Total(First(s)) \in Nat /\ Total(First(s)) > HeaderLen /\ Total(First(s)) <= Len(s)
           /\ \A i \in 1 .. Total(First(s)) : s[i] = <<First(s), i>>
           /\ IF Total(First(s)) = Len(s) THEN First(s) = n ELSE s[Total(First(s)) + 1] = <<First(s) + 1, 1>>
<1> DEFINE f == First(s)
           c == Total(f)
<1>1. Len(s) \in Nat /\ 1 \in 1 .. Len(s)
    BY LenProperties, EmptySeq
<1>2. f \in 1 .. n /\ f \in 1 .. Len(PayloadLen)
    BY <1>1, AfterFacts, StreamAssumption DEF First
<1>3. c \in Nat /\ c > HeaderLen
    BY <1>2, FrameFacts
<1>4. s[1][2] = 1 /\ BytesAfter(s[1]) = c - 1
    <2>1. s[1][2] = 1
        BY DEF Framed
    <2>2. PayloadLen[f] \in Nat
        BY <1>2, FrameFacts
    <2>3. BytesAfter(s[1]) = HeaderLen + PayloadLen[f] - 1
        BY <2>1 DEF BytesAfter, First
    <2> QED
        BY <2>1, <2>2, <2>3 DEF Total
<1>5. /\ 1 + (c - 1) <= Len(s)
      /\ \A j \in 0 .. c - 1 : s[1 + j] = <<f, 1 + j>>
      /\ IF 1 + (c - 1) = Len(s) THEN f = n ELSE s[1 + (c - 1) + 1] = <<f + 1, 1>>
    BY <1>1, <1>4, Zenon DEF Framed, FollowedFrom, First
<1> HIDE DEF c, f
<1>6. c <= Len(s) /\ IF c = Len(s) THEN f = n ELSE s[c + 1] = <<f + 1, 1>>
    <2>1. 1 + (c - 1) = c
        BY <1>3
    <2> QED
        BY <1>5, <2>1
<1>7. ASSUME NEW i \in 1 .. c PROVE s[i] = <<f, i>>
    <2>1. i - 1 \in 0 .. c - 1 /\ 1 + (i - 1) = i
        BY <1>3
    <2> QED
        BY <1>5, <2>1
<1> QED
    BY <1>2, <1>3, <1>6, <1>7 DEF c, f

\* Without its first frame a framed sequence is framed, and what is left begins
\* with the frame after it, if anything is left.
LEMMA FramedTail ==
    ASSUME NEW n \in 0 .. Len(PayloadLen), NEW s \in Seq(Bytes(n)), Framed(s, n), s # <<>>,
           NEW t \in Seq(Bytes(n)), IsTail(t, s, Total(First(s)))
    PROVE  /\ Framed(t, n)
           /\ IF t = <<>> THEN First(s) = n ELSE First(t) = First(s) + 1
<1> DEFINE f == First(s)
           c == Total(f)
<1>1. Len(s) \in Nat /\ 1 \in 1 .. Len(s)
    BY LenProperties, EmptySeq
<1>2. /\ f \in 1 .. n /\ c \in Nat /\ c > HeaderLen /\ c <= Len(s)
      /\ IF c = Len(s) THEN f = n ELSE s[c + 1] = <<f + 1, 1>>
    BY FirstFrame
<1> HIDE DEF f, c
<1>8. Len(t) = Len(s) - c /\ \A i \in 1 .. Len(t) : t[i] = s[c + i]
    BY DEF IsTail, f, c
<1>9. IF t = <<>> THEN f = n ELSE t[1] = <<f + 1, 1>>
    <2>1. CASE t = <<>>
        <3>1. Len(t) = 0
            BY <2>1, EmptySeq
        <3>2. c = Len(s)
            BY <1>1, <1>2, <1>8, <3>1
        <3> QED
            BY <1>2, <2>1, <3>2
    <2>2. CASE t # <<>>
        <3>1. Len(t) \in Nat \ {0}
            BY <1>8, <2>2, EmptySeq
        <3>2. 1 \in 1 .. Len(t) /\ c # Len(s)
            BY <1>1, <1>2, <1>8, <3>1
        <3> QED
            BY <1>2, <1>8, <2>2, <3>2
    <2> QED
        BY <2>1, <2>2
<1>10. ASSUME NEW i \in 1 .. Len(t)
       PROVE  /\ FollowedFrom(t, i)
              /\ LET end == i + BytesAfter(t[i]) IN
                 IF end = Len(t) THEN t[i][1] = n ELSE t[end + 1] = <<t[i][1] + 1, 1>>
    <2> DEFINE k == c + i
               a == BytesAfter(s[k])
    <2>1. k \in 1 .. Len(s) /\ k \in Int /\ i \in Int /\ 1 <= i /\ k = c + i
        BY <1>1, <1>2, <1>8
    <2>2. t[i] = s[k]
        BY <1>8
    <2> HIDE DEF k
    <2>3. a \in Int
        BY <2>1, AfterFacts
    <2>4. /\ s[k][2] \in 1 .. HeaderLen + PayloadLen[s[k][1]]
          /\ k + a <= Len(s)
          /\ \A j \in 0 .. a : s[k + j] = <<s[k][1], s[k][2] + j>>
          /\ IF k + a = Len(s) THEN s[k][1] = n ELSE s[k + a + 1] = <<s[k][1] + 1, 1>>
        BY <2>1, Zenon DEF Framed, FollowedFrom
    <2>5. a >= 0
        <3>1. PayloadLen[s[k][1]] \in Nat /\ s[k][2] \in Nat
            BY <2>1, AfterFacts
        <3>2. s[k][2] <= HeaderLen + PayloadLen[s[k][1]]
            BY <2>4, <3>1
        <3>3. a = HeaderLen + PayloadLen[s[k][1]] - s[k][2]
            BY DEF BytesAfter
        <3> QED
            BY <3>1, <3>2, <3>3
    <2>6. BytesAfter(t[i]) = a
        BY <2>2
    <2> HIDE DEF a
    <2>7. /\ i + a <= Len(t)
          /\ (i + a = Len(t)) <=> (k + a = Len(s))
          /\ \A j \in 0 .. a : i + j \in 1 .. Len(t) /\ c + (i + j) = k + j
          /\ i + a # Len(t) => i + a + 1 \in 1 .. Len(t) /\ c + (i + a + 1) = k + a + 1
        <3>1. /\ i \in Nat /\ i >= 1 /\ a \in Nat /\ c \in Nat /\ k \in Nat /\ k = c + i
              /\ Len(s) \in Nat /\ Len(t) \in Nat
            BY <1>1, <1>2, <2>1, <2>3, <2>5, LenProperties
        <3>2. Len(t) = Len(s) - c /\ k + a <= Len(s)
            BY <1>8, <2>4
        <3> DEFINE l == Len(s)
                   m == Len(t)
        <3>3. l \in Nat /\ m \in Nat /\ m = l - c /\ k + a <= l
            BY <3>1, <3>2
        <3> HIDE DEF l, m
        <3>4. /\ i + a <= m
              /\ (i + a = m) <=> (k + a = l)
              /\ \A j \in 0 .. a : i + j \in 1 .. m /\ c + (i + j) = k + j
              /\ i + a # m => i + a + 1 \in 1 .. m /\ c + (i + a + 1) = k + a + 1
            <4>1. i + a <= m
                BY <3>1, <3>3
            <4>2. (i + a = m) <=> (k + a = l)
                BY <3>1, <3>3
            <4>3. ASSUME NEW j \in 0 .. a PROVE i + j \in 1 .. m /\ c + (i + j) = k + j
                BY <3>1, <4>1, <3>3
            <4>4. ASSUME i + a # m PROVE i + a + 1 \in 1 .. m /\ c + (i + a + 1) = k + a + 1
                BY <3>1, <3>3, <4>1, <4>4
            <4> QED
                BY <4>1, <4>2, <4>3, <4>4
        <3> QED
            BY <3>4 DEF l, m
    <2>8. ASSUME NEW j \in 0 .. a PROVE t[i + j] = <<s[k][1], s[k][2] + j>>
        <3>1. i + j \in 1 .. Len(t) /\ c + (i + j) = k + j
            BY <2>7
        <3> QED
            BY <1>8, <2>4, <3>1
    <2>9. i + a # Len(t) => t[i + a + 1] = s[k + a + 1]
        BY <1>8, <2>7
    <2>10. FollowedFrom(t, i)
        <3>1. t[i][2] \in 1 .. HeaderLen + PayloadLen[t[i][1]]
            BY <2>2, <2>4
        <3> QED
            BY <2>2, <2>6, <2>7, <2>8, <3>1 DEF FollowedFrom
    <2> QED
        BY <2>2, <2>4, <2>6, <2>7, <2>9, <2>10
<1>11. Framed(t, n)
    <2>1. ASSUME t # <<>> PROVE t[1][2] = 1
        <3>1. t[1] = <<f + 1, 1>>
            BY <1>9, <2>1
        <3> QED
            BY <3>1, <1>2
    <2> QED
        BY <1>10, <2>1 DEF Framed
<1>12. IF t = <<>> THEN f = n ELSE t[1][1] = f + 1
    <2>1. ASSUME t # <<>> PROVE t[1][1] = f + 1
        <3>1. t[1] = <<f + 1, 1>>
            BY <1>9, <2>1
        <3> QED
            BY <3>1, <1>2
    <2> QED
        BY <1>9, <2>1
<1> QED
    BY <1>11, <1>12 DEF f, First

-----------------------------------------------------------------------------
(* What the slot reads and what it leaves                                  *)

\* The first m elements of a sequence.
LEMMA PrefixFacts ==
    ASSUME NEW S, NEW s \in Seq(S), NEW m \in 0 .. Len(s)
    PROVE  /\ SubSeq(s, 1, m) \in Seq(S)
           /\ Len(SubSeq(s, 1, m)) = m
           /\ \A i \in 1 .. m : SubSeq(s, 1, m)[i] = s[i]
<1> DEFINE t == SubSeq(s, 1, m)
<1>1. m \in Nat /\ m \in Int /\ m <= Len(s) /\ m - 1 + 1 = m
    BY LenProperties
<1>2. \A i \in 1 .. m : s[i] \in S
    <2>1. ASSUME NEW i \in 1 .. m PROVE i \in 1 .. Len(s)
        BY <1>1, LenProperties
    <2> QED
        BY <2>1, ElementOfSeq
<1>3. /\ t \in Seq(S)
      /\ Len(t) = IF 1 <= m THEN m - 1 + 1 ELSE 0
      /\ \A i \in 1 .. m - 1 + 1 : t[i] = s[1 + i - 1]
    BY <1>1, <1>2, SubSeqProperties
<1> HIDE DEF t
<1>4. Len(t) = m
    BY <1>1, <1>3
<1>5. ASSUME NEW i \in 1 .. m PROVE t[i] = s[i]
    <2>1. i \in 1 .. m - 1 + 1 /\ 1 + i - 1 = i
        BY <1>1
    <2> QED
        BY <1>3, <2>1
<1> QED
    BY <1>3, <1>4, <1>5 DEF t

\* Dropping from the first of two sequences drops from both together.
LEMMA TailOfConcat ==
    ASSUME NEW S, NEW a \in Seq(S), NEW w \in Seq(S), NEW u \in Seq(S),
           NEW c \in 0 .. Len(a), IsTail(u, a, c)
    PROVE  u \o w \in Seq(S) /\ IsTail(u \o w, a \o w, c)
<1> DEFINE t == u \o w
           s == a \o w
<1>1. /\ t \in Seq(S) /\ Len(t) = Len(u) + Len(w)
      /\ \A i \in 1 .. Len(u) + Len(w) : t[i] = IF i <= Len(u) THEN u[i] ELSE w[i - Len(u)]
    BY ConcatProperties
<1>2. /\ Len(s) = Len(a) + Len(w)
      /\ \A i \in 1 .. Len(a) + Len(w) : s[i] = IF i <= Len(a) THEN a[i] ELSE w[i - Len(a)]
    BY ConcatProperties
<1> HIDE DEF t, s
<1>3. /\ Len(u) = Len(a) - c /\ \A i \in 1 .. Len(u) : u[i] = a[c + i]
      /\ c \in Nat /\ c <= Len(a) /\ Len(a) \in Nat /\ Len(w) \in Nat /\ Len(u) \in Nat
    BY LenProperties DEF IsTail
<1>4. Len(t) = Len(s) - c
    BY <1>1, <1>2, <1>3
<1>5. ASSUME NEW i \in 1 .. Len(t) PROVE t[i] = s[c + i]
    <2>1. i \in 1 .. Len(u) + Len(w) /\ c + i \in 1 .. Len(a) + Len(w)
        BY <1>1, <1>3
    <2>2. t[i] = IF i <= Len(u) THEN u[i] ELSE w[i - Len(u)]
        BY <1>1, <2>1
    <2>3. s[c + i] = IF c + i <= Len(a) THEN a[c + i] ELSE w[c + i - Len(a)]
        BY <1>2, <2>1
    <2>4. CASE i <= Len(u)
        <3>1. i \in 1 .. Len(u) /\ c + i <= Len(a)
            BY <1>3, <2>1, <2>4
        <3> QED
            BY <1>3, <2>2, <2>3, <2>4, <3>1
    <2>5. CASE ~(i <= Len(u))
        <3>1. ~(c + i <= Len(a)) /\ i - Len(u) = c + i - Len(a)
            BY <1>3, <2>1, <2>5
        <3> QED
            BY <2>2, <2>3, <2>5, <3>1
    <2> QED
        BY <2>4, <2>5
<1>6. IsTail(t, s, c)
    BY <1>4, <1>5 DEF IsTail
<1> QED
    BY <1>1, <1>6 DEF t, s

\* The bytes sent and not yet cut into frames.
Arriving == buf \o wire

\* Types of the bytes.
LEMMA ArrivingFacts ==
    ASSUME TypeOK
    PROVE  /\ sent \in 0 .. Len(PayloadLen) /\ sent \in Nat
           /\ buf \in Seq(Bytes(sent)) /\ wire \in Seq(Bytes(sent))
           /\ Arriving \in Seq(Bytes(sent))
           /\ Len(buf) \in Nat /\ Len(wire) \in Nat
           /\ Len(Arriving) = Len(buf) + Len(wire)
           /\ \A i \in 1 .. Len(buf) : Arriving[i] = buf[i]
<1>1. sent \in 0 .. Len(PayloadLen) /\ sent \in Nat
    BY StreamAssumption DEF TypeOK
<1>2. buf \in Seq(Bytes(sent)) /\ wire \in Seq(Bytes(sent))
    BY DEF TypeOK, Bytes
<1>3. Len(buf) \in Nat /\ Len(wire) \in Nat
    BY <1>2, LenProperties
<1>4. /\ Arriving \in Seq(Bytes(sent)) /\ Len(Arriving) = Len(buf) + Len(wire)
      /\ \A i \in 1 .. Len(buf) + Len(wire) :
            Arriving[i] = IF i <= Len(buf) THEN buf[i] ELSE wire[i - Len(buf)]
    BY <1>2, ConcatProperties DEF Arriving
<1>5. ASSUME NEW i \in 1 .. Len(buf) PROVE Arriving[i] = buf[i]
    <2>1. i \in 1 .. Len(buf) + Len(wire) /\ i <= Len(buf)
        BY <1>3
    <2> QED
        BY <1>4, <2>1
<1> QED
    BY <1>1, <1>2, <1>3, <1>4, <1>5

\* While the bytes are framed, four bytes in buf_ are read as the length of the
\* frame they belong to, and its payload as that frame.
LEMMA ReadRight ==
    ASSUME TypeOK, Framed(Arriving, sent), Len(buf) >= HeaderLen
    PROVE  /\ Arriving # <<>> /\ First(Arriving) \in 1 .. sent
           /\ Lengths = {PayloadLen[First(Arriving)]}
           /\ Len(buf) >= Total(First(Arriving)) =>
                 Messages(PayloadLen[First(Arriving)]) = {<<First(Arriving)>>}
<1> DEFINE f == First(Arriving)
           c == Total(f)
<1>1. Arriving # <<>>
    <2>1. Len(Arriving) # 0
        BY ArrivingFacts
    <2> QED
        BY <2>1, EmptySeq
<1>2. /\ f \in 1 .. sent /\ f \in 1 .. Len(PayloadLen) /\ c \in Nat /\ c > HeaderLen
      /\ \A i \in 1 .. c : Arriving[i] = <<f, i>>
    BY <1>1, ArrivingFacts, FirstFrame
<1>3. /\ PayloadLen[f] \in Nat
      /\ Frame(f) \in Seq(Bytes(f)) /\ Len(Frame(f)) = c
      /\ \A i \in 1 .. c : Frame(f)[i] = <<f, i>>
      /\ c = HeaderLen + PayloadLen[f]
    BY <1>2, FrameFacts DEF Total
<1> HIDE DEF f, c
<1>4. Frame(f) \in Seq(Bytes(sent))
    <2>1. Bytes(f) \subseteq Bytes(sent)
        BY <1>2, ArrivingFacts DEF Bytes
    <2> QED
        BY <1>3, <2>1, SeqMonotonic
<1>5. ASSUME NEW m \in 1 .. c, m <= Len(buf) PROVE SubSeq(buf, 1, m) = SubSeq(Frame(f), 1, m)
    <2>1. m \in 0 .. Len(buf) /\ m \in 0 .. Len(Frame(f))
        BY <1>2, <1>3, <1>5, ArrivingFacts
    <2>2. /\ SubSeq(buf, 1, m) \in Seq(Bytes(sent)) /\ Len(SubSeq(buf, 1, m)) = m
          /\ \A i \in 1 .. m : SubSeq(buf, 1, m)[i] = buf[i]
        BY <2>1, PrefixFacts, ArrivingFacts
    <2>3. /\ SubSeq(Frame(f), 1, m) \in Seq(Bytes(sent)) /\ Len(SubSeq(Frame(f), 1, m)) = m
          /\ \A i \in 1 .. m : SubSeq(Frame(f), 1, m)[i] = Frame(f)[i]
        BY <1>4, <2>1, PrefixFacts
    <2>4. ASSUME NEW i \in 1 .. m PROVE buf[i] = Frame(f)[i]
        <3>1. i \in 1 .. Len(buf) /\ i \in 1 .. c
            BY <1>2, <1>5, ArrivingFacts
        <3> QED
            BY <1>2, <1>3, <3>1, ArrivingFacts
    <2>5. \A i \in 1 .. m : SubSeq(buf, 1, m)[i] = SubSeq(Frame(f), 1, m)[i]
        BY <2>2, <2>3, <2>4
    <2> QED
        BY <2>2, <2>3, <2>5, SeqEqual
<1>6. Head(buf)[1] = f
    <2>1. 1 \in 1 .. Len(buf) /\ 1 \in 1 .. c
        BY <1>2, ArrivingFacts
    <2>2. buf[1] = <<f, 1>>
        BY <1>2, <2>1, ArrivingFacts
    <2> QED
        BY <2>2
<1>7. Lengths = {PayloadLen[f]}
    <2>1. HeaderLen \in 1 .. c
        BY <1>2
    <2>2. SubSeq(buf, 1, HeaderLen) = SubSeq(Frame(f), 1, HeaderLen)
        BY <1>5, <2>1
    <2> QED
        BY <1>2, <1>6, <2>2 DEF Lengths
<1>8. ASSUME Len(buf) >= c PROVE Messages(PayloadLen[f]) = {<<f>>}
    <2>1. c \in 1 .. c /\ c <= Len(buf)
        BY <1>2, <1>8, ArrivingFacts
    <2>2. SubSeq(buf, 1, c) = SubSeq(Frame(f), 1, c)
        BY <1>5, <2>1
    <2>3. SubSeq(Frame(f), 1, c) = Frame(f)
        BY <1>3, SubSeqFull
    <2> QED
        BY <1>2, <1>3, <1>6, <2>2, <2>3 DEF Messages
<1> QED
    BY <1>1, <1>2, <1>7, <1>8 DEF f, c

-----------------------------------------------------------------------------
(* The invariant                                                           *)

\* What CutFrame does while the bytes are framed: the frame they begin with is
\* delivered, and what is left is framed and begins with the frame after it.
LEMMA CutsRight ==
    ASSUME TypeOK, Framed(Arriving, sent), CutFrame
    PROVE  /\ Arriving # <<>> /\ First(Arriving) \in 1 .. sent
           /\ delivered' = delivered \o <<First(Arriving)>>
           /\ Framed(Arriving', sent)
           /\ IF Arriving' = <<>> THEN First(Arriving) = sent
              ELSE First(Arriving') = First(Arriving) + 1
<1> DEFINE f == First(Arriving)
           c == Total(f)
<1>1. Len(buf) >= HeaderLen
    BY DEF CutFrame
<1>2. Arriving # <<>> /\ f \in 1 .. sent /\ Lengths = {PayloadLen[f]}
    BY <1>1, ReadRight
<1>3. c = HeaderLen + PayloadLen[f] /\ c \in Nat
    BY <1>2, ArrivingFacts, FirstFrame DEF Total
<1>4. /\ Len(buf) >= HeaderLen + PayloadLen[f]
      /\ buf' = WithoutFrame(PayloadLen[f])
      /\ \E msg \in Messages(PayloadLen[f]) : delivered' = delivered \o msg
    BY <1>2 DEF CutFrame
<1>5. Len(buf) >= c /\ buf' = SubSeq(buf, c + 1, Len(buf)) /\ wire' = wire
    BY <1>3, <1>4 DEF WithoutFrame, CutFrame
<1>6. delivered' = delivered \o <<f>>
    <2>1. Messages(PayloadLen[f]) = {<<f>>}
        BY <1>1, <1>5, ReadRight
    <2> QED
        BY <1>4, <2>1
<1>7. c \in 0 .. Len(buf)
    BY <1>3, <1>5, ArrivingFacts
<1>8. buf' \in Seq(Bytes(sent)) /\ IsTail(buf', buf, c)
    BY <1>5, <1>7, ArrivingFacts, DropFacts
<1>9. Arriving' \in Seq(Bytes(sent)) /\ IsTail(Arriving', Arriving, c)
    <2>1. buf' \o wire \in Seq(Bytes(sent)) /\ IsTail(buf' \o wire, buf \o wire, c)
        BY <1>7, <1>8, ArrivingFacts, TailOfConcat
    <2> QED
        BY <1>5, <2>1 DEF Arriving
<1>10. /\ Framed(Arriving', sent)
       /\ IF Arriving' = <<>> THEN f = sent ELSE First(Arriving') = f + 1
    BY <1>2, <1>9, ArrivingFacts, FramedTail
<1> QED
    BY <1>2, <1>6, <1>10

\* The bytes that a portion moves from the connection to buf_ stay where they are in
\* the stream.
LEMMA ReadMoves ==
    ASSUME TypeOK, NEW n \in 1 .. Len(wire), ReadAll(n)
    PROVE  /\ buf' \in Seq(Bytes(sent)) /\ wire' \in Seq(Bytes(sent))
           /\ Arriving' = Arriving
<1>1. /\ buf' = buf \o SubSeq(wire, 1, n)
      /\ wire' = SubSeq(wire, n + 1, Len(wire))
    BY DEF ReadAll, Appended
<1>2. n \in 0 .. Len(wire)
    BY ArrivingFacts
<1>3. SubSeq(wire, 1, n) \in Seq(Bytes(sent))
    BY <1>2, ArrivingFacts, PrefixFacts
<1>4. wire' \in Seq(Bytes(sent))
    BY <1>1, <1>2, ArrivingFacts, DropFacts
<1>5. buf' \in Seq(Bytes(sent))
    BY <1>1, <1>3, ArrivingFacts, ConcatProperties
<1>6. SubSeq(wire, 1, n) \o SubSeq(wire, n + 1, Len(wire)) = wire
    <2>1. /\ 1 \in 1 .. Len(wire) + 1 /\ n \in 1 - 1 .. Len(wire)
          /\ Len(wire) \in n .. Len(wire)
        BY ArrivingFacts
    <2>2. SubSeq(wire, 1, n) \o SubSeq(wire, n + 1, Len(wire)) = SubSeq(wire, 1, Len(wire))
        BY <2>1, ArrivingFacts, ConcatAdjacentSubSeq
    <2> QED
        BY <2>2, ArrivingFacts, SubSeqFull
<1>7. buf' \o wire' = buf \o wire
    <2>1. (buf \o SubSeq(wire, 1, n)) \o wire' = buf \o (SubSeq(wire, 1, n) \o wire')
        <3> DEFINE S == Bytes(sent)
                   u == SubSeq(wire, 1, n)
        <3>1. buf \in Seq(S) /\ u \in Seq(S) /\ wire' \in Seq(S)
            BY <1>3, <1>4, ArrivingFacts
        <3> HIDE DEF S, u
        <3>2. (buf \o u) \o wire' = buf \o (u \o wire')
            BY <3>1, ConcatAssociative
        <3> QED
            BY <3>2 DEF u
    <2> QED
        BY <1>1, <1>6, <2>1
<1> QED
    BY <1>4, <1>5, <1>7 DEF Arriving

\* A frame that is sent comes behind all that is there.
LEMMA SendAppends ==
    ASSUME TypeOK, SendFrame
    PROVE  /\ sent' = sent + 1 /\ sent + 1 \in 1 .. Len(PayloadLen)
           /\ buf' \in Seq(Bytes(sent')) /\ wire' \in Seq(Bytes(sent'))
           /\ Arriving' = Arriving \o Frame(sent + 1)
           /\ Frame(sent + 1) \in Seq(Bytes(sent'))
<1>1. sent' = sent + 1 /\ sent + 1 \in 1 .. Len(PayloadLen)
    BY ArrivingFacts, StreamAssumption DEF SendFrame
<1>2. Frame(sent + 1) \in Seq(Bytes(sent'))
    BY <1>1, FrameFacts
<1>3. Bytes(sent) \subseteq Bytes(sent')
    BY <1>1, ArrivingFacts DEF Bytes
<1>4. buf \in Seq(Bytes(sent')) /\ wire \in Seq(Bytes(sent'))
    BY <1>3, ArrivingFacts, SeqMonotonic
<1>5. wire' = wire \o Frame(sent + 1) /\ buf' = buf
    BY DEF SendFrame
<1>6. wire' \in Seq(Bytes(sent'))
    BY <1>2, <1>4, <1>5, ConcatProperties
<1>7. buf \o (wire \o Frame(sent + 1)) = (buf \o wire) \o Frame(sent + 1)
    BY <1>2, <1>4, ConcatAssociative
<1> QED
    BY <1>1, <1>2, <1>4, <1>5, <1>6, <1>7 DEF Arriving

\* Every step keeps the variables in their types.
LEMMA TypeStep == TypeOK /\ [Next]_vars => TypeOK'
<1> SUFFICES ASSUME TypeOK, [Next]_vars PROVE TypeOK'
    OBVIOUS
<1>0. /\ sent \in 0 .. Len(PayloadLen) /\ parsing \in BOOLEAN /\ torn \in BOOLEAN
      /\ delivered \in Seq(0 .. sent) /\ losses \in 0 .. MaxLosses
    BY DEF TypeOK
<1>1. CASE SendFrame
    <2>1. sent' \in 0 .. Len(PayloadLen)
        BY <1>1, SendAppends
    <2>2. delivered' \in Seq(0 .. sent')
        <3>1. 0 .. sent \subseteq 0 .. sent'
            BY <1>1, SendAppends, ArrivingFacts
        <3> QED
            BY <1>0, <1>1, <3>1, SeqMonotonic DEF SendFrame
    <2> QED
        BY <1>0, <1>1, <2>1, <2>2, SendAppends DEF TypeOK, Bytes, SendFrame
<1>2. CASE OnReadyRead
    <2>1. PICK n \in 1 .. Len(wire) : ReadAll(n)
        BY <1>2 DEF OnReadyRead
    <2>2. buf' \in Seq(Bytes(sent)) /\ wire' \in Seq(Bytes(sent))
        BY <2>1, ReadMoves
    <2> QED
        BY <1>0, <2>1, <2>2 DEF TypeOK, Bytes, ReadAll
<1>3. CASE NeedMore
    BY <1>3 DEF TypeOK, NeedMore
<1>4. CASE CutFrame
    <2>1. PICK len \in Lengths \ {Invalid} :
            /\ Len(buf) >= HeaderLen + len
            /\ buf' = WithoutFrame(len)
            /\ \E msg \in Messages(len) : delivered' = delivered \o msg
        BY <1>4 DEF CutFrame
    <2>2. PICK msg \in Messages(len) : delivered' = delivered \o msg
        BY <2>1
    <2>3. /\ Len(buf) >= HeaderLen /\ 1 \in 1 .. Len(buf)
        BY <1>4, ArrivingFacts DEF CutFrame
    <2>4. buf[1] \in Bytes(sent) /\ Head(buf) = buf[1]
        <3>1. buf # <<>>
            BY <2>3, EmptySeq
        <3> QED
            BY <2>3, <3>1, ArrivingFacts, ElementOfSeq
    <2>5. Head(buf)[1] \in 1 .. sent
        BY <2>4 DEF Bytes
    <2>6. len \in Nat
        <3>1. Head(buf)[1] \in 1 .. Len(PayloadLen)
            BY <2>5, ArrivingFacts, StreamAssumption
        <3>2. PayloadLen[Head(buf)[1]] \in Nat
            BY <3>1, FrameFacts
        <3> QED
            BY <2>1, <3>2, StreamAssumption DEF Lengths
    <2>7. buf' \in Seq(Bytes(sent))
        <3>1. HeaderLen + len \in 0 .. Len(buf)
            BY <2>1, <2>6, ArrivingFacts
        <3> QED
            BY <2>1, <3>1, ArrivingFacts, DropFacts DEF WithoutFrame
    <2>8. msg \in Seq(0 .. sent)
        <3>1. msg \in {<<>>, <<Junk>>, <<Head(buf)[1]>>}
            BY <2>2 DEF Messages
        <3>2. Junk \in 0 .. sent /\ Head(buf)[1] \in 0 .. sent
            BY <2>5, ArrivingFacts DEF Junk
        <3>3. \A x \in 0 .. sent : <<x>> \in Seq(0 .. sent)
            OBVIOUS
        <3>4. <<>> \in Seq(0 .. sent)
            BY EmptySeq
        <3> QED
            BY <3>1, <3>2, <3>3, <3>4
    <2>9. delivered' \in Seq(0 .. sent)
        BY <1>0, <2>2, <2>8, ConcatProperties
    <2>10. UNCHANGED <<sent, wire, losses, torn>> /\ parsing' \in BOOLEAN
        BY <1>4 DEF CutFrame, GoesOn
    <2> QED
        BY <1>0, <2>7, <2>9, <2>10 DEF TypeOK, Bytes
<1>5. CASE BadLength
    <2>1. buf' = <<>> /\ parsing' \in BOOLEAN /\ UNCHANGED <<sent, wire, delivered, losses, torn>>
        BY <1>5 DEF BadLength
    <2> QED
        BY <1>0, <2>1 DEF TypeOK
<1>6. CASE LoseConnection
    <2>1. /\ wire' = <<>> /\ losses' = losses + 1 /\ losses < MaxLosses
          /\ UNCHANGED <<sent, buf, parsing, delivered>>
        BY <1>6 DEF LoseConnection
    <2>2. torn' \in BOOLEAN
        BY <1>0, <1>6, Zenon DEF LoseConnection
    <2>3. losses' \in 0 .. MaxLosses
        BY <1>0, <2>1, StreamAssumption
    <2> QED
        BY <1>0, <2>1, <2>2, <2>3 DEF TypeOK
<1>7. CASE UNCHANGED vars
    BY <1>7 DEF TypeOK, vars
<1> QED
    BY <1>1, <1>2, <1>3, <1>4, <1>5, <1>6, <1>7 DEF Next, Parse

\* Every step keeps the framing, until a connection is lost in the middle of a frame.
LEMMA FramingStep == IInv /\ [Next]_vars => (~torn' => Framed(Arriving', sent'))
<1> SUFFICES ASSUME IInv, [Next]_vars, ~torn' PROVE Framed(Arriving', sent')
    OBVIOUS
<1>0. TypeOK
    BY DEF IInv
<1>1. CASE LoseConnection
    <2>1. buf' = <<>> /\ wire' = <<>>
        BY <1>1 DEF LoseConnection
    <2>2. Arriving' = <<>>
        BY <2>1, ConcatEmptySeq, EmptySeq DEF Arriving
    <2> QED
        BY <2>2, FramedEmpty
<1>2. CASE ~LoseConnection
    <2>0. torn' = torn
        BY <1>2 DEF Next, Parse, OnReadyRead, SendFrame, ReadAll, NeedMore, CutFrame, BadLength, vars
    <2>1. Framed(Arriving, sent)
        BY <2>0 DEF IInv, Arriving
    <2>2. CASE SendFrame
        <3>1. sent \in Nat /\ sent + 1 <= Len(PayloadLen) /\ Arriving \in Seq(Bytes(sent))
            BY <1>0, <2>2, SendAppends, ArrivingFacts
        <3>2. Framed(Arriving \o Frame(sent + 1), sent + 1)
            BY <2>1, <3>1, FramedAppend
        <3> QED
            BY <1>0, <2>2, <3>2, SendAppends
    <2>3. CASE OnReadyRead
        <3>1. PICK n \in 1 .. Len(wire) : ReadAll(n)
            BY <2>3 DEF OnReadyRead
        <3>2. Arriving' = Arriving /\ sent' = sent
            BY <1>0, <3>1, ReadMoves DEF ReadAll
        <3> QED
            BY <2>1, <3>2
    <2>4. CASE NeedMore
        BY <2>1, <2>4 DEF NeedMore, Arriving
    <2>5. CASE CutFrame
        <3>1. sent' = sent
            BY <2>5 DEF CutFrame
        <3> QED
            BY <1>0, <2>1, <2>5, <3>1, CutsRight
    <2>6. CASE BadLength
        <3>1. Invalid \in Lengths /\ Len(buf) >= HeaderLen
            BY <2>6 DEF BadLength
        <3>2. /\ Lengths = {PayloadLen[First(Arriving)]}
              /\ First(Arriving) \in 1 .. Len(PayloadLen)
            BY <1>0, <2>1, <3>1, ReadRight, ArrivingFacts, FirstFrame
        <3>3. PayloadLen[First(Arriving)] \in Nat \ {0}
            BY <3>2, FrameFacts
        <3> QED
            BY <3>1, <3>2, <3>3 DEF Invalid
    <2>7. CASE UNCHANGED vars
        BY <2>1, <2>7 DEF vars, Arriving
    <2> QED
        BY <1>2, <2>2, <2>3, <2>4, <2>5, <2>6, <2>7 DEF Next, Parse
<1> QED
    BY <1>1, <1>2

\* IInv holds of every reachable state: the stream that arrives is whole frames until
\* a connection is lost in the middle of one (tcp_client_worker.cpp:65-117).
THEOREM Invariant == Spec => []IInv
<1>1. Init => IInv
    <2> SUFFICES ASSUME Init PROVE IInv
        OBVIOUS
    <2>1. buf \o wire = <<>>
        BY ConcatEmptySeq, EmptySeq DEF Init
    <2>2. sent \in 0 .. Len(PayloadLen) /\ losses \in 0 .. MaxLosses
        BY StreamAssumption DEF Init
    <2>3. Framed(buf \o wire, sent)
        BY <2>1, FramedEmpty
    <2>4. parsing \in BOOLEAN /\ torn \in BOOLEAN
        BY Zenon DEF Init
    <2>5. wire = <<>> /\ buf = <<>> /\ delivered = <<>>
        BY DEF Init
    <2>6. TypeOK
        BY <2>2, <2>4, <2>5, EmptySeq DEF TypeOK
    <2> QED
        BY <2>3, <2>6 DEF IInv
<1>2. IInv /\ [Next]_vars => IInv'
    BY TypeStep, FramingStep DEF IInv, Arriving
<1> QED
    BY <1>1, <1>2, PTL DEF Spec

-----------------------------------------------------------------------------
(* The channel                                                             *)

\* The frame that FrameChannel expects is the one the bytes under way begin with.
LEMMA NextIsFirst ==
    /\ NextFrame = IF Arriving = <<>> THEN sent + 1 ELSE First(Arriving)
    /\ NextFrame' = IF Arriving' = <<>> THEN sent' + 1 ELSE First(Arriving')
BY DEF NextFrame, Arriving, First

\* A step of the stream is a step of the channel of frames, or none.
LEMMA StepMaps == IInv /\ IInv' /\ [Next]_vars => [Channel!Next]_Channel!vars
<1> SUFFICES ASSUME IInv, IInv', [Next]_vars PROVE [Channel!Next]_Channel!vars
    OBVIOUS
<1> USE DEF Channel!Next, Channel!vars
<1>0. TypeOK /\ TypeOK'
    BY DEF IInv
<1>1. CASE torn'
    <2>1. torn' = TRUE
        BY <1>0, <1>1, Zenon DEF TypeOK
    <2> QED
        BY <2>1 DEF Channel!Break
<1>2. CASE ~torn'
    <2>1. ~torn /\ torn' = torn
        BY <1>0, <1>2, Zenon DEF TypeOK, Next, Parse, OnReadyRead, SendFrame, ReadAll, NeedMore, CutFrame,
           BadLength, LoseConnection, vars
    <2>2. Framed(Arriving, sent) /\ Framed(Arriving', sent')
        BY <1>2, <2>1 DEF IInv, Arriving
    <2>3. CASE SendFrame
        <3>1. sent' = sent + 1 /\ delivered' = delivered
            BY <2>3 DEF SendFrame
        <3>2. NextFrame' = NextFrame
            <4> DEFINE a == Arriving
                       m == sent + 1
            <4>1. /\ m \in 1 .. Len(PayloadLen) /\ sent' = m
                  /\ Arriving' = a \o Frame(m) /\ Frame(m) \in Seq(Bytes(m))
                BY <1>0, <2>3, SendAppends
            <4>2. a \in Seq(Bytes(m))
                <5>1. Bytes(sent) \subseteq Bytes(m)
                    BY <1>0, ArrivingFacts DEF Bytes
                <5> QED
                    BY <1>0, <5>1, ArrivingFacts, SeqMonotonic
            <4> HIDE DEF m, a
            <4>3. /\ Total(m) \in Nat /\ Total(m) > HeaderLen /\ Len(Frame(m)) = Total(m)
                  /\ Frame(m)[1] = <<m, 1>>
                BY <4>1, FrameFacts
            <4>4. /\ Len(a) \in Nat /\ Arriving' # <<>>
                  /\ Arriving'[1] = IF 1 <= Len(a) THEN a[1] ELSE Frame(m)[1 - Len(a)]
                <5>1. /\ a \o Frame(m) \in Seq(Bytes(m))
                      /\ Len(a \o Frame(m)) = Len(a) + Len(Frame(m))
                      /\ \A i \in 1 .. Len(a) + Len(Frame(m)) :
                            (a \o Frame(m))[i] = IF i <= Len(a) THEN a[i] ELSE Frame(m)[i - Len(a)]
                    BY <4>1, <4>2, ConcatProperties
                <5>2. Len(a) \in Nat
                    BY <4>2, LenProperties
                <5>3. 1 \in 1 .. Len(a) + Len(Frame(m))
                    BY <4>3, <5>2
                <5>4. a \o Frame(m) # <<>>
                    <6>1. Len(a \o Frame(m)) # 0
                        BY <4>3, <5>1, <5>2
                    <6> QED
                        BY <6>1, EmptySeq
                <5> QED
                    BY <4>1, <5>1, <5>2, <5>3, <5>4
            <4>5. CASE a = <<>>
                <5>1. Len(a) = 0
                    BY <4>5, EmptySeq
                <5>2. Arriving'[1] = <<m, 1>>
                    BY <4>3, <4>4, <5>1
                <5> QED
                    BY <4>4, <4>5, <5>2, NextIsFirst DEF First, a, m
            <4>6. CASE a # <<>>
                <5>1. 1 <= Len(a)
                    BY <4>2, <4>6, EmptySeq
                <5> QED
                    BY <4>4, <4>6, <5>1, NextIsFirst DEF First, a
            <4> QED
                BY <4>5, <4>6
        <3> QED
            BY <2>1, <3>1, <3>2 DEF Channel!Send
    <2>4. CASE OnReadyRead
        <3>1. PICK n \in 1 .. Len(wire) : ReadAll(n)
            BY <2>4 DEF OnReadyRead
        <3>2. Arriving' = Arriving /\ sent' = sent /\ delivered' = delivered
            BY <1>0, <3>1, ReadMoves DEF ReadAll
        <3> QED
            BY <2>1, <3>2, NextIsFirst
    <2>5. CASE NeedMore
        <3>1. Arriving' = Arriving /\ sent' = sent /\ delivered' = delivered
            BY <2>5 DEF NeedMore, Arriving
        <3> QED
            BY <2>1, <3>1, NextIsFirst
    <2>6. CASE CutFrame
        <3> DEFINE f == First(Arriving)
        <3>1. /\ Arriving # <<>> /\ f \in 1 .. sent
              /\ delivered' = delivered \o <<f>>
              /\ IF Arriving' = <<>> THEN f = sent ELSE First(Arriving') = f + 1
            BY <1>0, <2>2, <2>6, CutsRight
        <3>2. sent' = sent
            BY <2>6 DEF CutFrame
        <3>3. NextFrame = f
            BY <3>1, NextIsFirst
        <3>4. NextFrame' = f + 1
            BY <3>1, <3>2, NextIsFirst
        <3>5. delivered' = Append(delivered, f)
            <4>1. delivered \in Seq(0 .. sent) /\ f \in 0 .. sent
                BY <1>0, <3>1, ArrivingFacts DEF TypeOK
            <4> QED
                BY <3>1, <4>1, AppendIsConcat
        <3>6. f <= sent
            BY <1>0, <3>1, ArrivingFacts
        <3> QED
            BY <2>1, <3>2, <3>3, <3>4, <3>5, <3>6 DEF Channel!Deliver
    <2>7. CASE BadLength
        <3>1. Invalid \in Lengths /\ Len(buf) >= HeaderLen
            BY <2>7 DEF BadLength
        <3>2. /\ Lengths = {PayloadLen[First(Arriving)]}
              /\ First(Arriving) \in 1 .. Len(PayloadLen)
            BY <1>0, <2>2, <3>1, ReadRight, ArrivingFacts, FirstFrame
        <3>3. PayloadLen[First(Arriving)] \in Nat \ {0}
            BY <3>2, FrameFacts
        <3> QED
            BY <3>1, <3>2, <3>3 DEF Invalid
    <2>8. CASE LoseConnection
        <3>1. buf = <<>> /\ buf' = <<>> /\ wire' = <<>> /\ sent' = sent /\ delivered' = delivered
            BY <1>2, <2>8 DEF LoseConnection
        <3>2. Arriving' = <<>>
            BY <3>1, ConcatEmptySeq, EmptySeq DEF Arriving
        <3>3. NextFrame' = sent + 1
            BY <3>1, <3>2, NextIsFirst
        <3> QED
            BY <2>1, <3>1, <3>3 DEF Channel!Lose
    <2>9. CASE UNCHANGED vars
        BY <2>9 DEF vars, NextFrame
    <2> QED
        BY <2>3, <2>4, <2>5, <2>6, <2>7, <2>8, <2>9 DEF Next, Parse
<1> QED
    BY <1>1, <1>2

\* Frames are delivered one by one in the order sent, and those under way on a
\* connection that is lost are skipped (tcp_client_worker.cpp:62-118).
THEOREM Implementation == Spec => ImplementsChannel
<1>1. Init => Channel!Init
    <2> SUFFICES ASSUME Init PROVE Channel!Init
        OBVIOUS
    <2>1. Arriving = <<>>
        BY ConcatEmptySeq, EmptySeq DEF Init, Arriving
    <2>2. NextFrame = 1
        BY <2>1, NextIsFirst DEF Init
    <2> QED
        BY <2>2, Zenon DEF Init, Channel!Init
<1> QED
    BY <1>1, Invariant, StepMaps, PTL DEF Spec, Channel!Spec, ImplementsChannel

\* Until a connection is lost in the middle of a frame, buf_ begins with the first
\* byte of a frame (tcp_client_worker.cpp:79-82, messages.h:74-85).
THEOREM Aligned == Spec => []BufferIsAligned
<1>1. IInv => BufferIsAligned
    <2> SUFFICES ASSUME IInv, ~torn, buf # <<>> PROVE Head(buf)[2] = 1
        BY DEF BufferIsAligned
    <2>1. TypeOK /\ Framed(Arriving, sent)
        BY DEF IInv, Arriving
    <2>2. 1 \in 1 .. Len(buf)
        BY <2>1, ArrivingFacts, EmptySeq
    <2>3. Arriving[1] = buf[1] /\ Arriving # <<>>
        <3>1. Len(Arriving) # 0
            BY <2>1, <2>2, ArrivingFacts
        <3> QED
            BY <2>1, <2>2, <3>1, ArrivingFacts, EmptySeq
    <2>4. Arriving[1][2] = 1
        BY <2>1, <2>3 DEF Framed
    <2> QED
        BY <2>3, <2>4
<1> QED
    BY <1>1, Invariant, PTL
=============================================================================
