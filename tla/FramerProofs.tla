---------------------------- MODULE FramerProofs ----------------------------
(***************************************************************************)
(* L3Framer for every stream of octets, every way the source hands it      *)
(* over, every maximal message length and every compaction threshold.      *)
(*                                                                         *)
(* Places are counted from the start of the stream: place base + i of it   *)
(* is octet i of the buffer, and a compaction changes neither the place of *)
(* the frame start nor that of the resumed search.                         *)
(***************************************************************************)
EXTENDS L3Framer, SequenceTheorems, WellFoundedInduction, TLAPS

-----------------------------------------------------------------------------
(* Numbers                                                                 *)

\* A set of naturals that is not empty has a least member.
LEMMA LeastMember ==
  ASSUME NEW S, S \subseteq Nat, S # {}
  PROVE  \E m \in S : \A n \in S : m <= n
<1>1. \E m \in S : \A n \in S : ~(<<n, m>> \in OpToRel(<, Nat))
  BY NatLessThanWellFounded, WFMin, Zenon
<1>2. \A m, n \in Nat : n < m => <<n, m>> \in OpToRel(<, Nat)
  BY DEF OpToRel
<1>3. \A m, n \in Nat : ~(n < m) => m <= n
  OBVIOUS
<1>4. QED
  BY <1>1, <1>2, <1>3, Zenon

LEMMA MinOfSet ==
  ASSUME NEW S, S \subseteq Nat, S # {}
  PROVE  Min(S) \in S /\ \A n \in S : Min(S) <= n
<1>1. \E m \in S : \A n \in S : m <= n
  BY LeastMember
<1>2. QED
  BY <1>1, Zenon DEF Min

LEMMA MaxOfTwo ==
  ASSUME NEW a \in Int, NEW b \in Int
  PROVE  Max({a, b}) = IF a >= b THEN a ELSE b
<1> DEFINE m == IF a >= b THEN a ELSE b
<1>1. m \in {a, b} /\ \A y \in {a, b} : m >= y
  OBVIOUS
<1>2. Max({a, b}) \in {a, b} /\ \A y \in {a, b} : Max({a, b}) >= y
  BY <1>1, Zenon DEF Max
<1>3. QED
  BY <1>1, <1>2

LEMMA MinOfTwo ==
  ASSUME NEW a \in Int, NEW b \in Int
  PROVE  Min({a, b}) = IF a <= b THEN a ELSE b
<1> DEFINE m == IF a <= b THEN a ELSE b
<1>1. m \in {a, b} /\ \A y \in {a, b} : m <= y
  OBVIOUS
<1>2. Min({a, b}) \in {a, b} /\ \A y \in {a, b} : Min({a, b}) <= y
  BY <1>1, Zenon DEF Min
<1>3. QED
  BY <1>1, <1>2

\* Induction, over a set of naturals.
LEMMA SetInduction ==
  ASSUME NEW S, 0 \in S, \A n \in Nat : n \in S => n + 1 \in S
  PROVE  Nat \subseteq S
<1> SUFFICES ASSUME Nat \ S # {} PROVE FALSE
  OBVIOUS
<1>1. PICK m \in Nat \ S : \A n \in Nat \ S : m <= n
  <2>1. Nat \ S \subseteq Nat
    OBVIOUS
  <2>2. QED
    BY <2>1, LeastMember
<1>2. m # 0 /\ m - 1 \in Nat /\ ~(m <= m - 1) /\ (m - 1) + 1 = m
  OBVIOUS
<1>3. QED
  BY <1>1, <1>2

-----------------------------------------------------------------------------
(* The reference                                                           *)

LEMMA StreamType ==
  ASSUME stream \in Streams
  PROVE  /\ stream \in Seq(0..255) /\ Len(stream) \in Nat
         /\ \A p \in 1..Len(stream) : stream[p] \in 0..255 /\ stream[p] \in Nat
<1>1. stream \in Seq(0..255)
  BY FramerAssumption
<1>2. Len(stream) \in Nat
  BY <1>1, LenProperties
<1>3. \A p \in 1..Len(stream) : stream[p] \in 0..255
  BY <1>1, ElementOfSeq, Zenon
<1>4. \A x \in 0..255 : x \in Nat
  OBVIOUS
<1>5. QED
  BY <1>1, <1>2, <1>3, <1>4, Zenon

FrameAt == [at : Nat, len : Nat]

\* What InlineFramer does at place p, given what it does behind it.
InlineStep(f, p) ==
  IF p >= Len(stream) THEN <<>>
  ELSE LET n == stream[p + 1]
       IN IF n = 0 \/ n > MaxMessage THEN f[p + 1]
          ELSE IF p + 1 + n > Len(stream) THEN <<>>
          ELSE <<[at |-> p, len |-> n + 1]>> \o f[p + 1 + n]

\* The recursion follows InlineFramer's loop over ever shorter rests, so there is
\* a function that satisfies it.
LEMMA InlineFromUnfolds ==
  ASSUME stream \in Streams
  PROVE  \A p \in 0..Len(stream) : InlineFrom[p] = InlineStep(InlineFrom, p)
<1> DEFINE L == Len(stream)
           Good(f, a) == f = [p \in a..L |-> InlineStep(f, p)]
           S == {n \in Nat : n <= L => \E f : Good(f, L - n)}
<1>1. L \in Nat /\ \A p \in 1..L : stream[p] \in Nat
  BY StreamType, Zenon
<1> HIDE DEF L
<1>2. 0 \in S
  <2> DEFINE f == [p \in L..L |-> <<>>]
  <2>1. \A p \in L..L : f[p] = InlineStep(f, p)
    BY <1>1 DEF InlineStep, L
  <2>2. Good(f, L)
    <3>1. [p \in L..L |-> InlineStep(f, p)] = [p \in L..L |-> f[p]]
      BY <2>1
    <3>2. QED
      BY <3>1
  <2> HIDE DEF f
  <2>3. L - 0 = L
    BY <1>1
  <2>4. QED
    BY <2>2, <2>3
<1>3. ASSUME NEW n \in Nat, n \in S
      PROVE  n + 1 \in S
  <2> SUFFICES ASSUME n + 1 <= L
               PROVE  \E f : Good(f, L - (n + 1))
    OBVIOUS
  <2> DEFINE a == L - (n + 1)
  <2>1. a \in Nat /\ a < L /\ L - n = a + 1
    BY <1>1
  <2> HIDE DEF a
  <2>2. PICK g : Good(g, a + 1)
    BY <1>1, <1>3, <2>1
  <2>3. \A q \in (a + 1)..L : g[q] = InlineStep(g, q)
    BY <2>2
  <2> DEFINE f == [p \in a..L |-> IF p = a THEN InlineStep(g, a) ELSE g[p]]
  <2>4. \A q \in (a + 1)..L : f[q] = g[q]
    BY <1>1, <2>1
  <2>5. f[a] = InlineStep(g, a) /\ f = [p \in a..L |-> f[p]]
    BY <1>1, <2>1
  <2> HIDE DEF f
  <2>6. ASSUME NEW p \in a..L
        PROVE  InlineStep(f, p) = InlineStep(g, p)
    <3>1. CASE p >= Len(stream)
      BY <3>1 DEF InlineStep
    <3>2. CASE ~(p >= Len(stream))
      <4>1. p + 1 \in (a + 1)..L /\ stream[p + 1] \in Nat
        BY <1>1, <2>1, <3>2 DEF L
      <4>2. f[p + 1] = g[p + 1]
        BY <2>4, <4>1
      <4>3. p + 1 + stream[p + 1] <= Len(stream) =>
              f[p + 1 + stream[p + 1]] = g[p + 1 + stream[p + 1]]
        BY <1>1, <2>1, <2>4, <4>1 DEF L
      <4>4. p + 1 + stream[p + 1] \in Int /\ Len(stream) \in Int
        BY <1>1, <2>1, <4>1 DEF L
      <4>5. QED
        BY <3>2, <4>2, <4>3, <4>4 DEF InlineStep
    <3>3. QED
      BY <3>1, <3>2
  <2>7. \A p \in a..L : f[p] = InlineStep(f, p)
    <3> SUFFICES ASSUME NEW p \in a..L PROVE f[p] = InlineStep(f, p)
      OBVIOUS
    <3>1. p = a \/ p \in (a + 1)..L
      BY <1>1, <2>1
    <3>2. f[p] = InlineStep(g, p)
      BY <2>3, <2>4, <2>5, <3>1
    <3>3. QED
      BY <2>6, <3>2
  <2>8. Good(f, a)
    BY <2>5, <2>7
  <2>9. QED
    BY <2>8 DEF a
<1>4. L \in S
  <2> HIDE DEF S
  <2>1. \A n \in Nat : n \in S => n + 1 \in S
    BY <1>3
  <2>2. QED
    BY <1>1, <1>2, <2>1, SetInduction
<1>5. PICK f : Good(f, 0)
  <2>1. \E f : Good(f, L - L)
    BY <1>1, <1>4
  <2>2. L - L = 0
    BY <1>1
  <2>3. QED
    BY <2>1, <2>2
<1>6. InlineFrom = CHOOSE h : h = [p \in 0..L |-> InlineStep(h, p)]
  BY DEF InlineFrom, InlineStep, L
<1>7. InlineFrom = [p \in 0..L |-> InlineStep(InlineFrom, p)]
  BY <1>5, <1>6
<1>8. QED
  BY <1>7 DEF L

\* Its values are sequences of frames.
LEMMA InlineFromType ==
  ASSUME stream \in Streams
  PROVE  \A p \in 0..Len(stream) : InlineFrom[p] \in Seq(FrameAt)
<1> DEFINE L == Len(stream)
           S == {n \in Nat : n <= L => \A p \in (L - n)..L : InlineFrom[p] \in Seq(FrameAt)}
<1>1. L \in Nat /\ \A p \in 1..L : stream[p] \in Nat
  BY StreamType, Zenon
<1>2. \A p \in 0..L : InlineFrom[p] = InlineStep(InlineFrom, p)
  BY InlineFromUnfolds
<1> HIDE DEF L
<1>3. 0 \in S
  <2>1. InlineFrom[L] = <<>>
    <3>1. L \in 0..L /\ L >= Len(stream)
      BY <1>1 DEF L
    <3>2. QED
      BY <1>2, <3>1, Zenon DEF InlineStep
  <2>2. <<>> \in Seq(FrameAt)
    OBVIOUS
  <2>3. \A p \in (L - 0)..L : p = L
    BY <1>1
  <2>4. QED
    BY <2>1, <2>2, <2>3
<1>4. ASSUME NEW n \in Nat, n \in S
      PROVE  n + 1 \in S
  <2> SUFFICES ASSUME n + 1 <= L, NEW p \in (L - (n + 1))..L
               PROVE  InlineFrom[p] \in Seq(FrameAt)
    OBVIOUS
  <2>1. \A q \in (L - n)..L : InlineFrom[q] \in Seq(FrameAt)
    BY <1>1, <1>4
  <2>2. CASE p # L - (n + 1)
    BY <1>1, <2>1, <2>2
  <2>3. CASE p = L - (n + 1)
    <3>1. /\ p \in Nat /\ p < L /\ L - n = p + 1 /\ ~(p >= Len(stream))
          /\ stream[p + 1] \in Nat
          /\ InlineFrom[p] = InlineStep(InlineFrom, p)
      BY <1>1, <1>2, <2>3 DEF L
    <3>2. CASE stream[p + 1] = 0 \/ stream[p + 1] > MaxMessage
      BY <1>1, <2>1, <3>1, <3>2 DEF InlineStep
    <3>3. CASE ~(stream[p + 1] = 0 \/ stream[p + 1] > MaxMessage)
                /\ p + 1 + stream[p + 1] > Len(stream)
      BY <3>1, <3>3 DEF InlineStep
    <3>4. CASE ~(stream[p + 1] = 0 \/ stream[p + 1] > MaxMessage)
                /\ ~(p + 1 + stream[p + 1] > Len(stream))
      <4>1. p + 1 + stream[p + 1] \in (p + 1)..L
        BY <1>1, <3>1, <3>4 DEF L
      <4>2. InlineFrom[p + 1 + stream[p + 1]] \in Seq(FrameAt)
        BY <2>1, <3>1, <4>1
      <4>3. <<[at |-> p, len |-> stream[p + 1] + 1]>> \in Seq(FrameAt)
        BY <3>1 DEF FrameAt
      <4>4. InlineFrom[p] = <<[at |-> p, len |-> stream[p + 1] + 1]>>
                              \o InlineFrom[p + 1 + stream[p + 1]]
        BY <3>1, <3>4 DEF InlineStep
      <4>5. QED
        BY <4>2, <4>3, <4>4, ConcatProperties
    <3>5. QED
      BY <3>2, <3>3, <3>4
  <2>4. QED
    BY <2>2, <2>3
<1>5. L \in S
  <2> HIDE DEF S
  <2>1. \A n \in Nat : n \in S => n + 1 \in S
    BY <1>4
  <2>2. QED
    BY <1>1, <1>3, <2>1, SetInduction
<1>6. QED
  BY <1>1, <1>5 DEF L

-----------------------------------------------------------------------------
(* The inductive invariant                                                 *)

\* The octet at a place, and the length of a fixed-length frame that starts there.
At(p) == stream[p + 1]
FixedAt(p) == FixedFrameLength(At(p), At(p + 1))

ExtractedFrame == [at : Nat, len : Nat, how : {"l2", "fixed", "boundary", "tail"}]

\* The buffer is a window on the stream.
BufferSound ==
  /\ stream \in Streams /\ useL2 \in BOOLEAN /\ done \in BOOLEAN
  /\ base \in Nat /\ buf \in Seq(0..255) /\ pos \in 0..End
  /\ base + End <= Len(stream)
  /\ \A i \in 1..End : buf[i] = stream[base + i]
  /\ frames \in Seq(ExtractedFrame)

\* The search has passed a plausible octet only at the edge of a read.  The edge
\* of the present buffer counts while the search that failed there goes on.  A
\* fixed-length frame ahead needs no search: its extraction resets the cached
\* position, which octets skipped before it may have overtaken.
ScanSound ==
  /\ scanPos \in Nat
  /\ useL2 => scanPos = 0
  /\ ~done =>
       /\ scanPos > 0 => Left >= 2
       /\ \/ Left >= 2 /\ FixedAt(base + pos) # 0
          \/ /\ scanPos <= End
             /\ \A q \in (base + pos + 2)..(base + scanPos - 1) :
                  Plausible(At(q)) =>
                    q + 1 \in edges \/ (q + 1 = base + End /\ SearchFailed)

\* What is left for InlineFramer follows what was returned.
InlineSound == useL2 => Returned \o InlineFrom[base + pos] = InlineFrames

FramesSound ==
  /\ BoundaryOverlookedAtEdgesOnly
  /\ useL2 /\ done => InlineFrom[base + pos] = <<>>

Inv == BufferSound /\ ScanSound /\ InlineSound /\ FramesSound

-----------------------------------------------------------------------------
(* What an attempt comes to                                                *)

LEMMA FixedFacts ==
  ASSUME NEW b0, NEW b1
  PROVE  /\ FixedFrameLength(b0, b1) \in Nat
         /\ FixedFrameLength(b0, b1) # 0 => PD(b0) \notin ReservedPDs
<1> DEFINE hits == {f \in FixedFrames : f[1] = PD(b0) /\ f[2] = MessageType(b0, b1)}
<1>1. \A f \in FixedFrames : f[3] \in Nat /\ f[1] \notin ReservedPDs
  BY DEF FixedFrames, ReservedPDs
<1>2. CASE hits = {}
  BY <1>2 DEF FixedFrameLength
<1>3. CASE hits # {}
  <2>1. (CHOOSE f \in hits : TRUE) \in hits
    BY <1>3
  <2>2. FixedFrameLength(b0, b1) = (CHOOSE f \in hits : TRUE)[3]
    BY <1>3 DEF FixedFrameLength
  <2>3. QED
    BY <1>1, <2>1, <2>2
<1>4. QED
  BY <1>2, <1>3

LEMMA Places ==
  ASSUME BufferSound
  PROVE  /\ End \in Nat /\ Left \in Nat /\ Left = End - pos /\ Len(stream) \in Nat
         /\ base + pos \in 0..Len(stream)
         /\ \A j \in 0..(End - 1) : Octet(j) = At(base + j) /\ Octet(j) \in 0..255
         /\ Left >= 2 => /\ Octet(pos) = At(base + pos)
                         /\ Octet(pos + 1) = At(base + pos + 1)
<1>1. /\ base \in Nat /\ buf \in Seq(0..255) /\ pos \in 0..Len(buf) /\ stream \in Streams
      /\ base + Len(buf) <= Len(stream)
      /\ \A i \in 1..Len(buf) : buf[i] = stream[base + i]
  BY DEF BufferSound, End
<1>2. Len(buf) \in Nat /\ \A i \in 1..Len(buf) : buf[i] \in 0..255
  BY <1>1, LenProperties, ElementOfSeq, Zenon
<1>3. Len(stream) \in Nat
  BY <1>1, StreamType
<1>4. \A j \in 0..(Len(buf) - 1) : Octet(j) = At(base + j) /\ Octet(j) \in 0..255
  <2> SUFFICES ASSUME NEW j \in 0..(Len(buf) - 1)
               PROVE  Octet(j) = At(base + j) /\ Octet(j) \in 0..255
    OBVIOUS
  <2>1. j + 1 \in 1..Len(buf) /\ base + (j + 1) = base + j + 1
    BY <1>1, <1>2
  <2>2. QED
    BY <1>1, <1>2, <2>1 DEF Octet, At
<1>5. QED
  BY <1>1, <1>2, <1>3, <1>4 DEF End, Left

LEMMA BoundaryPlaces ==
  ASSUME BufferSound, scanPos \in Nat
  PROVE  /\ ScanFrom = (IF scanPos >= pos + 2 THEN scanPos ELSE pos + 2)
         /\ ScanFrom \in Nat /\ ScanFrom >= pos + 2
         /\ Boundaries \subseteq Nat
         /\ \A i : i \in Boundaries <=>
              i \in ScanFrom..(End - 2) /\ i < pos + 2 + MaxMessage /\ Plausible(At(base + i))
<1>1. pos \in Nat /\ End \in Nat
  BY Places DEF BufferSound
<1>2. ScanFrom = (IF scanPos >= pos + 2 THEN scanPos ELSE pos + 2)
  BY <1>1, MaxOfTwo DEF ScanFrom
<1>3. ScanFrom \in Nat /\ ScanFrom >= pos + 2
  BY <1>1, <1>2
<1>4. \A i \in ScanFrom..(End - 2) : i \in Nat /\ Octet(i) = At(base + i)
  BY <1>1, <1>3, Places
<1>5. QED
  BY <1>2, <1>3, <1>4 DEF Boundaries

LEMMA Outcomes ==
  /\ More.r = "more" /\ Skipped.r = "skip" /\ Skipped.len = 1
  /\ \A how, len : /\ Got(how, len).r = "frame"
                    /\ Got(how, len).how = how /\ Got(how, len).len = len
BY DEF More, Skipped, Got

\* Header mode.
LEMMA HeaderAttempt ==
  ASSUME BufferSound, scanPos \in Nat, ~useL2
  PROVE  /\ Attempt.r = "more" =>
              Left < 2 \/ (Left >= 2 /\ FixedAt(base + pos) # 0) \/ SearchFailed
         /\ Attempt.r = "skip" =>
              Left >= 4 /\ FixedAt(base + pos) = 0 /\ Boundaries # {}
         /\ Attempt.r = "frame" =>
              /\ Attempt.len \in Nat /\ Attempt.len <= Left
              /\ Attempt.how \in {"fixed", "boundary"}
              /\ Attempt.how = "boundary" =>
                   /\ Left >= 2 /\ FixedAt(base + pos) = 0 /\ Boundaries # {}
                   /\ Attempt.len = Min(Boundaries) - pos
<1> DEFINE fixed == FixedFrameLength(Octet(pos), Octet(pos + 1))
<1>1. pos \in Nat /\ End \in Nat /\ Left \in Nat /\ Left = End - pos
  BY Places DEF BufferSound
<1>2. CASE Left < 2
  BY <1>2 DEF Attempt, MinHeader, More
<1>3. CASE Left >= 2
  <2>1. Attempt = ExtractHeader /\ fixed = FixedAt(base + pos)
    <3>1. base + (pos + 1) = base + pos + 1
      BY <1>1 DEF BufferSound
    <3>2. QED
      BY <1>1, <1>3, <3>1, Places DEF Attempt, MinHeader, FixedAt
  <2>2. fixed \in Nat /\ (fixed # 0 => PD(Octet(pos)) \notin ReservedPDs)
    BY FixedFacts
  <2>3. CASE fixed # 0
    <3>1. Attempt = Checked("fixed", fixed)
      BY <2>1, <2>3 DEF ExtractHeader
    <3> HIDE DEF fixed
    <3>2. Attempt = IF Left < fixed THEN More ELSE Got("fixed", fixed)
      BY <2>2, <2>3, <3>1 DEF Checked, fixed
    <3>3. CASE Left < fixed
      <4>1. Attempt.r = "more"
        BY <3>2, <3>3, Outcomes
      <4>2. QED
        BY <1>3, <2>1, <2>3, <4>1
    <3>4. CASE ~(Left < fixed)
      <4>1. Attempt.r = "frame" /\ Attempt.how = "fixed" /\ Attempt.len = fixed
        BY <3>2, <3>4, Outcomes, Zenon
      <4>2. fixed <= Left
        BY <1>1, <2>2, <3>4
      <4>3. QED
        BY <2>2, <4>1, <4>2
    <3>5. QED
      BY <3>3, <3>4
  <2>4. CASE fixed = 0 /\ Boundaries = {}
    <3>1. Attempt = More /\ SearchFailed
      BY <1>3, <2>1, <2>4 DEF ExtractHeader, SearchFailed, MinHeader
    <3>2. QED
      BY <3>1 DEF More
  <2>5. CASE fixed = 0 /\ Boundaries # {}
    <3> DEFINE b == Min(Boundaries)
    <3>1. b \in Boundaries /\ Boundaries \subseteq Nat
      BY <2>5, BoundaryPlaces, MinOfSet
    <3>2. b \in Nat /\ b >= pos + 2 /\ b <= End - 2
      BY <1>1, <3>1, BoundaryPlaces
    <3>3. Attempt = IF b - pos > MaxMessage THEN Skipped ELSE Checked("boundary", b - pos)
      BY <2>1, <2>5 DEF ExtractHeader
    <3> HIDE DEF b, fixed
    <3>4. Attempt \in {Skipped, Got("boundary", b - pos)}
      BY <1>1, <3>2, <3>3 DEF Checked
    <3>5. b - pos \in Nat /\ b - pos <= Left /\ Left >= 4
      BY <1>1, <3>2
    <3>6. FixedAt(base + pos) = 0 /\ Boundaries # {}
      BY <2>1, <2>5
    <3>7. CASE Attempt = Skipped
      <4>1. Attempt.r = "skip"
        BY <3>7, Outcomes
      <4>2. QED
        BY <3>5, <3>6, <4>1
    <3>8. CASE Attempt = Got("boundary", b - pos)
      <4>1. Attempt.r = "frame" /\ Attempt.how = "boundary" /\ Attempt.len = b - pos
        BY <3>8, Outcomes, Zenon
      <4>2. QED
        BY <1>3, <3>5, <3>6, <4>1 DEF b
    <3>9. QED
      BY <3>4, <3>7, <3>8
  <2>6. QED
    BY <2>2, <2>3, <2>4, <2>5
<1>4. QED
  BY <1>1, <1>2, <1>3

\* L2 mode: the length octet decides, as in InlineFramer.
LEMMA L2Attempt ==
  ASSUME BufferSound, useL2
  PROVE  /\ Attempt.r = "skip" =>
              Left >= 2 /\ (At(base + pos) = 0 \/ At(base + pos) > MaxMessage)
         /\ Attempt.r = "frame" =>
              /\ Left >= 2 /\ At(base + pos) # 0 /\ ~(At(base + pos) > MaxMessage)
              /\ At(base + pos) \in Nat
              /\ Attempt.len = At(base + pos) + 1 /\ Attempt.len <= Left
              /\ Attempt.how = "l2"
         /\ Attempt.r = "more" =>
              \/ Left < 2
              \/ /\ At(base + pos) # 0 /\ ~(At(base + pos) > MaxMessage)
                 /\ At(base + pos) \in Nat /\ Left < At(base + pos) + 1
<1>1. pos \in Nat /\ End \in Nat /\ Left \in Nat /\ Left = End - pos
  BY Places DEF BufferSound
<1>2. CASE Left < 2
  BY <1>2 DEF Attempt, MinHeader, More
<1>3. CASE Left >= 2
  <2>1. Attempt = ExtractL2
    BY <1>1, <1>3 DEF Attempt, MinHeader
  <2>2. pos \in 0..(End - 1)
    BY <1>1, <1>3
  <2>3. Octet(pos) = At(base + pos) /\ Octet(pos) \in 0..255
    BY <2>2, Places, Zenon
  <2> DEFINE n == At(base + pos)
  <2>4. n \in Nat
    BY <2>3
  <2>5. CASE n = 0 \/ n > MaxMessage
    <3>1. Attempt = Skipped
      BY <2>1, <2>3, <2>5, Zenon DEF ExtractL2
    <3>2. Attempt.r = "skip"
      BY <3>1, Outcomes
    <3>3. QED
      BY <1>3, <2>5, <3>2
  <2>6. CASE ~(n = 0 \/ n > MaxMessage) /\ Left < n + 1
    <3>1. Attempt = More
      BY <2>1, <2>3, <2>6, Zenon DEF ExtractL2
    <3>2. Attempt.r = "more"
      BY <3>1, Outcomes
    <3>3. QED
      BY <2>4, <2>6, <3>2
  <2>7. CASE ~(n = 0 \/ n > MaxMessage) /\ ~(Left < n + 1)
    <3>1. Attempt = Got("l2", n + 1)
      BY <2>1, <2>3, <2>7, Zenon DEF ExtractL2
    <3> HIDE DEF n
    <3>2. Attempt.r = "frame" /\ Attempt.how = "l2" /\ Attempt.len = n + 1
      BY <3>1, Outcomes, Zenon
    <3>3. n + 1 <= Left
      BY <1>1, <2>4, <2>7
    <3>4. QED
      BY <1>3, <2>4, <2>7, <3>2, <3>3 DEF n
  <2>8. QED
    BY <2>5, <2>6, <2>7
<1>4. QED
  BY <1>1, <1>2, <1>3

-----------------------------------------------------------------------------
(* The parts of the invariant, step by step                                *)

LEMMA BufferMoved ==
  ASSUME BufferSound, UNCHANGED <<stream, useL2, buf, base>>, pos' \in 0..End,
         done' \in BOOLEAN, frames' \in Seq(ExtractedFrame)
  PROVE  BufferSound'
BY DEF BufferSound, End

\* A search that starts afresh has passed nothing.
LEMMA ScanReset ==
  ASSUME BufferSound', scanPos' = 0
  PROVE  ScanSound'
<1>1. base' \in Nat /\ pos' \in Nat /\ End' \in Nat
  <2>1. buf' \in Seq(0..255) /\ base' \in Nat /\ pos' \in 0..End'
    BY DEF BufferSound
  <2>2. End' \in Nat
    BY <2>1, LenProperties DEF End
  <2>3. QED
    BY <2>1, <2>2
<1>2. \A q \in (base' + pos' + 2)..(base' + scanPos' - 1) : FALSE
  <2>1. \A a, b \in Nat : \A q \in (a + b + 2)..(a + 0 - 1) : FALSE
    OBVIOUS
  <2>2. \A q \in (base' + pos' + 2)..(base' + 0 - 1) : FALSE
    BY <1>1, <2>1, Zenon
  <2>3. QED
    BY <2>2, Zenon
<1>3. scanPos' \in Nat /\ ~(scanPos' > 0) /\ scanPos' <= End'
  BY <1>1
<1>4. QED
  BY <1>2, <1>3, Zenon DEF ScanSound

\* The boundary property of one frame.
GoodFrame(f, s, e) ==
  f.how = "boundary" =>
    /\ Plausible(s[f.at + f.len + 1])
    /\ \A j \in 2..(f.len - 1) : Plausible(s[f.at + j + 1]) => (f.at + j + 1) \in e

LEMMA BoundaryKept ==
  ASSUME BoundaryOverlookedAtEdgesOnly, stream' = stream, frames' = frames, edges \subseteq edges'
  PROVE  BoundaryOverlookedAtEdgesOnly'
<1>1. \A i \in DOMAIN frames : GoodFrame(frames[i], stream, edges)
  BY DEF BoundaryOverlookedAtEdgesOnly, GoodFrame
<1>2. \A i \in DOMAIN frames : GoodFrame(frames[i], stream, edges')
  BY <1>1 DEF GoodFrame
<1>3. QED
  BY <1>2 DEF BoundaryOverlookedAtEdgesOnly, GoodFrame

LEMMA BoundaryAppended ==
  ASSUME BoundaryOverlookedAtEdgesOnly, BufferSound, stream' = stream, edges' = edges,
         NEW x \in ExtractedFrame, frames' = Append(frames, x), GoodFrame(x, stream, edges)
  PROVE  BoundaryOverlookedAtEdgesOnly' /\ frames' \in Seq(ExtractedFrame)
<1>1. \A i \in DOMAIN frames : GoodFrame(frames[i], stream, edges)
  BY DEF BoundaryOverlookedAtEdgesOnly, GoodFrame
<1>2. frames \in Seq(ExtractedFrame)
  BY DEF BufferSound
<1>3. /\ frames' \in Seq(ExtractedFrame) /\ Len(frames') = Len(frames) + 1
      /\ \A i \in 1..Len(frames) : frames'[i] = frames[i]
      /\ frames'[Len(frames) + 1] = x
  BY <1>2, AppendProperties
<1>4. /\ Len(frames) \in Nat /\ DOMAIN frames = 1..Len(frames)
      /\ DOMAIN frames' = 1..Len(frames')
  BY <1>2, <1>3, LenProperties
<1>5. \A i \in DOMAIN frames' : i \in DOMAIN frames \/ i = Len(frames) + 1
  BY <1>3, <1>4
<1>6. \A i \in DOMAIN frames' : GoodFrame(frames'[i], stream, edges)
  <2> SUFFICES ASSUME NEW i \in DOMAIN frames' PROVE GoodFrame(frames'[i], stream, edges)
    OBVIOUS
  <2>1. CASE i \in DOMAIN frames
    <3>1. frames'[i] = frames[i]
      BY <1>3, <1>4, <2>1
    <3>2. QED
      BY <1>1, <2>1, <3>1
  <2>2. CASE i = Len(frames) + 1
    BY <1>3, <2>2
  <2>3. QED
    BY <1>5, <2>1, <2>2
<1>7. BoundaryOverlookedAtEdgesOnly'
  BY <1>6 DEF BoundaryOverlookedAtEdgesOnly, GoodFrame
<1>8. QED
  BY <1>3, <1>7

LEMMA InlineKept ==
  ASSUME stream' = stream
  PROVE  InlineFrom' = InlineFrom /\ InlineFrames' = InlineFrames
BY DEF InlineFrames, InlineFrom

LEMMA ReturnedType ==
  ASSUME frames \in Seq(ExtractedFrame)
  PROVE  Returned \in Seq(FrameAt)
<1>1. \A i \in 1..Len(frames) : frames[i] \in ExtractedFrame
  BY ElementOfSeq, Zenon
<1>2. DOMAIN frames = 1..Len(frames) /\ Len(frames) \in Nat
  BY LenProperties
<1>3. \A i \in 1..Len(frames) : [at |-> frames[i].at, len |-> frames[i].len] \in FrameAt
  BY <1>1 DEF ExtractedFrame, FrameAt
<1>4. QED
  BY <1>2, <1>3 DEF Returned

LEMMA ReturnedAppended ==
  ASSUME BufferSound, NEW x \in ExtractedFrame, frames' = Append(frames, x)
  PROVE  Returned' = Returned \o <<[at |-> x.at, len |-> x.len]>>
<1> DEFINE y == [at |-> x.at, len |-> x.len]
<1>1. frames \in Seq(ExtractedFrame)
  BY DEF BufferSound
<1>2. /\ frames' \in Seq(ExtractedFrame) /\ Len(frames') = Len(frames) + 1
      /\ \A i \in 1..Len(frames) : frames'[i] = frames[i]
      /\ frames'[Len(frames) + 1] = x
  BY <1>1, AppendProperties
<1>3. /\ Len(frames) \in Nat /\ DOMAIN frames = 1..Len(frames)
      /\ DOMAIN frames' = 1..(Len(frames) + 1)
  BY <1>1, <1>2, LenProperties
<1>4. Returned \in Seq(FrameAt) /\ Len(Returned) = Len(frames)
  BY <1>1, <1>3, ReturnedType DEF Returned
<1>5. y \in FrameAt
  BY DEF ExtractedFrame, FrameAt
<1> HIDE DEF y
<1>6. /\ Returned \o <<y>> \in Seq(FrameAt)
      /\ Len(Returned \o <<y>>) = Len(frames) + 1
      /\ \A i \in 1..Len(frames) : (Returned \o <<y>>)[i] = Returned[i]
      /\ (Returned \o <<y>>)[Len(frames) + 1] = y
  BY <1>3, <1>4, <1>5
<1>7. Returned' = [i \in 1..(Len(frames) + 1) |-> [at |-> frames'[i].at, len |-> frames'[i].len]]
  BY <1>3 DEF Returned
<1>8. \A i \in 1..(Len(frames) + 1) :
         [at |-> frames'[i].at, len |-> frames'[i].len] = (Returned \o <<y>>)[i]
  <2> SUFFICES ASSUME NEW i \in 1..(Len(frames) + 1)
               PROVE  [at |-> frames'[i].at, len |-> frames'[i].len] = (Returned \o <<y>>)[i]
    OBVIOUS
  <2>1. CASE i \in 1..Len(frames)
    <3>1. Returned[i] = [at |-> frames[i].at, len |-> frames[i].len]
      BY <1>3, <2>1 DEF Returned
    <3>2. QED
      BY <1>2, <1>6, <2>1, <3>1
  <2>2. CASE i = Len(frames) + 1
    BY <1>2, <1>6, <2>2 DEF y
  <2>3. i \in 1..Len(frames) \/ i = Len(frames) + 1
    BY <1>3
  <2>4. QED
    BY <2>1, <2>2, <2>3
<1>9. Returned \o <<y>> = [i \in 1..(Len(frames) + 1) |-> (Returned \o <<y>>)[i]]
  BY <1>6, LenProperties
<1>10. QED
  BY <1>7, <1>8, <1>9 DEF y

\* A frame cut at a boundary: before the resumed search by what ScanSound says,
\* behind it because the boundary is the first one.
LEMMA BoundaryFrame ==
  ASSUME BufferSound, ScanSound, ~done, ~useL2, Attempt.r = "frame", Attempt.how = "boundary"
  PROVE  /\ Plausible(stream[base + pos + Attempt.len + 1])
         /\ \A j \in 2..(Attempt.len - 1) :
              Plausible(stream[base + pos + j + 1]) => base + pos + j + 1 \in edges
<1> DEFINE b == Min(Boundaries)
<1>1. /\ base \in Nat /\ pos \in Nat /\ End \in Nat /\ scanPos \in Nat
      /\ Left = End - pos /\ MaxMessage \in Nat
  BY Places, FramerAssumption DEF BufferSound, ScanSound
<1>2. Left >= 2 /\ FixedAt(base + pos) = 0 /\ Boundaries # {} /\ Attempt.len = b - pos
  BY <1>1, HeaderAttempt
<1>3. b \in Boundaries /\ Boundaries \subseteq Nat /\ \A n \in Boundaries : b <= n
  BY <1>1, <1>2, BoundaryPlaces, MinOfSet
<1> HIDE DEF b
<1>4. /\ b \in Nat /\ b <= End - 2 /\ b < pos + 2 + MaxMessage /\ Plausible(At(base + b))
      /\ ScanFrom \in Nat /\ ScanFrom >= pos + 2
      /\ ScanFrom = (IF scanPos >= pos + 2 THEN scanPos ELSE pos + 2)
  BY <1>1, <1>3, BoundaryPlaces
<1>5. base + pos + Attempt.len + 1 = base + b + 1
  BY <1>1, <1>2, <1>4
<1>6. ~SearchFailed
  BY <1>2 DEF SearchFailed
<1>7. \A q \in (base + pos + 2)..(base + scanPos - 1) : Plausible(At(q)) => q + 1 \in edges
  BY <1>2, <1>6 DEF ScanSound
<1>8. ASSUME NEW j \in 2..(Attempt.len - 1), Plausible(stream[base + pos + j + 1])
      PROVE  base + pos + j + 1 \in edges
  <2>1. /\ j \in Nat /\ j >= 2 /\ pos + j < b /\ pos + j \in Nat
        /\ base + (pos + j) = base + pos + j /\ base + pos + j \in Nat
    BY <1>1, <1>2, <1>4
  <2>2. Plausible(At(base + pos + j)) /\ Plausible(At(base + (pos + j)))
    BY <1>8, <2>1 DEF At
  <2>3. CASE pos + j < scanPos
    <3>1. base + pos + j \in (base + pos + 2)..(base + scanPos - 1)
      BY <1>1, <2>1, <2>3
    <3>2. QED
      BY <1>7, <2>2, <3>1
  <2>4. CASE ~(pos + j < scanPos)
    <3>1. pos + j \in ScanFrom..(End - 2) /\ pos + j < pos + 2 + MaxMessage /\ ~(b <= pos + j)
      BY <1>1, <1>4, <2>1, <2>4
    <3>2. pos + j \in Boundaries
      BY <1>1, <2>2, <3>1, BoundaryPlaces, Zenon
    <3>3. QED
      BY <1>3, <3>1, <3>2
  <2>5. QED
    BY <2>3, <2>4
<1>9. QED
  BY <1>4, <1>5, <1>8 DEF At

LEMMA InvFacts ==
  ASSUME Inv
  PROVE  /\ BufferSound /\ ScanSound /\ InlineSound /\ FramesSound
         /\ BoundaryOverlookedAtEdgesOnly
         /\ scanPos \in Nat /\ stream \in Streams /\ useL2 \in BOOLEAN /\ done \in BOOLEAN
         /\ base \in Nat /\ pos \in Nat /\ End \in Nat /\ Left \in Nat /\ Left = End - pos
         /\ Len(stream) \in Nat /\ base + End <= Len(stream)
         /\ frames \in Seq(ExtractedFrame)
<1>1. BufferSound /\ ScanSound /\ InlineSound /\ FramesSound
  BY DEF Inv
<1>2. scanPos \in Nat /\ BoundaryOverlookedAtEdgesOnly
  BY <1>1 DEF ScanSound, FramesSound
<1>3. /\ stream \in Streams /\ useL2 \in BOOLEAN /\ done \in BOOLEAN /\ base \in Nat
      /\ pos \in 0..End /\ base + End <= Len(stream) /\ frames \in Seq(ExtractedFrame)
  BY <1>1 DEF BufferSound
<1>4. End \in Nat /\ Left \in Nat /\ Left = End - pos /\ Len(stream) \in Nat
  BY <1>1, Places
<1>5. pos \in Nat
  BY <1>3, <1>4
<1>6. QED
  BY <1>1, <1>2, <1>3, <1>4, <1>5

LEMMA ExtractKeeps ==
  ASSUME Inv, Extract
  PROVE  Inv'
<1> DEFINE x == [at |-> base + pos, len |-> Attempt.len, how |-> Attempt.how]
<1>1. /\ BufferSound /\ ScanSound /\ InlineSound /\ BoundaryOverlookedAtEdgesOnly
      /\ scanPos \in Nat /\ stream \in Streams /\ useL2 \in BOOLEAN
      /\ base \in Nat /\ pos \in Nat /\ End \in Nat /\ Left = End - pos /\ Len(stream) \in Nat
      /\ base + End <= Len(stream)
  BY InvFacts
<1>2. /\ ~done /\ Attempt.r = "frame" /\ frames' = Append(frames, x)
      /\ pos' = pos + Attempt.len /\ scanPos' = 0
      /\ UNCHANGED <<stream, useL2, buf, base, edges, done>>
  BY DEF Extract, Take, const
<1> HIDE DEF x
<1>3. /\ Attempt.len \in Nat /\ Attempt.len <= Left
      /\ Attempt.how \in {"l2", "fixed", "boundary"}
      /\ useL2 => Attempt.how = "l2"
  <2>1. CASE useL2
    BY <1>1, <1>2, <2>1, L2Attempt
  <2>2. CASE ~useL2
    BY <1>1, <1>2, <2>2, HeaderAttempt
  <2>3. QED
    BY <2>1, <2>2
<1>4. /\ x \in ExtractedFrame
      /\ x.at = base + pos /\ x.len = Attempt.len /\ x.how = Attempt.how
  BY <1>1, <1>3 DEF x, ExtractedFrame
<1>5. GoodFrame(x, stream, edges)
  <2> SUFFICES ASSUME x.how = "boundary"
               PROVE  /\ Plausible(stream[x.at + x.len + 1])
                      /\ \A j \in 2..(x.len - 1) :
                           Plausible(stream[x.at + j + 1]) => (x.at + j + 1) \in edges
    BY DEF GoodFrame
  <2>1. ~useL2 /\ Attempt.how = "boundary"
    BY <1>3, <1>4
  <2>2. QED
    BY <1>1, <1>2, <1>4, <2>1, BoundaryFrame
<1>6. BoundaryOverlookedAtEdgesOnly' /\ frames' \in Seq(ExtractedFrame)
  BY <1>1, <1>2, <1>4, <1>5, BoundaryAppended
<1>7. BufferSound'
  <2>1. pos' \in 0..End
    BY <1>1, <1>2, <1>3
  <2>2. QED
    BY <1>1, <1>2, <1>6, <2>1, BufferMoved DEF BufferSound
<1>8. ScanSound'
  BY <1>2, <1>7, ScanReset
<1>9. InlineSound'
  <2> SUFFICES ASSUME useL2
               PROVE  Returned' \o InlineFrom'[base' + pos'] = InlineFrames'
    BY <1>2 DEF InlineSound
  <2> DEFINE n == At(base + pos)
             p == base + pos
  <2>1. /\ n # 0 /\ ~(n > MaxMessage) /\ n \in Nat
        /\ Attempt.len = n + 1 /\ n + 1 <= Left
    BY <1>1, <1>2, L2Attempt
  <2> HIDE DEF n
  <2>2. /\ p \in 0..Len(stream) /\ ~(p >= Len(stream)) /\ ~(p + 1 + n > Len(stream))
        /\ p + 1 + n \in 0..Len(stream) /\ base' + pos' = p + 1 + n
    BY <1>1, <1>2, <2>1
  <2> HIDE DEF p
  <2>3. InlineFrom[p] = <<[at |-> p, len |-> n + 1]>> \o InlineFrom[p + 1 + n]
    <3>1. InlineFrom[p] = InlineStep(InlineFrom, p) /\ stream[p + 1] = n
      BY <1>1, <2>2, InlineFromUnfolds DEF n, p, At
    <3>2. QED
      BY <2>1, <2>2, <3>1, Zenon DEF InlineStep
  <2>4. Returned' = Returned \o <<[at |-> p, len |-> n + 1]>>
    BY <1>1, <1>2, <1>4, <2>1, ReturnedAppended DEF p
  <2>5. /\ Returned \in Seq(FrameAt) /\ InlineFrom[p + 1 + n] \in Seq(FrameAt)
        /\ <<[at |-> p, len |-> n + 1]>> \in Seq(FrameAt)
    <3>1. [at |-> p, len |-> n + 1] \in FrameAt
      BY <1>1, <2>1 DEF FrameAt, p
    <3>2. QED
      BY <1>1, <2>2, <3>1, ReturnedType, InlineFromType DEF BufferSound
  <2>6. (Returned \o <<[at |-> p, len |-> n + 1]>>) \o InlineFrom[p + 1 + n]
          = Returned \o (<<[at |-> p, len |-> n + 1]>> \o InlineFrom[p + 1 + n])
    <3> DEFINE y == <<[at |-> p, len |-> n + 1]>>
               z == InlineFrom[p + 1 + n]
    <3>1. Returned \in Seq(FrameAt) /\ y \in Seq(FrameAt) /\ z \in Seq(FrameAt)
      BY <2>5
    <3> HIDE DEF y, z
    <3>2. (Returned \o y) \o z = Returned \o (y \o z)
      BY <3>1, ConcatAssociative
    <3>3. QED
      BY <3>2 DEF y, z
  <2>7. Returned \o InlineFrom[p] = InlineFrames
    BY <1>1 DEF InlineSound, p
  <2>8. QED
    BY <1>2, <2>2, <2>3, <2>4, <2>6, <2>7, InlineKept
<1>10. QED
  BY <1>2, <1>6, <1>7, <1>8, <1>9 DEF Inv, FramesSound

LEMMA InitInv ==
  ASSUME Init
  PROVE  Inv
<1>1. /\ stream \in Streams /\ useL2 \in BOOLEAN /\ buf = <<>> /\ pos = 0 /\ scanPos = 0
      /\ base = 0 /\ frames = <<>> /\ done = FALSE
  BY DEF Init
<1>2. stream \in Seq(0..255) /\ Len(stream) \in Nat
  BY <1>1, StreamType
<1>3. End = 0 /\ Left = 0
  BY <1>1 DEF End, Left
<1>4. BufferSound
  <2>1. buf \in Seq(0..255) /\ frames \in Seq(ExtractedFrame)
    BY <1>1, EmptySeq, Zenon
  <2>2. base \in Nat /\ pos \in 0..End /\ base + End <= Len(stream) /\ \A i \in 1..End : FALSE
    BY <1>1, <1>2, <1>3
  <2>3. QED
    BY <1>1, <2>1, <2>2, Zenon DEF BufferSound
<1>5. ScanSound
  <2>1. \A q \in (base + pos + 2)..(base + scanPos - 1) : FALSE
    BY <1>1
  <2>2. scanPos \in Nat /\ ~(scanPos > 0) /\ scanPos <= End
    BY <1>1, <1>3
  <2>3. QED
    BY <1>1, <2>1, <2>2, Zenon DEF ScanSound
<1>6. InlineSound
  <2>1. DOMAIN frames = {}
    BY <1>1
  <2>2. Returned = <<>>
    BY <2>1 DEF Returned
  <2>3. base + pos = 0 /\ InlineFrom[0] \in Seq(FrameAt)
    BY <1>1, <1>2, InlineFromType
  <2>4. QED
    BY <2>2, <2>3 DEF InlineSound, InlineFrames
<1>7. FramesSound
  <2>1. DOMAIN frames = {}
    BY <1>1
  <2>2. QED
    BY <1>1, <2>1 DEF FramesSound, BoundaryOverlookedAtEdgesOnly
<1>8. QED
  BY <1>4, <1>5, <1>6, <1>7 DEF Inv

LEMMA ResyncKeeps ==
  ASSUME Inv, Resync
  PROVE  Inv'
<1>1. /\ BufferSound /\ ScanSound /\ InlineSound /\ BoundaryOverlookedAtEdgesOnly
      /\ scanPos \in Nat /\ stream \in Streams /\ useL2 \in BOOLEAN
      /\ base \in Nat /\ pos \in Nat /\ End \in Nat /\ Left = End - pos /\ Len(stream) \in Nat
      /\ base + End <= Len(stream) /\ frames \in Seq(ExtractedFrame)
  BY InvFacts
<1>2. /\ ~done /\ Attempt.r = "skip" /\ pos' = pos + 1
      /\ UNCHANGED <<stream, useL2, buf, scanPos, base, edges, frames, done>>
  BY DEF Resync, const
<1>3. Left >= 2
  <2>1. CASE useL2
    BY <1>1, <1>2, <2>1, L2Attempt
  <2>2. CASE ~useL2
    BY <1>1, <1>2, <2>2, HeaderAttempt DEF Left
  <2>3. QED
    BY <2>1, <2>2
<1>4. BufferSound'
  <2>1. pos' \in 0..End
    BY <1>1, <1>2, <1>3
  <2>2. QED
    BY <1>1, <1>2, <2>1, BufferMoved DEF BufferSound
<1>5. BoundaryOverlookedAtEdgesOnly'
  BY <1>1, <1>2, BoundaryKept
<1>6. ScanSound'
  <2>1. CASE useL2
    <3>1. scanPos' = 0
      BY <1>1, <1>2, <2>1 DEF ScanSound
    <3>2. QED
      BY <1>4, <3>1, ScanReset
  <2>2. CASE ~useL2
    <3>1. Left >= 4 /\ FixedAt(base + pos) = 0 /\ Boundaries # {}
      BY <1>1, <1>2, <2>2, HeaderAttempt
    <3>2. ~SearchFailed
      BY <3>1 DEF SearchFailed
    <3>3. /\ scanPos <= End
          /\ \A q \in (base + pos + 2)..(base + scanPos - 1) : Plausible(At(q)) => q + 1 \in edges
      BY <1>1, <1>2, <3>1, <3>2 DEF ScanSound
    <3>4. Left' >= 2 /\ End' = End
      BY <1>1, <1>2, <3>1 DEF Left, End
    <3>5. \A q \in (base' + pos' + 2)..(base' + scanPos' - 1) : (Plausible(At(q)))' => q + 1 \in edges'
      <4>1. \A q \in (base + (pos + 1) + 2)..(base + scanPos - 1) :
               q \in (base + pos + 2)..(base + scanPos - 1)
        BY <1>1
      <4>2. \A q \in (base + (pos + 1) + 2)..(base + scanPos - 1) :
               Plausible(At(q)) => q + 1 \in edges
        BY <3>3, <4>1, Zenon
      <4>3. QED
        BY <1>2, <4>2 DEF At
    <3>6. QED
      BY <1>1, <1>2, <2>2, <3>3, <3>4, <3>5 DEF ScanSound
  <2>3. QED
    BY <2>1, <2>2
<1>7. InlineSound'
  <2> SUFFICES ASSUME useL2
               PROVE  Returned' \o InlineFrom'[base' + pos'] = InlineFrames'
    BY <1>2 DEF InlineSound
  <2> DEFINE p == base + pos
  <2>1. At(p) = 0 \/ At(p) > MaxMessage
    BY <1>1, <1>2, L2Attempt
  <2>2. p \in 0..Len(stream) /\ ~(p >= Len(stream)) /\ base' + pos' = p + 1
    BY <1>1, <1>2, <1>3
  <2>3. Returned \o InlineFrom[p] = InlineFrames
    BY <1>1 DEF InlineSound
  <2> HIDE DEF p
  <2>4. InlineFrom[p] = InlineStep(InlineFrom, p)
    BY <1>1, <2>2, InlineFromUnfolds
  <2>5. InlineFrom[p] = InlineFrom[p + 1]
    BY <2>1, <2>2, <2>4, Zenon DEF InlineStep, At
  <2>6. Returned' = Returned
    BY <1>2 DEF Returned
  <2>7. QED
    BY <1>2, <2>2, <2>3, <2>5, <2>6, InlineKept
<1>8. QED
  BY <1>2, <1>4, <1>5, <1>6, <1>7 DEF Inv, FramesSound

LEMMA SkipKeeps ==
  ASSUME Inv, Skip(1)
  PROVE  Inv'
<1>1. /\ BufferSound /\ ScanSound /\ BoundaryOverlookedAtEdgesOnly /\ done \in BOOLEAN
      /\ pos \in Nat /\ End \in Nat /\ Left = End - pos /\ frames \in Seq(ExtractedFrame)
  BY InvFacts
<1>2. /\ ~useL2 /\ 1 <= Left /\ pos' = pos + 1 /\ scanPos' = 0
      /\ UNCHANGED <<stream, useL2, buf, base, edges, frames, done>>
  BY DEF Skip, const
<1>3. BufferSound'
  <2>1. pos' \in 0..End
    BY <1>1, <1>2
  <2>2. QED
    BY <1>1, <1>2, <2>1, BufferMoved
<1>4. ScanSound'
  BY <1>2, <1>3, ScanReset
<1>5. BoundaryOverlookedAtEdgesOnly'
  BY <1>1, <1>2, BoundaryKept
<1>6. QED
  BY <1>2, <1>3, <1>4, <1>5 DEF Inv, InlineSound, FramesSound

\* The attempt on the rest of the stream.
LEMMA TailFacts ==
  ASSUME BufferSound, Attempt.r = "more"
  PROVE  /\ TailAttempt.r = "frame" => ~useL2 /\ TailAttempt.len = Left /\ TailAttempt.how = "tail"
         /\ TailAttempt.r = "skip" => ~useL2 /\ Left >= 2
<1>1. Left \in Nat
  BY Places
<1>2. CASE Left < 2
  <2>1. TailAttempt = More
    BY <1>2 DEF TailAttempt, MinHeader
  <2>2. QED
    BY <2>1, Outcomes
<1>3. CASE Left >= 2 /\ useL2
  <2>1. TailAttempt = Attempt
    BY <1>1, <1>3 DEF TailAttempt, Attempt, MinHeader
  <2>2. QED
    BY <2>1
<1>4. CASE Left >= 2 /\ ~useL2
  <2>1. TailAttempt = IF Left > MaxMessage THEN More ELSE Checked("tail", Left)
    BY <1>1, <1>4 DEF TailAttempt, MinHeader
  <2>2. TailAttempt \in {More, Skipped, Got("tail", Left)}
    BY <2>1, Zenon DEF Checked
  <2>3. CASE TailAttempt = More
    BY <2>3, Outcomes
  <2>4. CASE TailAttempt = Skipped
    BY <1>4, <2>4, Outcomes
  <2>5. CASE TailAttempt = Got("tail", Left)
    <3>1. TailAttempt.r = "frame" /\ TailAttempt.how = "tail" /\ TailAttempt.len = Left
      BY <2>5, Outcomes, Zenon
    <3>2. QED
      BY <1>4, <3>1
  <2>6. QED
    BY <2>2, <2>3, <2>4, <2>5
<1>5. QED
  BY <1>1, <1>2, <1>3, <1>4

\* An L2 attempt that lacks octets of a stream that has no more: InlineFramer
\* finds nothing there, either.
LEMMA NothingLeft ==
  ASSUME Inv, useL2, Attempt.r = "more", base + End = Len(stream)
  PROVE  InlineFrom[base + pos] = <<>>
<1> DEFINE p == base + pos
           L == Len(stream)
           n == At(base + pos)
<1>1. /\ BufferSound /\ stream \in Streams /\ base \in Nat /\ pos \in Nat /\ End \in Nat
      /\ Left \in Nat /\ Left = End - pos /\ L \in Nat
  BY InvFacts
<1>2. p \in 0..L /\ L = p + Left
  BY <1>1
<1>3. \A q \in 0..L : InlineFrom[q] = InlineStep(InlineFrom, q)
  BY <1>1, InlineFromUnfolds
<1>4. InlineFrom[L] = <<>>
  <2>1. L \in 0..L /\ L >= Len(stream)
    BY <1>1
  <2>2. QED
    BY <1>3, <2>1, Zenon DEF InlineStep
<1>5. p < L => n \in Nat /\ n = stream[p + 1]
  <2>1. p < L => p + 1 \in 1..L
    BY <1>1, <1>2
  <2>2. QED
    BY <1>1, <2>1, StreamType DEF At
<1>6. \/ Left < 2
      \/ n # 0 /\ ~(n > MaxMessage) /\ n \in Nat /\ Left < n + 1
  BY <1>1, L2Attempt
<1> HIDE DEF p, n
<1>7. CASE p = L
  BY <1>4, <1>7 DEF p
<1>8. CASE p < L /\ (n = 0 \/ n > MaxMessage)
  <2>1. p + 1 = L /\ ~(p >= Len(stream))
    BY <1>1, <1>2, <1>6, <1>8
  <2>2. InlineFrom[p] = InlineFrom[p + 1]
    BY <1>2, <1>3, <1>5, <1>8, <2>1, Zenon DEF InlineStep
  <2>3. QED
    BY <1>4, <2>1, <2>2 DEF p
<1>9. CASE p < L /\ ~(n = 0 \/ n > MaxMessage)
  <2>1. p + 1 + n > Len(stream) /\ ~(p >= Len(stream))
    BY <1>1, <1>2, <1>5, <1>6, <1>9
  <2>2. InlineFrom[p] = <<>>
    BY <1>2, <1>3, <1>5, <1>9, <2>1, Zenon DEF InlineStep
  <2>3. QED
    BY <2>2 DEF p
<1>10. QED
  BY <1>1, <1>2, <1>7, <1>8, <1>9

LEMMA AtEndKeeps ==
  ASSUME Inv, AtEnd
  PROVE  Inv'
<1>1. /\ BufferSound /\ ScanSound /\ InlineSound /\ BoundaryOverlookedAtEdgesOnly
      /\ scanPos \in Nat /\ useL2 \in BOOLEAN
      /\ base \in Nat /\ pos \in Nat /\ End \in Nat /\ Left \in Nat /\ Left = End - pos
      /\ frames \in Seq(ExtractedFrame)
  BY InvFacts
<1>2. /\ ~done /\ Attempt.r = "more" /\ base + End = Len(stream)
      /\ UNCHANGED <<stream, useL2, buf, base, edges>>
  BY DEF AtEnd, const
<1>3. /\ TailAttempt.r = "frame" => ~useL2 /\ TailAttempt.len = Left /\ TailAttempt.how = "tail"
      /\ TailAttempt.r = "skip" => ~useL2 /\ Left >= 2
  BY <1>1, <1>2, TailFacts
<1>4. CASE TailAttempt.r = "frame"
  <2> DEFINE x == [at |-> base + pos, len |-> TailAttempt.len, how |-> TailAttempt.how]
  <2>1. frames' = Append(frames, x) /\ pos' = pos + TailAttempt.len /\ scanPos' = 0 /\ done' = FALSE
    BY <1>4 DEF AtEnd, Take
  <2>2. x \in ExtractedFrame /\ x.how # "boundary"
    BY <1>1, <1>3, <1>4 DEF ExtractedFrame
  <2> HIDE DEF x
  <2>3. GoodFrame(x, stream, edges)
    BY <2>2 DEF GoodFrame
  <2>4. BoundaryOverlookedAtEdgesOnly' /\ frames' \in Seq(ExtractedFrame)
    BY <1>1, <1>2, <2>1, <2>2, <2>3, BoundaryAppended
  <2>5. BufferSound'
    <3>1. pos' \in 0..End
      BY <1>1, <1>3, <1>4, <2>1
    <3>2. QED
      BY <1>1, <1>2, <2>1, <2>4, <3>1, BufferMoved
  <2>6. ScanSound'
    BY <2>1, <2>5, ScanReset
  <2>7. QED
    BY <1>2, <1>3, <1>4, <2>1, <2>4, <2>5, <2>6 DEF Inv, InlineSound, FramesSound
<1>5. CASE TailAttempt.r # "frame"
  <2>1. /\ pos' = (IF TailAttempt.r = "skip" THEN pos + 1 ELSE pos)
        /\ done' = TRUE /\ frames' = frames /\ scanPos' = scanPos
    BY <1>5 DEF AtEnd
  <2>2. BoundaryOverlookedAtEdgesOnly'
    BY <1>1, <1>2, <2>1, BoundaryKept
  <2>3. BufferSound'
    <3>1. pos' \in 0..End
      BY <1>1, <1>3, <2>1
    <3>2. QED
      BY <1>1, <1>2, <2>1, <3>1, BufferMoved
  <2>4. ScanSound'
    BY <1>1, <1>2, <2>1 DEF ScanSound
  <2>5. useL2 => pos' = pos /\ InlineFrom[base + pos] = <<>>
    BY <1>2, <1>3, <2>1, NothingLeft
  <2>6. Returned' = Returned /\ InlineFrom' = InlineFrom /\ InlineFrames' = InlineFrames
    BY <1>2, <2>1, InlineKept DEF Returned
  <2>7. InlineSound' /\ (useL2' /\ done' => InlineFrom'[base' + pos'] = <<>>)
    BY <1>1, <1>2, <2>5, <2>6 DEF InlineSound
  <2>8. QED
    BY <2>2, <2>3, <2>4, <2>7 DEF Inv, FramesSound
<1>6. QED
  BY <1>4, <1>5

-----------------------------------------------------------------------------
(* A read                                                                  *)

LEMMA Window ==
  ASSUME NEW S, NEW s \in Seq(S), NEW a \in Nat, NEW m \in Nat, a + m <= Len(s)
  PROVE  /\ SubSeq(s, a + 1, a + m) \in Seq(S)
         /\ Len(SubSeq(s, a + 1, a + m)) = m
         /\ \A i \in 1..m : SubSeq(s, a + 1, a + m)[i] = s[a + i]
<1>1. Len(s) \in Nat
  BY LenProperties
<1>2. \A i \in (a + 1)..(a + m) : s[i] \in S
  <2>1. \A i \in (a + 1)..(a + m) : i \in 1..Len(s)
    BY <1>1
  <2>2. QED
    BY <2>1, ElementOfSeq, Zenon
<1>3. a + 1 \in Int /\ a + m \in Int
  OBVIOUS
<1>4. /\ SubSeq(s, a + 1, a + m) \in Seq(S)
      /\ Len(SubSeq(s, a + 1, a + m)) = IF a + 1 <= a + m THEN a + m - (a + 1) + 1 ELSE 0
      /\ \A i \in 1..(a + m - (a + 1) + 1) : SubSeq(s, a + 1, a + m)[i] = s[(a + 1) + i - 1]
  BY <1>2, <1>3, SubSeqProperties
<1>5. a + m - (a + 1) + 1 = m /\ \A i \in 1..m : (a + 1) + i - 1 = a + i
  OBVIOUS
<1>6. QED
  BY <1>4, <1>5

LEMMA Joined ==
  ASSUME NEW S, NEW s \in Seq(S), NEW t \in Seq(S)
  PROVE  /\ s \o t \in Seq(S) /\ Len(s \o t) = Len(s) + Len(t)
         /\ \A i \in 1..Len(s) : (s \o t)[i] = s[i]
         /\ \A i \in 1..Len(t) : (s \o t)[Len(s) + i] = t[i]
<1>1. Len(s) \in Nat /\ Len(t) \in Nat
  BY LenProperties
<1>2. /\ s \o t \in Seq(S) /\ Len(s \o t) = Len(s) + Len(t)
      /\ \A i \in 1..(Len(s) + Len(t)) :
           (s \o t)[i] = IF i <= Len(s) THEN s[i] ELSE t[i - Len(s)]
  BY ConcatProperties
<1>3. \A i \in 1..Len(s) : i \in 1..(Len(s) + Len(t)) /\ i <= Len(s)
  BY <1>1
<1>4. \A i \in 1..Len(t) : /\ Len(s) + i \in 1..(Len(s) + Len(t)) /\ ~(Len(s) + i <= Len(s))
                            /\ Len(s) + i - Len(s) = i
  BY <1>1
<1>5. QED
  BY <1>2, <1>3, <1>4

\* What Fill(n), and EmptyRead with n = 0, do to the buffer.
Refilled(n) ==
  /\ ~done /\ Attempt.r = "more" /\ n \in 0..(Len(stream) - base - End)
  /\ buf' = (IF pos > CompactAt THEN SubSeq(buf, pos + 1, End) ELSE buf)
               \o SubSeq(stream, base + End + 1, base + End + n)
  /\ base' = IF pos > CompactAt THEN base + pos ELSE base
  /\ pos' = IF pos > CompactAt THEN 0 ELSE pos
  /\ scanPos' = IF pos > CompactAt THEN Rebased(Scanned) ELSE Scanned
  /\ UNCHANGED <<stream, useL2, frames, done>>

\* The window grows at its end; a compaction moves no place.
LEMMA RefillBuffer ==
  ASSUME Inv, NEW n, Refilled(n)
  PROVE  /\ BufferSound' /\ base' \in Nat /\ pos' \in Nat /\ End' \in Nat
         /\ base' + pos' = base + pos /\ base' + End' = base + End + n
         /\ n \in Nat
<1> DEFINE O == 0..255
           d == IF pos > CompactAt THEN pos ELSE 0
           k == IF pos > CompactAt THEN SubSeq(buf, pos + 1, End) ELSE buf
           r == SubSeq(stream, base + End + 1, base + End + n)
<1>1. /\ BufferSound /\ stream \in Streams /\ useL2 \in BOOLEAN /\ done \in BOOLEAN
      /\ base \in Nat /\ pos \in Nat /\ End \in Nat /\ Left \in Nat /\ Left = End - pos
      /\ Len(stream) \in Nat /\ base + End <= Len(stream) /\ frames \in Seq(ExtractedFrame)
  BY InvFacts
<1>2. /\ buf \in Seq(O) /\ End = Len(buf) /\ pos <= End /\ stream \in Seq(O)
      /\ \A i \in 1..End : buf[i] = stream[base + i]
  BY <1>1, StreamType DEF BufferSound, End
<1> HIDE DEF O
<1>3. n \in Nat /\ base + End + n <= Len(stream) /\ CompactAt \in Nat
  BY <1>1, FramerAssumption DEF Refilled
<1>4. d \in Nat /\ d <= pos /\ base' = base + d /\ pos' = pos - d
  BY <1>1, <1>3 DEF Refilled
<1>5. /\ k \in Seq(O) /\ Len(k) = End - d
      /\ \A i \in 1..(End - d) : k[i] = buf[d + i]
  <2>1. CASE pos > CompactAt
    <3>1. /\ SubSeq(buf, pos + 1, End) \in Seq(O)
          /\ Len(SubSeq(buf, pos + 1, End)) = End - pos
          /\ \A i \in 1..(End - pos) : SubSeq(buf, pos + 1, End)[i] = buf[pos + i]
      <4>1. End - pos \in Nat /\ pos + (End - pos) = End /\ pos + (End - pos) <= Len(buf)
        BY <1>1, <1>2
      <4>2. /\ SubSeq(buf, pos + 1, pos + (End - pos)) \in Seq(O)
            /\ Len(SubSeq(buf, pos + 1, pos + (End - pos))) = End - pos
            /\ \A i \in 1..(End - pos) :
                 SubSeq(buf, pos + 1, pos + (End - pos))[i] = buf[pos + i]
        BY <1>1, <1>2, <4>1, Window
      <4>3. QED
        BY <4>1, <4>2, Zenon
    <3>2. QED
      BY <2>1, <3>1
  <2>2. CASE ~(pos > CompactAt)
    BY <1>1, <1>2, <2>2
  <2>3. QED
    BY <2>1, <2>2
<1>6. /\ r \in Seq(O) /\ Len(r) = n
      /\ \A i \in 1..n : r[i] = stream[base + End + i]
  <2>1. base + End \in Nat
    BY <1>1
  <2>2. QED
    BY <1>2, <1>3, <2>1, Window
<1>7. buf' = k \o r
  BY DEF Refilled
<1> HIDE DEF d, k, r
<1>8. /\ buf' \in Seq(O) /\ Len(buf') = End - d + n
      /\ \A i \in 1..(End - d) : buf'[i] = k[i]
      /\ \A i \in 1..n : buf'[End - d + i] = r[i]
  <2>1. /\ k \o r \in Seq(O) /\ Len(k \o r) = Len(k) + Len(r)
        /\ \A i \in 1..Len(k) : (k \o r)[i] = k[i]
        /\ \A i \in 1..Len(r) : (k \o r)[Len(k) + i] = r[i]
    <3>1. k \in Seq(O) /\ r \in Seq(O)
      BY <1>5, <1>6
    <3>2. QED
      BY <3>1, Joined
  <2>2. QED
    BY <1>5, <1>6, <1>7, <2>1, Zenon
<1>9. ASSUME NEW i \in 1..(End - d + n)
      PROVE  buf'[i] = stream[base + d + i]
  <2>1. CASE i <= End - d
    <3>1. i \in 1..(End - d) /\ d + i \in 1..End /\ base + (d + i) = base + d + i
      BY <1>1, <1>3, <1>4, <2>1
    <3>2. QED
      BY <1>2, <1>5, <1>8, <3>1
  <2>2. CASE ~(i <= End - d)
    <3>1. /\ i - (End - d) \in 1..n /\ End - d + (i - (End - d)) = i
          /\ base + End + (i - (End - d)) = base + d + i
      BY <1>1, <1>3, <1>4, <2>2
    <3>2. QED
      BY <1>6, <1>8, <3>1
  <2>3. QED
    BY <2>1, <2>2
<1>10. End' = End - d + n /\ End' \in Nat
  BY <1>1, <1>3, <1>4, <1>8 DEF End
<1>11. /\ base' \in Nat /\ pos' \in Nat /\ pos' \in 0..End' /\ base' + pos' = base + pos
       /\ base' + End' = base + End + n /\ base' + End' <= Len(stream)
  BY <1>1, <1>2, <1>3, <1>4, <1>10
<1>12. \A i \in 1..End' : buf'[i] = stream[base' + i]
  BY <1>4, <1>9, <1>10
<1>13. UNCHANGED <<stream, useL2, frames, done>>
  BY DEF Refilled
<1>14. BufferSound'
  BY <1>1, <1>8, <1>11, <1>12, <1>13 DEF BufferSound, O
<1>15. QED
  BY <1>3, <1>10, <1>11, <1>14

\* The edges a read records: a filled one, the edge of a search that failed; an
\* empty one, nothing.
EdgesRecorded(n) ==
  \/ n = 0 /\ edges' = edges
  \/ edges' = IF SearchFailed THEN edges \cup {base + End} ELSE edges

LEMMA FailedSearch ==
  ASSUME Inv, ~done, SearchFailed
  PROVE  /\ Left >= 2 /\ ~useL2 /\ FixedAt(base + pos) = 0
         /\ ScanStop = (IF End <= pos + 2 + MaxMessage THEN End ELSE pos + 2 + MaxMessage)
         /\ \A q \in (base + pos + 2)..(base + ScanStop - 1) :
              Plausible(At(q)) => q + 1 \in edges \/ q + 1 = base + End
<1>1. /\ BufferSound /\ ScanSound /\ scanPos \in Nat
      /\ base \in Nat /\ pos \in Nat /\ End \in Nat /\ Left = End - pos
      /\ MaxMessage \in Nat
  BY InvFacts, FramerAssumption
<1>2. Left >= 2 /\ ~useL2 /\ Boundaries = {}
  BY DEF SearchFailed, MinHeader
<1>3. FixedAt(base + pos) = 0
  <2>1. Octet(pos) = At(base + pos) /\ Octet(pos + 1) = At(base + pos + 1)
    BY <1>1, <1>2, Places
  <2>2. QED
    BY <2>1 DEF SearchFailed, FixedAt
<1>4. ScanStop = (IF End <= pos + 2 + MaxMessage THEN End ELSE pos + 2 + MaxMessage)
  <2>1. End \in Int /\ pos + 2 + MaxMessage \in Int
    BY <1>1
  <2>2. QED
    BY <2>1, MinOfTwo DEF ScanStop
<1>5. ScanStop \in Nat /\ ScanStop <= End /\ ScanStop <= pos + 2 + MaxMessage
  BY <1>1, <1>4
<1>6. \A q \in (base + pos + 2)..(base + scanPos - 1) :
         Plausible(At(q)) => q + 1 \in edges \/ q + 1 = base + End
  BY <1>1, <1>3 DEF ScanSound
<1>7. ASSUME NEW q \in (base + pos + 2)..(base + ScanStop - 1), Plausible(At(q))
      PROVE  q + 1 \in edges \/ q + 1 = base + End
  <2>1. q \in Nat /\ base + pos + 2 <= q /\ q <= base + ScanStop - 1
    BY <1>1, <1>5
  <2>2. CASE q < base + scanPos
    <3>1. q \in (base + pos + 2)..(base + scanPos - 1)
      BY <1>1, <2>1, <2>2
    <3>2. QED
      BY <1>6, <1>7, <3>1
  <2>3. CASE ~(q < base + scanPos) /\ q + 1 # base + End
    <3> DEFINE i == q - base
    <3>1. ScanFrom = (IF scanPos >= pos + 2 THEN scanPos ELSE pos + 2)
      BY <1>1, BoundaryPlaces
    <3>2. i \in ScanFrom..(End - 2) /\ i < pos + 2 + MaxMessage /\ base + i = q
      BY <1>1, <1>5, <2>1, <2>3, <3>1
    <3> HIDE DEF i
    <3>3. i \in Boundaries
      BY <1>1, <1>7, <3>2, BoundaryPlaces, Zenon
    <3>4. QED
      BY <1>2, <3>3
  <2>4. QED
    BY <2>2, <2>3
<1>8. QED
  BY <1>2, <1>3, <1>4, <1>7

LEMMA RefillScan ==
  ASSUME Inv, NEW n, Refilled(n), EdgesRecorded(n)
  PROVE  ScanSound'
<1>1. /\ BufferSound /\ ScanSound /\ scanPos \in Nat /\ stream \in Streams /\ useL2 \in BOOLEAN
      /\ base \in Nat /\ pos \in Nat /\ End \in Nat /\ Left \in Nat /\ Left = End - pos
      /\ Len(stream) \in Nat /\ base + End <= Len(stream)
  BY InvFacts
<1>2. /\ BufferSound' /\ base' \in Nat /\ pos' \in Nat /\ End' \in Nat
      /\ base' + pos' = base + pos /\ base' + End' = base + End + n /\ n \in Nat
  BY RefillBuffer
<1>new. PICK b1, p1, e1, s1 : b1 = base' /\ p1 = pos' /\ e1 = End' /\ s1 = scanPos'
  BY Zenon
<1>num. /\ b1 \in Nat /\ p1 \in Nat /\ e1 \in Nat /\ n \in Nat
       /\ b1 + p1 = base + pos /\ b1 + e1 = base + End + n
  BY <1>2, <1>new, Zenon
<1>3. /\ ~done /\ Attempt.r = "more" /\ UNCHANGED <<stream, useL2, done>>
      /\ base' = (IF pos > CompactAt THEN base + pos ELSE base)
      /\ scanPos' = IF pos > CompactAt THEN Rebased(Scanned) ELSE Scanned
  BY DEF Refilled
<1>4. /\ SizeModulus \in Nat /\ Len(stream) < SizeModulus /\ CompactAt \in Nat /\ MaxMessage \in Nat
  BY <1>1, FramerAssumption
<1>5. Left' = e1 - p1 /\ e1 - p1 = Left + n
  <2>1. Left' = e1 - p1
    BY <1>new, Zenon DEF Left
  <2>2. e1 - p1 = Left + n
    BY <1>1, <1>num
  <2>3. QED
    BY <2>1, <2>2
<1>6. ASSUME scanPos = 0, ~SearchFailed
      PROVE  ScanSound'
  <2>1. scanPos' = 0
    BY <1>3, <1>6 DEF Scanned, Rebased
  <2>2. QED
    BY <1>2, <2>1, ScanReset
<1>7. CASE useL2
  BY <1>1, <1>6, <1>7 DEF ScanSound, SearchFailed
<1>8. CASE Left < 2
  <2>1. scanPos = 0
    BY <1>1, <1>3, <1>8 DEF ScanSound
  <2>2. ~SearchFailed
    BY <1>1, <1>8 DEF SearchFailed, MinHeader
  <2>3. QED
    BY <1>6, <2>1, <2>2
<1>9. CASE ~useL2 /\ Left >= 2 /\ FixedAt(base + pos) # 0
  <2>1. ~SearchFailed
    BY <1>3, <1>9, FailedSearch
  <2>2. scanPos' = IF pos > CompactAt THEN Rebased(scanPos) ELSE scanPos
    BY <1>3, <2>1 DEF Scanned
  <2>3. Rebased(scanPos) \in Nat
    BY <1>1, <1>4 DEF Rebased
  <2>4. scanPos' \in Nat
    BY <1>1, <2>2, <2>3
  <2>5. Left' >= 2
    <3>1. e1 - p1 >= 2
      BY <1>1, <1>num, <1>5, <1>9
    <3>2. QED
      BY <1>5, <3>1, Zenon
  <2>6. (FixedAt(base + pos))' # 0
    BY <1>2, <1>3, <1>9 DEF FixedAt, At
  <2>7. QED
    BY <1>3, <1>9, <2>4, <2>5, <2>6 DEF ScanSound
<1>10. CASE SearchFailed
  <2>1. /\ Left >= 2 /\ ~useL2 /\ FixedAt(base + pos) = 0
        /\ ScanStop = (IF End <= pos + 2 + MaxMessage THEN End ELSE pos + 2 + MaxMessage)
        /\ \A q \in (base + pos + 2)..(base + ScanStop - 1) :
             Plausible(At(q)) => q + 1 \in edges \/ q + 1 = base + End
    BY <1>3, <1>10, FailedSearch
  <2>2. ScanStop \in Nat /\ ScanStop >= pos + 2 /\ ScanStop <= End /\ Scanned = ScanStop
    BY <1>1, <1>4, <1>10, <2>1 DEF Scanned
  <2>3. scanPos' \in Nat /\ base' + scanPos' = base + ScanStop
    <3>1. CASE pos > CompactAt
      <4>1. ScanStop - pos \in 0..(SizeModulus - 1) /\ ScanStop > 0
        BY <1>1, <1>4, <2>2
      <4>2. Rebased(Scanned) = ScanStop - pos
        BY <1>4, <2>2, <4>1 DEF Rebased
      <4>3. QED
        BY <1>1, <1>3, <2>2, <3>1, <4>1, <4>2
    <3>2. CASE ~(pos > CompactAt)
      BY <1>3, <2>2, <3>2
    <3>3. QED
      BY <3>1, <3>2
  <2>stop. s1 \in Nat /\ b1 + s1 = base + ScanStop
    BY <1>new, <2>3, Zenon
  <2>room. s1 <= e1 /\ e1 - p1 >= 2
    BY <1>1, <1>num, <1>5, <2>1, <2>2, <2>stop
  <2>4. scanPos' <= End' /\ Left' >= 2
    BY <1>5, <1>new, <2>room, Zenon
  <2>5. ASSUME NEW q \in (base + pos + 2)..(base + ScanStop - 1), Plausible(At(q))
        PROVE  q + 1 \in edges' \/ (q + 1 = base' + End' /\ SearchFailed')
    <3>1. q + 1 \in edges \/ q + 1 = base + End
      BY <2>1, <2>5
    <3>2. CASE q + 1 \in edges'
      BY <3>2
    <3>3. CASE q + 1 \notin edges'
      <4>1. n = 0 /\ q + 1 = base + End
        BY <1>10, <3>1, <3>3 DEF EdgesRecorded
      <4>2. base + End <= base + ScanStop
        BY <1>1, <2>2, <4>1
      <4>3. b1 + e1 = base + End /\ e1 <= s1
        BY <1>1, <1>num, <2>2, <2>stop, <4>1, <4>2
      <4>4. ScanFrom' = (IF s1 >= p1 + 2 THEN s1 ELSE p1 + 2)
        <5>1. ScanFrom' = Max({s1, p1 + 2}) /\ p1 + 2 \in Int /\ s1 \in Int
          <6>1. ScanFrom' = Max({s1, p1 + 2})
            BY <1>new, Zenon DEF ScanFrom
          <6>2. p1 + 2 \in Int /\ s1 \in Int
            BY <1>num, <2>stop
          <6>3. QED
            BY <6>1, <6>2
        <5>2. QED
          BY <5>1, MaxOfTwo
      <4>5. Boundaries' = {}
        <5>1. \A i \in (IF s1 >= p1 + 2 THEN s1 ELSE p1 + 2)..(e1 - 2) : FALSE
          BY <1>num, <2>stop, <4>3
        <5>2. \A i \in ScanFrom'..(End' - 2) : FALSE
          BY <1>new, <4>4, <5>1, Zenon
        <5>3. QED
          BY <5>2, Zenon DEF Boundaries
      <4>6. (FixedFrameLength(Octet(pos), Octet(pos + 1)))' = 0
        <5>1. Octet(pos)' = stream[b1 + (p1 + 1)] /\ Octet(pos + 1)' = stream[b1 + (p1 + 1 + 1)]
          <6>1. p1 + 1 \in 1..e1 /\ p1 + 1 + 1 \in 1..e1
            BY <1>num, <2>room
          <6>2. \A i \in 1..e1 : buf'[i] = stream[b1 + i]
            BY <1>2, <1>3, <1>new, Zenon DEF BufferSound
          <6>3. Octet(pos)' = buf'[p1 + 1] /\ Octet(pos + 1)' = buf'[p1 + 1 + 1]
            BY <1>new, Zenon DEF Octet
          <6>4. QED
            BY <6>1, <6>2, <6>3, Zenon
        <5>2. b1 + (p1 + 1) = base + pos + 1 /\ b1 + (p1 + 1 + 1) = base + pos + 1 + 1
          BY <1>1, <1>num
        <5>3. QED
          BY <2>1, <5>1, <5>2 DEF FixedAt, At
      <4>7. SearchFailed'
        BY <1>3, <2>1, <2>4, <4>5, <4>6 DEF SearchFailed, MinHeader
      <4>8. QED
        BY <1>new, <4>1, <4>3, <4>7, Zenon
    <3>4. QED
      BY <3>2, <3>3
  <2>6. \A q \in (base' + pos' + 2)..(base' + scanPos' - 1) :
           (Plausible(At(q)))' => q + 1 \in edges' \/ (q + 1 = base' + End' /\ SearchFailed')
    <3>1. b1 + p1 + 2 = base + pos + 2 /\ b1 + s1 - 1 = base + ScanStop - 1
      BY <1>1, <1>num, <2>2, <2>stop
    <3>2. \A q : (Plausible(At(q)))' <=> Plausible(At(q))
      BY <1>3, Zenon DEF At, Plausible, PD, ReservedPDs
    <3>3. QED
      BY <1>new, <2>5, <3>1, <3>2, Zenon
  <2>7. QED
    BY <1>3, <2>1, <2>3, <2>4, <2>6 DEF ScanSound
<1>11. QED
  <2>1. ~useL2 => Left < 2 \/ (Left >= 2 /\ FixedAt(base + pos) # 0) \/ SearchFailed
    BY <1>1, <1>3, HeaderAttempt
  <2>2. QED
    BY <1>7, <1>8, <1>9, <1>10, <2>1

LEMMA RefillKeeps ==
  ASSUME Inv, NEW n, Refilled(n), EdgesRecorded(n)
  PROVE  Inv'
<1>1. /\ InlineSound /\ BoundaryOverlookedAtEdgesOnly
      /\ BufferSound' /\ base' + pos' = base + pos /\ ScanSound'
  BY InvFacts, RefillBuffer, RefillScan
<1>2. ~done /\ UNCHANGED <<stream, useL2, frames, done>> /\ edges \subseteq edges'
  BY DEF Refilled, EdgesRecorded
<1>3. BoundaryOverlookedAtEdgesOnly'
  BY <1>1, <1>2, BoundaryKept
<1>4. Returned' = Returned /\ InlineFrom' = InlineFrom /\ InlineFrames' = InlineFrames
  BY <1>2, InlineKept DEF Returned
<1>5. InlineSound'
  BY <1>1, <1>2, <1>4, Zenon DEF InlineSound
<1>6. QED
  BY <1>1, <1>2, <1>3, <1>5 DEF Inv, FramesSound

LEMMA FillKeeps ==
  ASSUME Inv, NEW n, Fill(n)
  PROVE  Inv'
<1>1. base \in Nat /\ End \in Nat /\ Len(stream) \in Nat
  BY InvFacts
<1>2. n \in 1..(Len(stream) - base - End)
  BY DEF Fill
<1>3. n \in 0..(Len(stream) - base - End)
  BY <1>1, <1>2
<1>4. Refilled(n) /\ EdgesRecorded(n)
  BY <1>3 DEF Fill, Refilled, EdgesRecorded, const
<1>5. QED
  BY <1>4, RefillKeeps

LEMMA EmptyReadKeeps ==
  ASSUME Inv, EmptyRead
  PROVE  Inv'
<1> DEFINE O == 0..255
           k == IF pos > CompactAt THEN SubSeq(buf, pos + 1, End) ELSE buf
<1>1. /\ BufferSound /\ base \in Nat /\ pos \in Nat /\ End \in Nat /\ Left \in Nat
      /\ Left = End - pos /\ Len(stream) \in Nat /\ base + End <= Len(stream)
  BY InvFacts
<1>2. buf \in Seq(O) /\ End = Len(buf)
  BY <1>1 DEF BufferSound, End
<1> HIDE DEF O
<1>3. k \in Seq(O)
  <2>1. End - pos \in Nat /\ pos + (End - pos) = End /\ pos + (End - pos) <= Len(buf)
    BY <1>1, <1>2
  <2>2. SubSeq(buf, pos + 1, pos + (End - pos)) \in Seq(O)
    BY <1>1, <1>2, <2>1, Window
  <2>3. SubSeq(buf, pos + 1, End) \in Seq(O)
    BY <2>1, <2>2, Zenon
  <2>4. QED
    BY <1>2, <2>3
<1> HIDE DEF k
<1>4. SubSeq(stream, base + End + 1, base + End + 0) = <<>>
  <2>1. base + End + 1 \in Int /\ base + End + 0 \in Int /\ base + End + 0 < base + End + 1
    BY <1>1
  <2>2. QED
    BY <2>1, SubSeqEmpty
<1>5. k \o SubSeq(stream, base + End + 1, base + End + 0) = k
  BY <1>3, <1>4, ConcatEmptySeq
<1>6. 0 \in 0..(Len(stream) - base - End)
  BY <1>1
<1>7. buf' = k \o SubSeq(stream, base + End + 1, base + End + 0)
  BY <1>5 DEF EmptyRead, k
<1>8. Refilled(0) /\ EdgesRecorded(0)
  BY <1>6, <1>7 DEF EmptyRead, Refilled, EdgesRecorded, const, k
<1>9. QED
  BY <1>8, RefillKeeps

LEMMA StutterKeeps ==
  ASSUME Inv, UNCHANGED vars
  PROVE  Inv'
<1>1. UNCHANGED <<stream, useL2, live, buf, pos, scanPos, base, edges, frames, done>>
  BY DEF vars
<1>2. BufferSound'
  BY <1>1 DEF Inv, BufferSound, End
<1>3. Left' = Left /\ End' = End /\ Boundaries' = Boundaries
  BY <1>1 DEF Left, End, Boundaries, ScanFrom, Octet
<1>4. SearchFailed' <=> SearchFailed
  BY <1>1, <1>3 DEF SearchFailed, Octet
<1>5. ScanSound'
  BY <1>1, <1>3, <1>4 DEF Inv, ScanSound, FixedAt, At
<1>6. Returned' = Returned /\ InlineFrom' = InlineFrom /\ InlineFrames' = InlineFrames
  BY <1>1, InlineKept DEF Returned
<1>7. InlineSound'
  BY <1>1, <1>6, Zenon DEF Inv, InlineSound
<1>8. BoundaryOverlookedAtEdgesOnly'
  BY <1>1, BoundaryKept DEF Inv, FramesSound
<1>9. FramesSound'
  BY <1>1, <1>6, <1>8, Zenon DEF Inv, FramesSound
<1>10. QED
  BY <1>2, <1>5, <1>7, <1>9 DEF Inv

-----------------------------------------------------------------------------
(* The theorems                                                            *)

LEMMA FramerInvariant == Spec => []Inv
<1>1. Init => Inv
  BY InitInv
<1>2. Inv /\ [Next]_vars => Inv'
  <2> SUFFICES ASSUME Inv, [Next]_vars PROVE Inv'
    OBVIOUS
  <2>1. CASE Extract
    BY <2>1, ExtractKeeps
  <2>2. CASE Resync
    BY <2>2, ResyncKeeps
  <2>3. CASE AtEnd
    BY <2>3, AtEndKeeps
  <2>4. CASE \E n \in 1..MaxRead : Fill(n)
    BY <2>4, FillKeeps
  <2>5. CASE EmptyRead
    BY <2>5, EmptyReadKeeps
  <2>6. CASE Skip(1)
    BY <2>6, SkipKeeps
  <2>7. CASE UNCHANGED vars
    BY <2>7, StutterKeeps
  <2>8. QED
    BY <2>1, <2>2, <2>3, <2>4, <2>5, <2>6, <2>7 DEF Next, Step
<1>3. QED
  BY <1>1, <1>2, PTL DEF Spec

\* Header mode: a frame that tryExtract() cuts at a boundary ends at a plausible
\* header and runs over one only where a search failed at the edge of a read, for
\* every stream, message length, compaction threshold and way of reading.
THEOREM BoundariesOverlooked == Spec => []BoundaryOverlookedAtEdgesOnly
<1>1. Inv => BoundaryOverlookedAtEdgesOnly
  BY DEF Inv, FramesSound
<1>2. QED
  BY <1>1, FramerInvariant, PTL

\* A sequence is a prefix of what it begins.
LEMMA PrefixOfConcat ==
  ASSUME NEW S, NEW s \in Seq(S), NEW t \in Seq(S)
  PROVE  IsPrefix(s, s \o t)
<1>1. /\ s \o t \in Seq(S) /\ Len(s \o t) = Len(s) + Len(t)
      /\ \A i \in 1..Len(s) : (s \o t)[i] = s[i]
      /\ Len(s) \in Nat /\ Len(t) \in Nat
  BY Joined, LenProperties
<1> DEFINE u == s \o t
<1> HIDE DEF u
<1>2. /\ u \in Seq(S) /\ Len(s) <= Len(u) /\ Len(s) \in Nat /\ 0 + Len(s) <= Len(u)
      /\ \A i \in 1..Len(s) : u[i] = s[i]
  BY <1>1 DEF u
<1>3. SubSeq(s, 1, Len(s)) = SubSeq(u, 1, Len(s))
  <2> DEFINE m == Len(s)
             v == SubSeq(s, 0 + 1, 0 + m)
             w == SubSeq(u, 0 + 1, 0 + m)
  <2>1. 0 + m <= Len(s) /\ 0 \in Nat /\ m \in Nat /\ 0 + m <= Len(u)
    BY <1>2
  <2> HIDE DEF m
  <2>2. v \in Seq(S) /\ Len(v) = m /\ \A i \in 1..m : v[i] = s[0 + i]
    BY <2>1, Window
  <2>3. w \in Seq(S) /\ Len(w) = m /\ \A i \in 1..m : w[i] = u[0 + i]
    BY <1>2, <2>1, Window
  <2>4. 0 + 1 = 1 /\ 0 + m = m /\ \A i \in 1..m : 0 + i = i
    BY <2>1
  <2> HIDE DEF v, w
  <2>5. v = w
    <3>1. \A i \in 1..Len(v) : v[i] = w[i]
      BY <1>2, <2>2, <2>3, <2>4 DEF m
    <3>2. QED
      BY <2>2, <2>3, <3>1, SeqEqual
  <2>6. QED
    BY <2>4, <2>5 DEF v, w, m
<1>4. QED
  BY <1>2, <1>3 DEF IsPrefix, u

\* L2 mode: nextFrame() returns the frames InlineFramer cuts out of the stream, in
\* order, and all of them by the time it says SourceExhausted, for every stream,
\* message length, compaction threshold and way of reading.
THEOREM InlineFramesReturned == Spec => []FramesAreTheInlineOnes
<1>1. Inv => FramesAreTheInlineOnes
  <2> SUFFICES ASSUME Inv, useL2
               PROVE  IsPrefix(Returned, InlineFrames) /\ (done => Returned = InlineFrames)
    BY DEF FramesAreTheInlineOnes
  <2> DEFINE rest == InlineFrom[base + pos]
  <2>1. /\ BufferSound /\ stream \in Streams /\ frames \in Seq(ExtractedFrame)
        /\ Returned \o rest = InlineFrames /\ (done => rest = <<>>)
    BY InvFacts DEF InlineSound, FramesSound
  <2>2. Returned \in Seq(FrameAt) /\ rest \in Seq(FrameAt)
    BY <2>1, ReturnedType, InlineFromType, Places
  <2> HIDE DEF rest
  <2>3. IsPrefix(Returned, Returned \o rest)
    BY <2>2, PrefixOfConcat
  <2>4. Returned \o <<>> = Returned
    BY <2>2, ConcatEmptySeq
  <2>5. QED
    BY <2>1, <2>3, <2>4
<1>2. QED
  BY <1>1, FramerInvariant, PTL

=============================================================================
