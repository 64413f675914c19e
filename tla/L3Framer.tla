------------------------------- MODULE L3Framer -------------------------------
(***************************************************************************)
(* L3Framer (bitstream/framer.{h,cpp}) cutting frames out of an octet      *)
(* stream that a ByteSource hands over in pieces of any size, and          *)
(* InlineFramer (bitstream/inline_framer.h), which cuts the same stream    *)
(* lying in memory.  nextFrame() is a loop; each turn (an attempt, or an   *)
(* attempt that lacks data and the fill it asks for) is one step.          *)
(***************************************************************************)
EXTENDS Integers, Sequences, SequencesExt, FiniteSetsExt

CONSTANTS Streams,    \* the octet strings a source may deliver
          MaxRead,    \* bound: octets of one read
          MaxMessage, \* FrameConfig::maxMessageLength
          CompactAt,  \* consumed octets that make fillBuffer() compact (1024)
          SizeModulus \* the range of size_t, 2^64

ASSUME FramerAssumption ==
    /\ Streams \subseteq Seq(0..255)
    /\ MaxMessage \in Nat \ {0} /\ CompactAt \in Nat
    /\ SizeModulus \in Nat /\ \A s \in Streams : Len(s) < SizeModulus

VARIABLES stream,   \* what the source delivers in the end
          useL2,    \* FrameConfig::useL2Length
          live,     \* the source can be empty without being at its end
          buf,      \* mBuf up to mEnd
          pos,      \* mPos
          scanPos,  \* mBoundaryScanPos
          base,     \* ghost: place in the stream of the first octet of buf
          edges,    \* ghost: how far the stream was read when a search failed
          frames,   \* ghost: the frames returned, [at, len, how]
          done      \* nextFrame() said SourceExhausted

vars == <<stream, useL2, live, buf, pos, scanPos, base, edges, frames, done>>
const == <<stream, useL2, live>>

MinHeader == 2
PD(o) == o % 16
ReservedPDs == {2, 4, 7}

(* kFixedFrameEntries and the message type the framers look up in it.     *)
FixedFrames ==
    {<<6, 18, 3>>, <<6, 19, 2>>, <<6, 41, 3>>, <<6, 47, 3>>, <<6, 53, 3>>,
     <<5, 33, 2>>, <<5, 34, 3>>, <<5, 35, 2>>, <<5, 41, 2>>, <<5, 49, 3>>,
     <<3, 61, 6>>, <<3, 62, 3>>, <<1, 4, 2>>, <<1, 9, 2>>, <<0, 3, 2>>}
kRRTifShortBase == 256
MessageType(b0, b1) ==
    IF PD(b0) \in {0, 1, 3, 5, 11} THEN b1 % 64
    ELSE IF PD(b0) = 6 /\ (b0 \div 16) % 2 = 1 THEN kRRTifShortBase + (b1 % 32)
    ELSE b1
FixedFrameLength(b0, b1) ==
    LET hits == {f \in FixedFrames : f[1] = PD(b0) /\ f[2] = MessageType(b0, b1)}
    IN IF hits = {} THEN 0 ELSE (CHOOSE f \in hits : TRUE)[3]

(* A boundary candidate: every discriminator but the reserved ones.       *)
Plausible(o) == PD(o) \notin ReservedPDs

Octet(i) == buf[i + 1]   \* mBuf[i]
End == Len(buf)          \* mEnd
Left == End - pos

-----------------------------------------------------------------------------
(* tryExtract(): what an attempt comes to.  "skip" drops one octet and    *)
(* tries again, "more" asks for data; len counts the octets consumed.     *)
Got(how, len) == [r |-> "frame", how |-> how, len |-> len]
Skipped == [r |-> "skip", how |-> "", len |-> 1]
More == [r |-> "more", how |-> "", len |-> 0]

FaultExtractL2 ==
    LET n == Octet(pos)
    IN IF n = 0 \/ n > MaxMessage THEN Skipped
       ELSE IF Left < n THEN More
       ELSE Got("l2", Min({Left, n + 1}))
ExtractL2 ==
    LET n == Octet(pos)
    IN IF n = 0 \/ n > MaxMessage THEN Skipped
       ELSE IF Left < n + 1 THEN More
       ELSE Got("l2", n + 1)

(* The boundary scan: it resumes at scanPos and looks at octets that have *)
(* a successor in the buffer.                                             *)
ScanFrom == Max({scanPos, pos + 2})
Boundaries == {i \in ScanFrom..(End - 2) : i < pos + 2 + MaxMessage /\ Plausible(Octet(i))}
ScanStop == Min({End, pos + 2 + MaxMessage})

(* The validation of the header is the last hurdle of a frame.            *)
Checked(how, len) ==
    IF Left < len THEN More
    ELSE IF PD(Octet(pos)) \in ReservedPDs THEN Skipped
    ELSE Got(how, len)

ExtractHeader ==
    LET fixed == FixedFrameLength(Octet(pos), Octet(pos + 1))
    IN IF fixed # 0 THEN Checked("fixed", fixed)
       ELSE IF Boundaries = {} THEN More
       ELSE IF Min(Boundaries) - pos > MaxMessage THEN Skipped
       ELSE Checked("boundary", Min(Boundaries) - pos)

Attempt ==
    IF Left < MinHeader THEN More
    ELSE IF useL2 THEN ExtractL2
    ELSE ExtractHeader

(* The attempt at the end of the source: the header mode emits the rest   *)
(* as the last frame, the L2 mode has only an incomplete frame.           *)
TailAttempt ==
    IF Left < MinHeader THEN More
    ELSE IF useL2 THEN ExtractL2
    ELSE IF Left > MaxMessage THEN More
    ELSE Checked("tail", Left)

(* A search that found no boundary remembers where it stopped.            *)
SearchFailed ==
    /\ Left >= MinHeader /\ ~useL2
    /\ FixedFrameLength(Octet(pos), Octet(pos + 1)) = 0
    /\ Boundaries = {}
Scanned == IF SearchFailed THEN ScanStop ELSE scanPos

(* A compaction takes the consumed octets off the cached position, too:   *)
(* in size_t, where octets skipped since may have overtaken it.           *)
Rebased(scan) == IF scan > 0 THEN (scan - pos) % SizeModulus ELSE scan

-----------------------------------------------------------------------------
Init ==
    /\ stream \in Streams
    /\ useL2 \in BOOLEAN /\ live \in BOOLEAN
    /\ buf = <<>> /\ pos = 0 /\ scanPos = 0
    /\ base = 0 /\ edges = {} /\ frames = <<>> /\ done = FALSE

(* The consumer takes a frame; the next scan starts afresh.               *)
Take(a) ==
    /\ frames' = Append(frames, [at |-> base + pos, len |-> a.len, how |-> a.how])
    /\ pos' = pos + a.len
    /\ scanPos' = 0

Extract ==
    /\ ~done /\ Attempt.r = "frame"
    /\ Take(Attempt)
    /\ UNCHANGED <<const, buf, base, edges, done>>

(* InvalidPD, InvalidValue: one octet on, scanPos stays.                  *)
FaultResyncStays ==
    /\ ~done /\ Attempt.r = "skip"
    /\ UNCHANGED vars
Resync ==
    /\ ~done /\ Attempt.r = "skip"
    /\ pos' = pos + 1
    /\ UNCHANGED <<const, buf, scanPos, base, edges, frames, done>>

(* TruncatedInput, then a fillBuffer() that gets n octets: the consumed   *)
(* octets are dropped first when there are many of them.                  *)
FaultFillKeepsScan(n) ==
    LET compacts == pos > CompactAt
    IN /\ ~done /\ Attempt.r = "more"
       /\ n \in 1..(Len(stream) - base - End)
       /\ buf' = (IF compacts THEN SubSeq(buf, pos + 1, End) ELSE buf)
                   \o SubSeq(stream, base + End + 1, base + End + n)
       /\ base' = IF compacts THEN base + pos ELSE base
       /\ pos' = IF compacts THEN 0 ELSE pos
       /\ scanPos' = Scanned
       /\ edges' = IF SearchFailed THEN edges \cup {base + End} ELSE edges
       /\ UNCHANGED <<const, frames, done>>
Fill(n) ==
    LET compacts == pos > CompactAt
    IN /\ ~done /\ Attempt.r = "more"
       /\ n \in 1..(Len(stream) - base - End)
       /\ buf' = (IF compacts THEN SubSeq(buf, pos + 1, End) ELSE buf)
                   \o SubSeq(stream, base + End + 1, base + End + n)
       /\ base' = IF compacts THEN base + pos ELSE base
       /\ pos' = IF compacts THEN 0 ELSE pos
       /\ scanPos' = IF compacts THEN Rebased(Scanned) ELSE Scanned
       /\ edges' = IF SearchFailed THEN edges \cup {base + End} ELSE edges
       /\ UNCHANGED <<const, frames, done>>

(* A read of nothing, which compacts all the same: a live source ends the *)
(* call with TruncatedInput, and the caller comes again.                  *)
EmptyRead ==
    LET compacts == pos > CompactAt
    IN /\ ~done /\ live /\ Attempt.r = "more"
       /\ buf' = IF compacts THEN SubSeq(buf, pos + 1, End) ELSE buf
       /\ base' = IF compacts THEN base + pos ELSE base
       /\ pos' = IF compacts THEN 0 ELSE pos
       /\ scanPos' = IF compacts THEN Rebased(Scanned) ELSE Scanned
       /\ UNCHANGED <<const, edges, frames, done>>

(* The source is at its end: the rest is tried once as the last frame; if *)
(* it is none, the call says SourceExhausted.                             *)
AtEnd ==
    /\ ~done /\ ~live /\ Attempt.r = "more" /\ base + End = Len(stream)
    /\ IF TailAttempt.r = "frame"
       THEN Take(TailAttempt) /\ done' = FALSE
       ELSE /\ pos' = IF TailAttempt.r = "skip" THEN pos + 1 ELSE pos
            /\ done' = TRUE
            /\ UNCHANGED <<frames, scanPos>>
    /\ UNCHANGED <<const, buf, base, edges>>

(* skip(n), by a caller that resynchronises in the middle of a search.    *)
Skip(n) ==
    /\ ~useL2 /\ scanPos > 0 /\ n <= Left
    /\ pos' = pos + n
    /\ scanPos' = 0
    /\ UNCHANGED <<const, buf, base, edges, frames, done>>

Step == Extract \/ Resync \/ AtEnd \/ \E n \in 1..MaxRead : Fill(n)
Next == Step \/ EmptyRead \/ Skip(1)

(* The consumer keeps calling and the source delivers what it has.        *)
Spec == Init /\ [][Next]_vars /\ WF_vars(Step)

-----------------------------------------------------------------------------
(* InlineFramer::nextFrame() in L2 mode, from place p of the stream on:   *)
(* the places of the frames it returns.                                   *)
InlineFrom[p \in 0..Len(stream)] ==
    IF p >= Len(stream) THEN <<>>
    ELSE LET n == stream[p + 1]
         IN IF n = 0 \/ n > MaxMessage THEN InlineFrom[p + 1]
            ELSE IF p + 1 + n > Len(stream) THEN <<>>
            ELSE <<[at |-> p, len |-> n + 1]>> \o InlineFrom[p + 1 + n]
InlineFrames == InlineFrom[0]

Returned == [i \in DOMAIN frames |-> [at |-> frames[i].at, len |-> frames[i].len]]

(* With length octets the framer returns what InlineFramer cuts out of    *)
(* the whole stream, in order, however the source hands the octets over,  *)
(* and at the end of the source all of it.                                *)
FramesAreTheInlineOnes ==
    useL2 =>
      /\ IsPrefix(Returned, InlineFrames)
      /\ done => Returned = InlineFrames

(* Header mode: a frame cut at a boundary ends at the first place that    *)
(* looks like a header; the only ones it can run over are those whose     *)
(* first octet was the last one of a read in which the search failed (the *)
(* resumed search starts behind that octet).                              *)
BoundaryOverlookedAtEdgesOnly ==
    \A i \in DOMAIN frames :
      frames[i].how = "boundary" =>
        /\ Plausible(stream[frames[i].at + frames[i].len + 1])
        /\ \A j \in 2..(frames[i].len - 1) :
             Plausible(stream[frames[i].at + j + 1]) => (frames[i].at + j + 1) \in edges

(* A finite source is read to its end: no input makes the loop of         *)
(* nextFrame() spin or wait (tryExtract, nextFrame).                      *)
StreamEnds == ~live ~> done

-----------------------------------------------------------------------------
(***************************************************************************)
(* The streams the model checker takes: every string of six octets over a  *)
(* fixed-length header (1 4), a reserved discriminator (4), a              *)
(* variable-length one (5) and, as lengths, a short one, the longest and   *)
(* one too long; and a few longer ones whose third frame is searched after *)
(* a compaction; in the last of them the octets skipped overtake the       *)
(* cached position.                                                        *)
(***************************************************************************)
MCStreams == [1..6 -> {1, 4, 5}] \cup
             {<<1, 4, 5, 4, 5, 4, 5, 1>>, <<5, 34, 4, 6, 4, 4, 6, 18, 4>>,
              <<2, 6, 19, 3, 5, 34, 4, 0, 2, 5, 33>>, <<22, 5, 4, 2, 5, 33, 7, 5, 33>>,
              <<4, 4, 4, 3, 61, 4, 4, 4, 1, 1>>}
=============================================================================
