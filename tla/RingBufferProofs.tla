-------------------------- MODULE RingBufferProofs --------------------------
(***************************************************************************)
(* Theorems about RingBuffer, for every capacity, all chunks and all sizes *)
(* of reads: the two threads never touch one cell at the same time, and    *)
(* the buffer implements the queue of ByteQueue.                           *)
(*                                                                         *)
(* Positions wrap, so they are compared by their distance from the tail    *)
(* the producer sees.  Round the buffer from there lie, in this order: the *)
(* tails it does not see yet, the stored tail, the one the consumer will   *)
(* store, the head the consumer sees, the heads it does not see yet, the   *)
(* stored head and the one the producer will store.                        *)
(***************************************************************************)
EXTENDS RingBuffer, TLAPS

-----------------------------------------------------------------------------
(* Positions                                                               *)

P == PhysicalSize

LEMMA SizeType == P \in Nat /\ P >= 2 /\ Cells = 0 .. P - 1 /\ Capacity = P - 1
BY RingAssumption DEF P, Cells, Capacity

\* Sums of two positions wrap at most once.
LEMMA WrapOnce ==
  ASSUME NEW x \in 0 .. 2 * P - 1
  PROVE  Wrap(x) = (IF x < P THEN x ELSE x - P) /\ Wrap(x) \in Cells
<1>1. Wrap(x) = x % P
  BY DEF Wrap, P
<1>2. CASE x < P
  <2>1. x % P = x
    BY <1>2, SizeType
  <2> QED
    BY <1>1, <1>2, <2>1, SizeType
<1>3. CASE ~(x < P)
  <2>1. x % P = x - P
    BY <1>3, SizeType
  <2> QED
    BY <1>1, <1>3, <2>1, SizeType
<1> QED
  BY <1>2, <1>3

LEMMA AvailableType ==
  ASSUME NEW h \in Cells, NEW t \in Cells
  PROVE  Available(h, t) \in 0 .. P - 1
BY SizeType DEF Available, P

\* The octets of a copy lie one after the other, round the buffer.
LEMMA CopyIsRound ==
  ASSUME NEW pos \in Cells, NEW len \in 0 .. P - 1
  PROVE  /\ \A i \in 1 .. len : CellOf(pos, len, i) = Wrap(pos + i - 1)
         /\ After(pos, len) = Wrap(pos + len)
<1> DEFINE first == Least(P - pos, len)
<1>1. first \in 0 .. P - 1 /\ first <= len /\ pos + first <= P
      /\ (first < len => pos + first = P)
  BY SizeType DEF Least
<1>2. Wrap(pos + first) = IF pos + first < P THEN pos + first ELSE 0
  <2>1. pos + first \in 0 .. 2 * P - 1
    BY <1>1, SizeType
  <2> QED
    BY <1>1, <2>1, WrapOnce, SizeType
<1>3. ASSUME NEW i \in 1 .. len
      PROVE  CellOf(pos, len, i) = Wrap(pos + i - 1)
  <2>1. CellOf(pos, len, i) = IF i <= first THEN pos + i - 1 ELSE Wrap(pos + first) + (i - first) - 1
    BY DEF CellOf, P
  <2>2. pos + i - 1 \in 0 .. 2 * P - 1
    BY SizeType
  <2>3. Wrap(pos + i - 1) = IF pos + i - 1 < P THEN pos + i - 1 ELSE pos + i - 1 - P
    BY <2>2, WrapOnce, SizeType
  <2> HIDE DEF first
  <2> QED
    BY <1>1, <1>2, <2>1, <2>3, SizeType
<1>4. After(pos, len) = Wrap(pos + len)
  <2>1. After(pos, len) = IF len > first THEN Wrap(Wrap(pos + first) + (len - first)) ELSE Wrap(pos + first)
    BY DEF After, P
  <2>2. CASE len > first
    <3>1. Wrap(pos + first) = 0
      BY <1>1, <1>2, <2>2, SizeType
    <3>2. pos + len \in 0 .. 2 * P - 1 /\ len - first \in 0 .. 2 * P - 1
      BY <1>1, SizeType
    <3>3. Wrap(len - first) = len - first /\ Wrap(pos + len) = pos + len - P
      <4> HIDE DEF first
      <4> QED BY <1>1, <2>2, <3>2, WrapOnce, SizeType
    <3> HIDE DEF first
    <3> QED
      BY <1>1, <2>1, <2>2, <3>1, <3>3, SizeType
  <2>3. CASE ~(len > first)
    <3>1. first = len
      BY <1>1, <2>3
    <3> QED
      BY <2>1, <2>3, <3>1
  <2> QED
    BY <2>2, <2>3
<1> QED
  BY <1>3, <1>4

\* How far round the buffer a cell lies from a position.
LEMMA RoundDistance ==
  ASSUME NEW pos \in Cells, NEW n \in 0 .. P - 1
  PROVE  /\ Wrap(pos + n) \in Cells
         /\ Available(Wrap(pos + n), pos) = n
<1>1. pos + n \in 0 .. 2 * P - 1
  BY SizeType
<1>2. Wrap(pos + n) = IF pos + n < P THEN pos + n ELSE pos + n - P
  BY <1>1, WrapOnce, SizeType
<1> QED
  BY <1>1, <1>2, WrapOnce, SizeType DEF Available, P

\* Distances add up, as long as they stay within one round.
LEMMA DistancesAdd ==
  ASSUME NEW a \in Cells, NEW b \in Cells, NEW c \in Cells
  PROVE  /\ Available(c, a) >= Available(b, a) =>
              Available(c, b) = Available(c, a) - Available(b, a)
         /\ Available(b, a) + Available(c, b) <= P - 1 =>
              Available(c, a) = Available(b, a) + Available(c, b)
BY SizeType DEF Available, P

LEMMA SameDistance ==
  ASSUME NEW a \in Cells, NEW b \in Cells, NEW c \in Cells,
         Available(b, a) = Available(c, a)
  PROVE  b = c
BY SizeType DEF Available, P

-----------------------------------------------------------------------------
(* The inductive invariant                                                 *)

TypeOK ==
  /\ mBuf \in [Cells -> Octets]
  /\ mHead \in Cells /\ mTail \in Cells /\ headSeen \in Cells /\ tailSeen \in Cells
  /\ headLag \in Seq(Cells) /\ tailLag \in Seq(Cells)
  /\ newHead \in Cells \cup {Idle} /\ newTail \in Cells \cup {Idle}

\* The distance of a position from the tail the producer sees.
Dist(x) == Available(x, tailSeen)

\* The positions a thread does not see yet lie behind the one it sees, in the
\* order of the stores, and not past the stored one.
Sorted(lag, from, to) ==
  /\ \A i \in 1 .. Len(lag) : Dist(from) <= Dist(lag[i]) /\ Dist(lag[i]) <= Dist(to)
  /\ \A i, j \in 1 .. Len(lag) : i <= j => Dist(lag[i]) <= Dist(lag[j])

InOrder ==
  /\ Sorted(tailLag, tailSeen, mTail)
  /\ Dist(mTail) <= Dist(headSeen)
  /\ newTail # Idle => Dist(mTail) <= Dist(newTail) /\ Dist(newTail) <= Dist(headSeen)
  /\ Sorted(headLag, headSeen, mHead)
  /\ Dist(headSeen) <= Dist(mHead)
  /\ newHead # Idle => Dist(mHead) <= Dist(newHead)

\* write() in progress: the cells from the stored head to the next one hold, or
\* are still to get, the start of the caller's octets; no others are touched.
WriteLen == Available(newHead, mHead)
Filling(data) ==
  /\ WriteLen <= Len(data)
  /\ \A i \in 1 .. WriteLen :
       LET c == Wrap(mHead + i - 1)
       IN  (IF c \in DOMAIN writing THEN writing[c] ELSE mBuf[c]) = data[i]
  /\ \A c \in DOMAIN writing : \E i \in 1 .. WriteLen : c = Wrap(mHead + i - 1)
WriteInv ==
  /\ newHead = Idle => DOMAIN writing = {}
  /\ newHead # Idle => \E data \in Chunks : Filling(data)

\* read() in progress: each octet up to the next tail was copied as it is in the
\* buffer, or is still to copy.
ReadLen == Available(newTail, mTail)
ReadInv ==
  /\ newTail = Idle => DOMAIN reading = {}
  /\ newTail # Idle =>
       /\ DOMAIN reading \cup DOMAIN copied = 1 .. ReadLen
       /\ \A i \in DOMAIN reading : reading[i] = Wrap(mTail + i - 1)
       /\ copied = [i \in DOMAIN copied |-> mBuf[Wrap(mTail + i - 1)]]

Inv == TypeOK /\ InOrder /\ WriteInv /\ ReadInv

LEMMA DistType == ASSUME TypeOK, NEW x \in Cells PROVE Dist(x) \in 0 .. P - 1
BY AvailableType DEF TypeOK, Dist

\* The cells from position a up to position b are nearer than b.
LEMMA Between ==
  ASSUME TypeOK, NEW a \in Cells, NEW b \in Cells, Dist(a) <= Dist(b),
         NEW i \in 1 .. Available(b, a)
  PROVE  /\ Wrap(a + i - 1) \in Cells
         /\ Dist(Wrap(a + i - 1)) = Dist(a) + i - 1
         /\ Dist(Wrap(a + i - 1)) < Dist(b)
<1> DEFINE c == Wrap(a + i - 1)
<1>1. /\ Available(b, a) = Dist(b) - Dist(a)
      /\ Dist(a) \in 0 .. P - 1 /\ Dist(b) \in 0 .. P - 1
  BY DistType, DistancesAdd DEF Dist, TypeOK
<1>2. i - 1 \in 0 .. P - 1 /\ a + (i - 1) = a + i - 1
  BY <1>1, SizeType
<1>3. c \in Cells /\ Available(c, a) = i - 1
  BY <1>2, RoundDistance
<1>4. Dist(a) + Available(c, a) <= P - 1
  BY <1>1, <1>3, SizeType
<1>5. Dist(c) = Dist(a) + Available(c, a)
  BY <1>3, <1>4, DistancesAdd DEF Dist, TypeOK
<1> QED
  BY <1>1, <1>3, <1>5, SizeType

\* The producer copies into cells that are not before the stored head.
LEMMA WritingIsAhead ==
  ASSUME Inv, NEW c \in DOMAIN writing
  PROVE  newHead # Idle /\ c \in Cells /\ Dist(mHead) <= Dist(c)
<1>1. newHead # Idle /\ newHead \in Cells /\ mHead \in Cells /\ TypeOK
      /\ Dist(mHead) <= Dist(newHead)
  BY DEF Inv, WriteInv, TypeOK, InOrder
<1>2. PICK i \in 1 .. WriteLen : c = Wrap(mHead + i - 1)
  BY <1>1 DEF Inv, WriteInv, Filling
<1>3. c \in Cells /\ Dist(c) = Dist(mHead) + i - 1
  BY <1>1, <1>2, Between DEF WriteLen
<1>4. Dist(mHead) \in Int
  BY <1>1, DistType, SizeType
<1>5. WriteLen \in Int
  BY <1>1, AvailableType, SizeType DEF WriteLen
<1> QED
  BY <1>1, <1>3, <1>4, <1>5

\* The consumer copies from cells before the stored head.
LEMMA ReadingIsBehind ==
  ASSUME Inv, newTail # Idle, NEW i \in 1 .. ReadLen
  PROVE  Wrap(mTail + i - 1) \in Cells /\ Dist(Wrap(mTail + i - 1)) < Dist(mHead)
<1>1. /\ TypeOK /\ newTail \in Cells /\ mTail \in Cells /\ headSeen \in Cells /\ mHead \in Cells
      /\ Dist(mTail) <= Dist(newTail) /\ Dist(newTail) <= Dist(headSeen)
      /\ Dist(headSeen) <= Dist(mHead)
  BY DEF Inv, TypeOK, InOrder
<1>2. /\ Wrap(mTail + i - 1) \in Cells
      /\ Dist(Wrap(mTail + i - 1)) < Dist(newTail)
  BY <1>1, Between DEF ReadLen
<1>3. \A x \in Cells : Dist(x) \in Int
  BY <1>1, DistType, SizeType
<1> QED
  BY <1>1, <1>2, <1>3

\* No cell is copied into and from at the same time.
LEMMA InvImpliesNoDataRace == Inv => NoDataRace
<1> SUFFICES ASSUME Inv, NEW c \in DOMAIN writing, NEW i \in DOMAIN reading
             PROVE  reading[i] # c
  BY DEF NoDataRace
<1>1. newTail # Idle
  BY DEF Inv, ReadInv
<1>2. reading[i] = Wrap(mTail + i - 1) /\ i \in 1 .. ReadLen
  BY <1>1 DEF Inv, ReadInv
<1>3. reading[i] \in Cells /\ Dist(reading[i]) < Dist(mHead)
  BY <1>1, <1>2, ReadingIsBehind
<1>4. c \in Cells /\ Dist(mHead) <= Dist(c)
  BY WritingIsAhead
<1>5. \A x \in Cells : Dist(x) \in Int
  BY DistType, SizeType DEF Inv
<1>6. mHead \in Cells
  BY DEF Inv, TypeOK
<1> QED
  BY <1>3, <1>4, <1>5, <1>6

-----------------------------------------------------------------------------
(* Every step keeps the invariant                                          *)

LEMMA InitInv == Init => Inv
<1> SUFFICES ASSUME Init PROVE Inv
  OBVIOUS
<1>1. TypeOK
  BY RingAssumption, SizeType DEF Init, TypeOK
<1>2. InOrder
  BY SizeType DEF Init, InOrder, Sorted, Idle, Dist, Available
<1>3. WriteInv /\ ReadInv
  BY DEF Init, WriteInv, ReadInv, Nothing
<1> QED
  BY <1>1, <1>2, <1>3 DEF Inv

LEMMA WriteBeginInv ==
  ASSUME Inv, NEW data \in Chunks, WriteBegin(data)
  PROVE  Inv'
<1> DEFINE len == Least(Len(data), FreeSpace(mHead, tailSeen))
<1>1. TypeOK /\ mHead \in Cells /\ tailSeen \in Cells /\ data \in Seq(Octets)
  BY RingAssumption DEF Inv, TypeOK
<1>2. Dist(mHead) \in 0 .. P - 1 /\ FreeSpace(mHead, tailSeen) = P - 1 - Dist(mHead)
  BY <1>1, DistType, SizeType DEF FreeSpace, Dist
<1>3. len \in 0 .. P - 1 /\ len <= Len(data) /\ Dist(mHead) + len <= P - 1
  BY <1>1, <1>2, SizeType DEF Least
<1>4. newHead' = Wrap(mHead + len)
  BY <1>1, <1>3, CopyIsRound DEF WriteBegin
<1>5. newHead' \in Cells /\ Available(newHead', mHead) = len
  BY <1>1, <1>3, <1>4, RoundDistance
<1>6. Dist(newHead') = Dist(mHead) + len
  BY <1>1, <1>3, <1>5, DistancesAdd DEF Dist
<1> HIDE DEF len
<1>7. \A i \in 1 .. len : CellOf(mHead, len, i) = Wrap(mHead + i - 1)
  BY <1>1, <1>3, CopyIsRound
<1>8. \A i, j \in 1 .. len : Wrap(mHead + i - 1) = Wrap(mHead + j - 1) => i = j
  <2> SUFFICES ASSUME NEW i \in 1 .. len, NEW j \in 1 .. len, Wrap(mHead + i - 1) = Wrap(mHead + j - 1)
               PROVE  i = j
    OBVIOUS
  <2>1. i - 1 \in 0 .. P - 1 /\ j - 1 \in 0 .. P - 1
        /\ mHead + (i - 1) = mHead + i - 1 /\ mHead + (j - 1) = mHead + j - 1
    BY <1>1, <1>3, SizeType
  <2>2. Available(Wrap(mHead + i - 1), mHead) = i - 1 /\ Available(Wrap(mHead + j - 1), mHead) = j - 1
    BY <1>1, <2>1, RoundDistance
  <2> QED
    BY <2>1, <2>2
<1>9. writing' = [c \in {CellOf(mHead, len, i) : i \in 1 .. len} |->
                    data[CHOOSE i \in 1 .. len : CellOf(mHead, len, i) = c]]
  BY DEF WriteBegin, len
<1>10. ASSUME NEW i \in 1 .. len
       PROVE  Wrap(mHead + i - 1) \in DOMAIN writing' /\ writing'[Wrap(mHead + i - 1)] = data[i]
  <2>1. Wrap(mHead + i - 1) \in DOMAIN writing'
    BY <1>7, <1>9
  <2>2. (CHOOSE j \in 1 .. len : CellOf(mHead, len, j) = Wrap(mHead + i - 1)) = i
    BY <1>7, <1>8
  <2> QED
    BY <1>9, <2>1, <2>2
<1>11. \A c \in DOMAIN writing' : \E i \in 1 .. len : c = Wrap(mHead + i - 1)
  BY <1>7, <1>9
<1>12. UNCHANGED <<mBuf, mHead, mTail, headLag, tailLag, headSeen, tailSeen, consumerVars, given>>
  BY DEF WriteBegin
<1>13. TypeOK'
  BY <1>1, <1>5, <1>12 DEF TypeOK, consumerVars
<1>14. InOrder'
  BY <1>2, <1>3, <1>6, <1>12, SizeType DEF Inv, InOrder, Sorted, Dist, consumerVars
<1>15. WriteInv'
  <2>1. newHead' # Idle
    BY <1>5, SizeType DEF Idle
  <2>2. Filling(data)'
    BY <1>3, <1>5, <1>10, <1>11, <1>12 DEF Filling, WriteLen
  <2> QED
    BY <2>1, <2>2 DEF WriteInv
<1>16. ReadInv'
  BY <1>12 DEF Inv, ReadInv, ReadLen, consumerVars
<1> QED
  BY <1>13, <1>14, <1>15, <1>16 DEF Inv

LEMMA WriteCellInv ==
  ASSUME Inv, NEW c \in Cells, WriteCell(c)
  PROVE  Inv'
<1>1. c \in DOMAIN writing /\ mBuf' = [mBuf EXCEPT ![c] = writing[c]]
      /\ writing' = [d \in DOMAIN writing \ {c} |-> writing[d]]
      /\ UNCHANGED <<mHead, mTail, headLag, tailLag, headSeen, tailSeen, newHead, consumerVars, given>>
  BY DEF WriteCell
<1>2. newHead # Idle /\ Dist(mHead) <= Dist(c)
  BY <1>1, WritingIsAhead
<1>3. PICK data \in Chunks : Filling(data)
  BY <1>2 DEF Inv, WriteInv
<1>4. mBuf \in [Cells -> Octets] /\ mHead \in Cells /\ newHead \in Cells
  BY <1>2 DEF Inv, TypeOK
<1>5. WriteLen \in 0 .. P - 1
  BY <1>4, AvailableType DEF WriteLen
<1>6. writing[c] \in Octets
  <2>1. PICK i \in 1 .. WriteLen : c = Wrap(mHead + i - 1)
    BY <1>1, <1>3 DEF Filling
  <2>2. writing[c] = data[i] /\ data \in Seq(Octets) /\ i \in 1 .. Len(data)
    BY <1>1, <1>3, <1>5, <2>1, RingAssumption, SizeType DEF Filling
  <2> QED
    BY <2>2
<1>7. TypeOK'
  BY <1>1, <1>4, <1>6 DEF Inv, TypeOK, consumerVars
<1>8. InOrder'
  BY <1>1 DEF Inv, InOrder, Sorted, Dist, consumerVars
<1>9. WriteInv'
  <2>1. Filling(data)'
    <3>1. WriteLen' = WriteLen
      BY <1>1 DEF WriteLen
    <3>2. ASSUME NEW i \in 1 .. WriteLen, NEW b, b = Wrap(mHead + i - 1)
          PROVE  (IF b \in DOMAIN writing' THEN writing'[b] ELSE mBuf'[b]) = data[i]
      <4>1. (IF b \in DOMAIN writing THEN writing[b] ELSE mBuf[b]) = data[i]
        BY <1>3, <3>2 DEF Filling
      <4> QED
        BY <1>1, <1>4, <4>1
    <3>3. \A d \in DOMAIN writing' : \E i \in 1 .. WriteLen : d = Wrap(mHead + i - 1)
      BY <1>1, <1>3 DEF Filling
    <3> QED
      BY <1>1, <1>3, <3>1, <3>2, <3>3 DEF Filling
  <2> QED
    BY <1>1, <1>2, <2>1 DEF WriteInv
<1>10. ReadInv'
  <2>1. CASE newTail = Idle
    BY <1>1, <2>1 DEF Inv, ReadInv, consumerVars
  <2>2. CASE newTail # Idle
    <3>1. ASSUME NEW i \in DOMAIN copied
          PROVE  mBuf'[Wrap(mTail + i - 1)] = mBuf[Wrap(mTail + i - 1)]
      <4>1. i \in 1 .. ReadLen
        BY <2>2 DEF Inv, ReadInv
      <4>2. Wrap(mTail + i - 1) \in Cells /\ Dist(Wrap(mTail + i - 1)) < Dist(mHead)
        BY <2>2, <4>1, ReadingIsBehind
      <4>3. \A x \in Cells : Dist(x) \in Int
        BY DistType, SizeType DEF Inv
      <4>4. Wrap(mTail + i - 1) # c
        BY <1>2, <1>4, <4>2, <4>3
      <4> QED
        BY <1>1, <1>4, <4>2, <4>4
    <3> QED
      BY <1>1, <2>2, <3>1 DEF Inv, ReadInv, ReadLen, consumerVars
  <2> QED
    BY <2>1, <2>2
<1> QED
  BY <1>7, <1>8, <1>9, <1>10 DEF Inv

\* One more store at the end of the stores not yet seen.
LEMMA AppendSorted ==
  ASSUME TypeOK, NEW lag \in Seq(Cells), NEW from \in Cells, NEW to \in Cells, NEW x \in Cells,
         Sorted(lag, from, to), Dist(from) <= Dist(to), Dist(to) <= Dist(x)
  PROVE  Sorted(Append(lag, x), from, x)
<1> DEFINE L == Append(lag, x)
<1>1. \A y \in Cells : Dist(y) \in Int
  BY DistType, SizeType
<1>2. /\ Len(L) = Len(lag) + 1 /\ Len(lag) \in Nat
      /\ \A i \in 1 .. Len(lag) : L[i] = lag[i] /\ lag[i] \in Cells
      /\ L[Len(lag) + 1] = x
  OBVIOUS
<1>3. \A i \in 1 .. Len(L) : i \in 1 .. Len(lag) \/ i = Len(lag) + 1
  BY <1>2
<1> HIDE DEF L
<1>4. ASSUME NEW i \in 1 .. Len(L)
      PROVE  Dist(from) <= Dist(L[i]) /\ Dist(L[i]) <= Dist(x)
  BY <1>1, <1>2, <1>3 DEF Sorted
<1>5. ASSUME NEW i \in 1 .. Len(L), NEW j \in 1 .. Len(L), i <= j
      PROVE  Dist(L[i]) <= Dist(L[j])
  <2>1. CASE j \in 1 .. Len(lag)
    <3>1. i \in 1 .. Len(lag)
      BY <1>2, <1>5, <2>1
    <3> QED
      BY <1>2, <1>5, <2>1, <3>1 DEF Sorted
  <2>2. CASE j = Len(lag) + 1
    BY <1>2, <1>4, <2>2
  <2> QED
    BY <1>3, <2>1, <2>2
<1>6. Sorted(L, from, x)
  BY <1>4, <1>5 DEF Sorted
<1> QED
  BY <1>6 DEF L

LEMMA WriteEndInv ==
  ASSUME Inv, WriteEnd
  PROVE  Inv'
<1>1. newHead # Idle /\ writing = Nothing /\ mHead' = newHead
      /\ headLag' = Append(headLag, newHead) /\ newHead' = Idle
      /\ UNCHANGED <<mBuf, mTail, tailLag, headSeen, tailSeen, writing, consumerVars, given>>
  BY DEF WriteEnd, StoreHead
<1>2. TypeOK /\ newHead \in Cells /\ mHead \in Cells /\ headSeen \in Cells /\ headLag \in Seq(Cells)
  BY <1>1 DEF Inv, TypeOK
<1>3. Sorted(headLag, headSeen, mHead) /\ Dist(headSeen) <= Dist(mHead) /\ Dist(mHead) <= Dist(newHead)
  BY <1>1 DEF Inv, InOrder
<1>4. Sorted(Append(headLag, newHead), headSeen, newHead)
  BY <1>2, <1>3, AppendSorted
<1>5. TypeOK'
  BY <1>1, <1>2 DEF TypeOK, consumerVars
<1>6. InOrder'
  <2>1. \A x \in Cells : Dist(x) \in Int
    BY <1>2, DistType, SizeType
  <2>2. Dist(headSeen) <= Dist(newHead)
    BY <1>2, <1>3, <2>1
  <2> QED
    BY <1>1, <1>4, <2>2 DEF Inv, InOrder, Sorted, Dist, consumerVars
<1>7. WriteInv'
  BY <1>1 DEF WriteInv, Nothing, Idle
<1>8. ReadInv'
  BY <1>1 DEF Inv, ReadInv, ReadLen, consumerVars
<1> QED
  BY <1>5, <1>6, <1>7, <1>8 DEF Inv

LEMMA ReadBeginInv ==
  ASSUME Inv, NEW maxSize \in ReadSizes, ReadBegin(maxSize)
  PROVE  Inv'
<1> DEFINE len == Least(maxSize, Available(headSeen, mTail))
<1>1. TypeOK /\ mTail \in Cells /\ headSeen \in Cells /\ maxSize \in Nat /\ Dist(mTail) <= Dist(headSeen)
  BY RingAssumption DEF Inv, TypeOK, InOrder
<1>2. /\ Dist(mTail) \in 0 .. P - 1 /\ Dist(headSeen) \in 0 .. P - 1
      /\ Available(headSeen, mTail) = Dist(headSeen) - Dist(mTail)
  BY <1>1, DistType, DistancesAdd DEF Dist, TypeOK
<1>3. len \in 0 .. P - 1 /\ Dist(mTail) + len <= Dist(headSeen)
  BY <1>1, <1>2, SizeType DEF Least
<1>4. newTail' = Wrap(mTail + len)
  BY <1>1, <1>3, CopyIsRound DEF ReadBegin
<1>5. newTail' \in Cells /\ Available(newTail', mTail) = len
  BY <1>1, <1>3, <1>4, RoundDistance
<1>6. Dist(newTail') = Dist(mTail) + len
  BY <1>1, <1>2, <1>3, <1>5, DistancesAdd, SizeType DEF Dist, TypeOK
<1>7. reading' = [i \in 1 .. len |-> CellOf(mTail, len, i)] /\ copied' = Nothing
      /\ UNCHANGED <<mBuf, mHead, mTail, headLag, tailLag, headSeen, tailSeen, producerVars, given>>
  BY DEF ReadBegin
<1> HIDE DEF len
<1>8. \A i \in 1 .. len : CellOf(mTail, len, i) = Wrap(mTail + i - 1)
  BY <1>1, <1>3, CopyIsRound
<1>9. TypeOK'
  BY <1>1, <1>5, <1>7 DEF TypeOK, producerVars
<1>10. InOrder'
  BY <1>2, <1>3, <1>6, <1>7, SizeType DEF Inv, InOrder, Sorted, Dist, producerVars
<1>11. WriteInv'
  BY <1>7 DEF Inv, WriteInv, Filling, WriteLen, producerVars
<1>12. ReadInv'
  <2>1. newTail' # Idle /\ ReadLen' = len
    BY <1>5, <1>7, SizeType DEF Idle, ReadLen
  <2>2. DOMAIN reading' \cup DOMAIN copied' = 1 .. len
    BY <1>7 DEF Nothing
  <2>3. \A i \in DOMAIN reading' : reading'[i] = Wrap(mTail' + i - 1)
    BY <1>7, <1>8
  <2>4. copied' = [i \in DOMAIN copied' |-> mBuf'[Wrap(mTail' + i - 1)]]
    BY <1>7 DEF Nothing
  <2> QED
    BY <2>1, <2>2, <2>3, <2>4 DEF ReadInv
<1> QED
  BY <1>9, <1>10, <1>11, <1>12 DEF Inv

LEMMA ReadCellInv ==
  ASSUME Inv, NEW k \in 1 .. Capacity, ReadCell(k)
  PROVE  Inv'
<1>1. /\ k \in DOMAIN reading
      /\ copied' = [j \in DOMAIN copied \cup {k} |-> IF j = k THEN mBuf[reading[k]] ELSE copied[j]]
      /\ reading' = [j \in DOMAIN reading \ {k} |-> reading[j]]
      /\ UNCHANGED <<mBuf, mHead, mTail, headLag, tailLag, headSeen, tailSeen, producerVars, newTail, given>>
  BY DEF ReadCell
<1>2. newTail # Idle
  BY <1>1 DEF Inv, ReadInv
<1>3. TypeOK'
  BY <1>1 DEF Inv, TypeOK, producerVars
<1>4. InOrder'
  BY <1>1 DEF Inv, InOrder, Sorted, Dist, producerVars
<1>5. WriteInv'
  BY <1>1 DEF Inv, WriteInv, Filling, WriteLen, producerVars
<1>6. ReadInv'
  <2>1. ReadLen' = ReadLen
    BY <1>1 DEF ReadLen
  <2>2. DOMAIN reading' \cup DOMAIN copied' = 1 .. ReadLen
    BY <1>1, <1>2 DEF Inv, ReadInv
  <2>3. \A i \in DOMAIN reading' : reading'[i] = Wrap(mTail' + i - 1)
    BY <1>1, <1>2 DEF Inv, ReadInv
  <2>4. reading[k] = Wrap(mTail + k - 1)
        /\ \A j \in DOMAIN copied : copied[j] = mBuf[Wrap(mTail + j - 1)]
    BY <1>1, <1>2 DEF Inv, ReadInv
  <2>5. copied' = [i \in DOMAIN copied' |-> mBuf'[Wrap(mTail' + i - 1)]]
    BY <1>1, <2>4
  <2> QED
    BY <1>1, <1>2, <2>1, <2>2, <2>3, <2>5 DEF ReadInv
<1> QED
  BY <1>3, <1>4, <1>5, <1>6 DEF Inv

LEMMA ReadEndInv ==
  ASSUME Inv, ReadEnd
  PROVE  Inv'
<1>1. newTail # Idle /\ reading = Nothing /\ mTail' = newTail
      /\ tailLag' = Append(tailLag, newTail) /\ newTail' = Idle
      /\ UNCHANGED <<mBuf, mHead, headLag, headSeen, tailSeen, reading, producerVars>>
  BY DEF ReadEnd
<1>2. TypeOK /\ newTail \in Cells /\ mTail \in Cells /\ tailSeen \in Cells /\ tailLag \in Seq(Cells)
  BY <1>1 DEF Inv, TypeOK
<1>3. Dist(tailSeen) = 0
  BY <1>2, SizeType DEF Dist, Available
<1>4. Sorted(tailLag, tailSeen, mTail) /\ Dist(mTail) <= Dist(newTail) /\ Dist(newTail) <= Dist(headSeen)
  BY <1>1 DEF Inv, InOrder
<1>5. Dist(mTail) \in 0 .. P - 1
  BY <1>2, DistType
<1>6. Sorted(Append(tailLag, newTail), tailSeen, newTail)
  BY <1>2, <1>3, <1>4, <1>5, AppendSorted
<1>7. TypeOK'
  BY <1>1, <1>2 DEF TypeOK, producerVars
<1>8. InOrder'
  BY <1>1, <1>4, <1>6 DEF Inv, InOrder, Sorted, Dist, producerVars
<1>9. WriteInv'
  BY <1>1 DEF Inv, WriteInv, Filling, WriteLen, producerVars
<1>10. ReadInv'
  BY <1>1 DEF ReadInv, Nothing, Idle
<1> QED
  BY <1>7, <1>8, <1>9, <1>10 DEF Inv

LEMMA SeeHeadInv ==
  ASSUME Inv, SeeHead
  PROVE  Inv'
<1>1. headLag # <<>> /\ headSeen' = Head(headLag) /\ headLag' = Tail(headLag)
      /\ UNCHANGED <<mBuf, mHead, mTail, tailLag, tailSeen, producerVars, consumerVars, given>>
  BY DEF SeeHead
<1>2. TypeOK /\ headLag \in Seq(Cells) /\ Sorted(headLag, headSeen, mHead)
      /\ headSeen \in Cells /\ mTail \in Cells /\ newTail \in Cells \cup {Idle}
  BY DEF Inv, TypeOK, InOrder
<1>3. /\ Len(headLag) \in Nat /\ 1 \in 1 .. Len(headLag) /\ headSeen' = headLag[1] /\ headLag[1] \in Cells
      /\ Len(headLag') = Len(headLag) - 1 /\ headLag' \in Seq(Cells)
      /\ \A i \in 1 .. Len(headLag') : headLag'[i] = headLag[i + 1] /\ i + 1 \in 1 .. Len(headLag)
  BY <1>1, <1>2
<1>4. TypeOK'
  BY <1>1, <1>2, <1>3 DEF TypeOK, producerVars, consumerVars
<1>5. Sorted(headLag', headSeen', mHead)
  <2>1. ASSUME NEW i \in 1 .. Len(headLag')
        PROVE  Dist(headSeen') <= Dist(headLag'[i]) /\ Dist(headLag'[i]) <= Dist(mHead)
    <3>1. 1 <= i + 1
      BY <1>3
    <3> QED
      BY <1>2, <1>3, <3>1 DEF Sorted
  <2>2. ASSUME NEW i \in 1 .. Len(headLag'), NEW j \in 1 .. Len(headLag'), i <= j
        PROVE  Dist(headLag'[i]) <= Dist(headLag'[j])
    <3>1. i + 1 <= j + 1
      BY <1>3, <2>2
    <3> QED
      BY <1>2, <1>3, <3>1 DEF Sorted
  <2> QED
    BY <2>1, <2>2 DEF Sorted
<1>6. Dist(headSeen) <= Dist(headSeen') /\ Dist(headSeen') <= Dist(mHead)
  BY <1>2, <1>3 DEF Sorted
<1>7. InOrder'
  <2>1. \A x \in Cells : Dist(x) \in Int
    BY <1>2, DistType, SizeType
  <2>2. Dist(mTail) <= Dist(headSeen') /\ (newTail # Idle => Dist(newTail) <= Dist(headSeen'))
    BY <1>2, <1>3, <1>6, <2>1 DEF Inv, InOrder
  <2>3. /\ Sorted(tailLag, tailSeen, mTail)
        /\ newTail # Idle => Dist(mTail) <= Dist(newTail)
        /\ newHead # Idle => Dist(mHead) <= Dist(newHead)
    BY DEF Inv, InOrder
  <2> QED
    BY <1>1, <1>5, <1>6, <2>2, <2>3 DEF InOrder, Sorted, Dist, producerVars, consumerVars
<1>8. WriteInv'
  BY <1>1 DEF Inv, WriteInv, Filling, WriteLen, producerVars
<1>9. ReadInv'
  BY <1>1 DEF Inv, ReadInv, ReadLen, consumerVars
<1> QED
  BY <1>4, <1>7, <1>8, <1>9 DEF Inv

\* The order survives a change of its origin: everything lies behind the tail
\* that the producer sees now.
LEMMA SeeTailInv ==
  ASSUME Inv, SeeTail
  PROVE  Inv'
<1> DEFINE s == Head(tailLag)
<1>1. tailLag # <<>> /\ tailSeen' = s /\ tailLag' = Tail(tailLag)
      /\ UNCHANGED <<mBuf, mHead, mTail, headLag, headSeen, producerVars, consumerVars, given>>
  BY DEF SeeTail
<1>2. /\ TypeOK /\ tailSeen \in Cells /\ mTail \in Cells /\ headSeen \in Cells /\ mHead \in Cells
      /\ newTail \in Cells \cup {Idle} /\ newHead \in Cells \cup {Idle}
      /\ headLag \in Seq(Cells) /\ tailLag \in Seq(Cells)
  BY DEF Inv, TypeOK
<1>3. /\ Len(tailLag) \in Nat /\ 1 \in 1 .. Len(tailLag) /\ s = tailLag[1] /\ s \in Cells
      /\ Len(tailLag') = Len(tailLag) - 1 /\ tailLag' \in Seq(Cells)
      /\ \A i \in 1 .. Len(tailLag') :
           tailLag'[i] = tailLag[i + 1] /\ i + 1 \in 1 .. Len(tailLag) /\ tailLag[i + 1] \in Cells
      /\ \A i \in 1 .. Len(headLag) : headLag[i] \in Cells
  BY <1>1, <1>2
<1> HIDE DEF s
<1>4. TypeOK'
  BY <1>1, <1>2, <1>3 DEF TypeOK, producerVars, consumerVars
<1>5. \A x \in Cells : Dist(x) \in Int /\ (Dist(s) <= Dist(x) => Dist(x)' = Dist(x) - Dist(s))
  <2> SUFFICES ASSUME NEW x \in Cells
               PROVE  Dist(x) \in Int /\ (Dist(s) <= Dist(x) => Dist(x)' = Dist(x) - Dist(s))
    OBVIOUS
  <2>1. Dist(x) \in Int /\ Dist(s) \in Int
    BY <1>2, <1>3, DistType, SizeType
  <2>2. Dist(x)' = Available(x, s)
    BY <1>1 DEF Dist
  <2> QED
    BY <1>2, <1>3, <2>1, <2>2, DistancesAdd DEF Dist
<1>6. Dist(s) <= Dist(mTail)
  BY <1>3 DEF Inv, InOrder, Sorted
<1>7. Dist(s) <= Dist(headSeen) /\ Dist(s) <= Dist(mHead)
      /\ (newTail # Idle => Dist(s) <= Dist(newTail))
      /\ (newHead # Idle => Dist(s) <= Dist(newHead))
  BY <1>2, <1>3, <1>5, <1>6 DEF Inv, InOrder
<1>8. ASSUME NEW i \in 1 .. Len(headLag)
      PROVE  Dist(s) <= Dist(headLag[i])
  BY <1>2, <1>3, <1>5, <1>7 DEF Inv, InOrder, Sorted
<1>9. ASSUME NEW i \in 1 .. Len(tailLag')
      PROVE  Dist(s) <= Dist(tailLag'[i]) /\ tailLag'[i] \in Cells
  <2>1. 1 <= i + 1
    BY <1>3
  <2> QED
    BY <1>3, <2>1 DEF Inv, InOrder, Sorted
<1>10. Sorted(headLag, headSeen, mHead)'
  <2>1. ASSUME NEW i \in 1 .. Len(headLag)
        PROVE  Dist(headSeen)' <= Dist(headLag[i])' /\ Dist(headLag[i])' <= Dist(mHead)'
    <3>1. Dist(headSeen) <= Dist(headLag[i]) /\ Dist(headLag[i]) <= Dist(mHead)
      BY DEF Inv, InOrder, Sorted
    <3>2. Available(headSeen, s) = Dist(headSeen) - Dist(s) /\ Available(mHead, s) = Dist(mHead) - Dist(s)
          /\ Available(headLag[i], s) = Dist(headLag[i]) - Dist(s)
      BY <1>1, <1>2, <1>3, <1>5, <1>7, <1>8 DEF Dist
    <3>3. /\ Dist(headSeen) \in Int /\ Dist(headLag[i]) \in Int
          /\ Dist(mHead) \in Int /\ Dist(s) \in Int
      BY <1>2, <1>3, <1>5
    <3>4. Available(headSeen, s) <= Available(headLag[i], s) /\ Available(headLag[i], s) <= Available(mHead, s)
      BY <3>1, <3>2, <3>3
    <3> QED
      BY <1>1, <3>4 DEF Dist
  <2>2. ASSUME NEW i \in 1 .. Len(headLag), NEW j \in 1 .. Len(headLag), i <= j
        PROVE  Dist(headLag[i])' <= Dist(headLag[j])'
    <3>1. Dist(headLag[i]) <= Dist(headLag[j])
      BY <2>2 DEF Inv, InOrder, Sorted
    <3>2. Available(headLag[j], s) = Dist(headLag[j]) - Dist(s)
          /\ Available(headLag[i], s) = Dist(headLag[i]) - Dist(s)
      BY <1>1, <1>3, <1>5, <1>8 DEF Dist
    <3>3. Dist(headLag[i]) \in Int /\ Dist(headLag[j]) \in Int /\ Dist(s) \in Int
      BY <1>3, <1>5
    <3>4. Available(headLag[i], s) <= Available(headLag[j], s)
      BY <3>1, <3>2, <3>3
    <3> QED
      BY <1>1, <3>4 DEF Dist
  <2> QED
    BY <1>1, <2>1, <2>2 DEF Sorted
<1>11. Sorted(tailLag, tailSeen, mTail)'
  <2>2. ASSUME NEW i \in 1 .. Len(tailLag')
        PROVE  /\ Available(tailLag'[i], s) = Dist(tailLag'[i]) - Dist(s)
               /\ Dist(tailLag'[i]) <= Dist(mTail)
               /\ Dist(tailLag'[i]) \in Int
    BY <1>1, <1>3, <1>5, <1>9 DEF Inv, InOrder, Sorted, Dist
  <2>3. ASSUME NEW i \in 1 .. Len(tailLag'), NEW j \in 1 .. Len(tailLag'), i <= j
        PROVE  Dist(tailLag'[i]) <= Dist(tailLag'[j])
    <3>1. i + 1 <= j + 1
      BY <1>3, <2>3
    <3> QED
      BY <1>3, <3>1 DEF Inv, InOrder, Sorted
  <2>4. Available(mTail, s) = Dist(mTail) - Dist(s) /\ Available(s, s) = 0
    BY <1>1, <1>2, <1>3, <1>5, <1>6 DEF Dist
  <2>5. Dist(mTail) \in Int /\ Dist(s) \in Int
    BY <1>2, <1>3, <1>5
  <2>6. ASSUME NEW i \in 1 .. Len(tailLag')
        PROVE  Available(s, s) <= Available(tailLag'[i], s) /\ Available(tailLag'[i], s) <= Available(mTail, s)
    BY <1>9, <2>2, <2>4, <2>5
  <2>7. ASSUME NEW i \in 1 .. Len(tailLag'), NEW j \in 1 .. Len(tailLag'), i <= j
        PROVE  Available(tailLag'[i], s) <= Available(tailLag'[j], s)
    BY <2>2, <2>3, <2>5, <2>7
  <2> QED
    BY <1>1, <2>6, <2>7 DEF Sorted, Dist
<1>12. InOrder'
  <2>1. /\ Dist(mTail) <= Dist(headSeen) /\ Dist(headSeen) <= Dist(mHead)
        /\ newTail # Idle => Dist(mTail) <= Dist(newTail) /\ Dist(newTail) <= Dist(headSeen)
        /\ newHead # Idle => Dist(mHead) <= Dist(newHead)
    BY DEF Inv, InOrder
  <2>2. \A x \in Cells : Dist(s) <= Dist(x) => Available(x, s) = Dist(x) - Dist(s)
    BY <1>1, <1>5 DEF Dist
  <2>3. /\ Available(mTail, s) <= Available(headSeen, s) /\ Available(headSeen, s) <= Available(mHead, s)
        /\ newTail # Idle => Available(mTail, s) <= Available(newTail, s)
                             /\ Available(newTail, s) <= Available(headSeen, s)
        /\ newHead # Idle => Available(mHead, s) <= Available(newHead, s)
    BY <1>2, <1>3, <1>5, <1>6, <1>7, <2>1, <2>2
  <2> QED
    BY <1>1, <1>10, <1>11, <2>3 DEF InOrder, Dist, producerVars, consumerVars
<1>13. WriteInv'
  BY <1>1 DEF Inv, WriteInv, Filling, WriteLen, producerVars
<1>14. ReadInv'
  BY <1>1 DEF Inv, ReadInv, ReadLen, consumerVars
<1> QED
  BY <1>4, <1>12, <1>13, <1>14 DEF Inv

LEMMA NextInv == Inv /\ [Next]_vars => Inv'
<1> SUFFICES ASSUME Inv, [Next]_vars PROVE Inv'
  OBVIOUS
<1>1. CASE Next
  BY <1>1, WriteBeginInv, WriteCellInv, WriteEndInv, ReadBeginInv, ReadCellInv, ReadEndInv,
     SeeHeadInv, SeeTailInv DEF Next, Producer, Consumer
<1>2. CASE UNCHANGED vars
  BY <1>2 DEF vars, producerVars, consumerVars, Inv, TypeOK, InOrder, Sorted, Dist,
     WriteInv, Filling, WriteLen, ReadInv, ReadLen
<1> QED
  BY <1>1, <1>2

\* The positions the two threads store and see keep their order round the
\* buffer, and a call in progress stays within its own part of it
\* (byte_source.cpp, write and read).
THEOREM InvAlways == Spec => []Inv
<1>1. Init => Inv
  BY InitInv
<1>2. Inv /\ [Next]_vars => Inv'
  BY NextInv
<1> QED
  BY <1>1, <1>2, PTL DEF Spec

\* The producer never copies into a cell the consumer is still to copy from,
\* for every capacity and however late each thread sees the other's position
\* (byte_source.h: "Single-producer, single-consumer is fully safe without
\* locks").
THEOREM NoDataRaceEver == Spec => []NoDataRace
BY InvAlways, InvImpliesNoDataRace, PTL
-----------------------------------------------------------------------------
(* The buffer implements the queue                                         *)

\* The octets held are fewer than the cells, and lie between the stored tail and
\* the stored head.
LEMMA ContentsType ==
  ASSUME Inv
  PROVE  /\ Available(mHead, mTail) = Dist(mHead) - Dist(mTail)
         /\ Available(mHead, mTail) \in 0 .. P - 1
         /\ \A i \in 1 .. Available(mHead, mTail) :
              /\ Wrap(mTail + i - 1) \in Cells
              /\ Dist(Wrap(mTail + i - 1)) = Dist(mTail) + i - 1
              /\ Dist(Wrap(mTail + i - 1)) < Dist(mHead)
         /\ Contents \in Seq(Octets)
         /\ Len(Contents) = Available(mHead, mTail)
<1>1. /\ TypeOK /\ mHead \in Cells /\ mTail \in Cells /\ headSeen \in Cells
      /\ Dist(mTail) <= Dist(headSeen) /\ Dist(headSeen) <= Dist(mHead)
  BY DEF Inv, TypeOK, InOrder
<1>2. \A x \in Cells : Dist(x) \in Int
  BY <1>1, DistType, SizeType
<1>3. Dist(mTail) <= Dist(mHead)
  BY <1>1, <1>2
<1>4. Available(mHead, mTail) = Dist(mHead) - Dist(mTail)
  BY <1>1, <1>2, <1>3, DistancesAdd DEF Dist, TypeOK
<1>5. Available(mHead, mTail) \in 0 .. P - 1
  BY <1>1, AvailableType
<1>6. \A i \in 1 .. Available(mHead, mTail) :
        /\ Wrap(mTail + i - 1) \in Cells
        /\ Dist(Wrap(mTail + i - 1)) = Dist(mTail) + i - 1
        /\ Dist(Wrap(mTail + i - 1)) < Dist(mHead)
  BY <1>1, <1>3, Between
<1>7. Available(mHead, mTail) \in Nat
  BY <1>5, SizeType
<1>8. \A i \in 1 .. Available(mHead, mTail) : mBuf[Wrap(mTail + i - 1)] \in Octets
  BY <1>1, <1>6 DEF TypeOK
<1>9. Contents \in Seq(Octets) /\ Len(Contents) = Available(mHead, mTail)
  BY <1>7, <1>8 DEF Contents
<1> QED
  BY <1>4, <1>5, <1>6, <1>9

\* A copy into the buffer is not seen by the queue: it goes past the stored head.
LEMMA WriteCellStutters ==
  ASSUME Inv, NEW c \in Cells, WriteCell(c)
  PROVE  UNCHANGED <<Contents, given>>
<1>1. /\ c \in DOMAIN writing /\ mBuf' = [mBuf EXCEPT ![c] = writing[c]]
      /\ UNCHANGED <<mHead, mTail, given>>
  BY DEF WriteCell
<1>2. Dist(mHead) <= Dist(c)
  BY <1>1, WritingIsAhead
<1>3. \A x \in Cells : Dist(x) \in Int
  BY DistType, SizeType DEF Inv
<1>4. mHead \in Cells /\ mBuf \in [Cells -> Octets]
  BY DEF Inv, TypeOK
<1>5. ASSUME NEW i \in 1 .. Available(mHead, mTail)
      PROVE  mBuf'[Wrap(mTail + i - 1)] = mBuf[Wrap(mTail + i - 1)]
  <2>1. Wrap(mTail + i - 1) \in Cells /\ Dist(Wrap(mTail + i - 1)) < Dist(mHead)
    BY ContentsType
  <2>2. Wrap(mTail + i - 1) # c
    BY <1>2, <1>3, <1>4, <2>1
  <2> QED
    BY <1>1, <1>4, <2>1, <2>2
<1>6. Contents' = [i \in 1 .. Available(mHead, mTail) |-> mBuf'[Wrap(mTail + i - 1)]]
  BY <1>1 DEF Contents
<1> QED
  BY <1>1, <1>5, <1>6 DEF Contents

\* The store of the head is the write of the queue: from then on the copied
\* octets are behind the others, and they are the start of the caller's.
LEMMA WriteEndWrites ==
  ASSUME Inv, WriteEnd
  PROVE  Queue!Write \/ UNCHANGED <<Contents, given>>
<1> DEFINE k == Available(mHead, mTail)
           n == WriteLen
<1>1. /\ newHead # Idle /\ writing = Nothing /\ mHead' = newHead
      /\ UNCHANGED <<mBuf, mTail, given>>
  BY DEF WriteEnd, StoreHead
<1>2. /\ TypeOK /\ mHead \in Cells /\ mTail \in Cells /\ newHead \in Cells /\ tailSeen \in Cells
      /\ Dist(mHead) <= Dist(newHead)
  BY <1>1 DEF Inv, TypeOK, InOrder
<1>3. \A x \in Cells : Dist(x) \in 0 .. P - 1
  BY <1>2, DistType
<1>4. n = Dist(newHead) - Dist(mHead)
  BY <1>2, <1>3, DistancesAdd DEF WriteLen, Dist
<1>5. k = Dist(mHead) - Dist(mTail) /\ k \in 0 .. P - 1
  BY ContentsType
<1>6. Dist(mTail) <= Dist(newHead)
  BY <1>2, <1>3, <1>5, SizeType
<1>7. Available(newHead, mTail) = Dist(newHead) - Dist(mTail)
  BY <1>2, <1>3, <1>6, DistancesAdd DEF Dist
<1> HIDE DEF k, n
<1>8. Available(newHead, mTail) = k + n /\ n \in Nat /\ k \in Nat /\ k + n <= P - 1
  <2>1. Dist(newHead) \in 0 .. P - 1 /\ Dist(mHead) \in 0 .. P - 1 /\ Dist(mTail) \in 0 .. P - 1
    BY <1>2, <1>3
  <2>2. Dist(mHead) <= Dist(newHead)
    BY <1>2
  <2> QED
    BY <1>4, <1>5, <1>7, <2>1, <2>2, SizeType
<1>9. Contents' = [i \in 1 .. k + n |-> mBuf[Wrap(mTail + i - 1)]]
  BY <1>1, <1>8 DEF Contents
<1>10. Contents \in Seq(Octets) /\ Len(Contents) = k
       /\ \A i \in 1 .. k : Contents[i] = mBuf[Wrap(mTail + i - 1)]
  BY ContentsType DEF Contents, k
<1>11. PICK data \in Chunks : Filling(data)
  BY <1>1 DEF Inv, WriteInv
<1>12. data \in Seq(Octets) /\ n <= Len(data)
  BY <1>11, RingAssumption DEF Filling, n
<1>13. ASSUME NEW i \in 1 .. n
       PROVE  mBuf[Wrap(mTail + (k + i) - 1)] = data[i]
  <2>1. k + i \in 1 .. Available(newHead, mTail) /\ i \in 1 .. Available(newHead, mHead)
    BY <1>8 DEF n, WriteLen
  <2>2. /\ Wrap(mTail + (k + i) - 1) \in Cells
        /\ Dist(Wrap(mTail + (k + i) - 1)) = Dist(mTail) + (k + i) - 1
    BY <1>2, <1>6, <2>1, Between
  <2>3. /\ Wrap(mHead + i - 1) \in Cells
        /\ Dist(Wrap(mHead + i - 1)) = Dist(mHead) + i - 1
    BY <1>2, <2>1, Between
  <2>4. Dist(Wrap(mTail + (k + i) - 1)) = Dist(Wrap(mHead + i - 1))
    BY <1>2, <1>3, <1>5, <1>8, <2>2, <2>3
  <2>5. Wrap(mTail + (k + i) - 1) = Wrap(mHead + i - 1)
    BY <1>2, <2>2, <2>3, <2>4, SameDistance DEF Dist
  <2>6. DOMAIN writing = {}
    BY <1>1 DEF Nothing
  <2> QED
    BY <1>11, <2>5, <2>6 DEF Filling, n
<1>14. CASE n = 0
  BY <1>1, <1>9, <1>14, <1>8 DEF Contents, k
<1>15. CASE n # 0
  <2>1. n \in 1 .. Len(data) /\ n <= Capacity - Len(Contents)
    BY <1>8, <1>10, <1>12, <1>15, SizeType
  <2>2. Contents' = Contents \o SubSeq(data, 1, n)
    <3>1. /\ SubSeq(data, 1, n) \in Seq(Octets) /\ Len(SubSeq(data, 1, n)) = n
          /\ \A i \in 1 .. n : SubSeq(data, 1, n)[i] = data[i]
      BY <1>8, <1>12
    <3>2. Contents \o SubSeq(data, 1, n) = [i \in 1 .. k + n |->
            IF i <= k THEN Contents[i] ELSE SubSeq(data, 1, n)[i - k]]
      <4> DEFINE d == SubSeq(data, 1, n)
      <4> HIDE DEF d
      <4>1. Contents \in Seq(Octets) /\ Len(Contents) = k /\ d \in Seq(Octets) /\ Len(d) = n
        BY <1>10, <3>1 DEF d
      <4>2. /\ Contents \o d \in Seq(Octets) /\ Len(Contents \o d) = k + n
            /\ \A i \in 1 .. k + n : (Contents \o d)[i] = IF i <= k THEN Contents[i] ELSE d[i - k]
        BY <1>8, <4>1
      <4>3. Contents \o d = [i \in 1 .. k + n |-> (Contents \o d)[i]]
        <5>1. ASSUME NEW t \in Seq(Octets) PROVE t = [i \in 1 .. Len(t) |-> t[i]]
          OBVIOUS
        <5> QED
          BY <4>2, <5>1
      <4>4. Contents \o d = [i \in 1 .. k + n |-> IF i <= k THEN Contents[i] ELSE d[i - k]]
        BY <4>2, <4>3
      <4> QED
        BY <4>4 DEF d
    <3>3. ASSUME NEW i \in 1 .. k + n
          PROVE  mBuf[Wrap(mTail + i - 1)] =
                   IF i <= k THEN Contents[i] ELSE SubSeq(data, 1, n)[i - k]
      <4>1. CASE i <= k
        BY <1>8, <1>10, <4>1
      <4>2. CASE ~(i <= k)
        <5>1. i - k \in 1 .. n /\ k + (i - k) = i
          BY <1>8, <4>2
        <5>2. mBuf[Wrap(mTail + (k + (i - k)) - 1)] = data[i - k]
          BY <1>13, <5>1
        <5> QED
          BY <3>1, <4>2, <5>1, <5>2
      <4> QED
        BY <4>1, <4>2
    <3> QED
      BY <1>9, <3>2, <3>3
  <2> QED
    BY <1>1, <2>1, <2>2 DEF Queue!Write
<1> QED
  BY <1>14, <1>15

\* The store of the tail is the read of the queue: what was copied is its start,
\* and what is left its rest.
LEMMA ReadEndReads ==
  ASSUME Inv, ReadEnd
  PROVE  Queue!Read
<1> DEFINE k == Available(mHead, mTail)
           n == ReadLen
<1>1. /\ newTail # Idle /\ reading = Nothing /\ mTail' = newTail /\ given' = copied
      /\ UNCHANGED <<mBuf, mHead>>
  BY DEF ReadEnd
<1>2. /\ TypeOK /\ mHead \in Cells /\ mTail \in Cells /\ newTail \in Cells /\ headSeen \in Cells
      /\ tailSeen \in Cells
      /\ Dist(mTail) <= Dist(newTail) /\ Dist(newTail) <= Dist(headSeen)
      /\ Dist(headSeen) <= Dist(mHead)
  BY <1>1 DEF Inv, TypeOK, InOrder
<1>3. \A x \in Cells : Dist(x) \in 0 .. P - 1
  BY <1>2, DistType
<1>4. Dist(newTail) <= Dist(mHead)
  BY <1>2, <1>3, SizeType
<1>5. n = Dist(newTail) - Dist(mTail) /\ Available(mHead, newTail) = Dist(mHead) - Dist(newTail)
  BY <1>2, <1>3, <1>4, DistancesAdd DEF ReadLen, Dist
<1>6. k = Dist(mHead) - Dist(mTail) /\ k \in 0 .. P - 1
  BY ContentsType
<1> HIDE DEF k, n
<1>7. Available(mHead, newTail) = k - n /\ n \in 0 .. k /\ k \in Nat
  <2>1. Dist(newTail) \in 0 .. P - 1 /\ Dist(mHead) \in 0 .. P - 1 /\ Dist(mTail) \in 0 .. P - 1
    BY <1>2, <1>3
  <2>2. Dist(mTail) <= Dist(newTail)
    BY <1>2
  <2> QED
    BY <1>4, <1>5, <1>6, <2>1, <2>2, SizeType
<1>8. Contents' = [i \in 1 .. k - n |-> mBuf[Wrap(newTail + i - 1)]]
  BY <1>1, <1>7 DEF Contents
<1>9. Contents \in Seq(Octets) /\ Len(Contents) = k
      /\ \A i \in 1 .. k : Contents[i] = mBuf[Wrap(mTail + i - 1)]
  BY ContentsType DEF Contents, k
<1>10. copied = [i \in 1 .. n |-> mBuf[Wrap(mTail + i - 1)]]
  <2>1. DOMAIN reading = {}
    BY <1>1 DEF Nothing
  <2>2. DOMAIN copied = 1 .. n
    BY <1>1, <2>1 DEF Inv, ReadInv, n
  <2> QED
    BY <1>1, <2>2 DEF Inv, ReadInv
<1>11. given' = SubSeq(Contents, 1, n)
  <2>1. SubSeq(Contents, 1, n) = [i \in 1 .. n |-> Contents[i]]
    BY <1>7, <1>9
  <2>2. \A i \in 1 .. n : Contents[i] = mBuf[Wrap(mTail + i - 1)]
    BY <1>7, <1>9
  <2> QED
    BY <1>1, <1>10, <2>1, <2>2
<1>12. ASSUME NEW i \in 1 .. k - n
       PROVE  mBuf[Wrap(newTail + i - 1)] = Contents[n + i]
  <2>1. i \in 1 .. Available(mHead, newTail) /\ n + i \in 1 .. k
    BY <1>7
  <2>2. /\ Wrap(newTail + i - 1) \in Cells
        /\ Dist(Wrap(newTail + i - 1)) = Dist(newTail) + i - 1
    BY <1>2, <1>4, <2>1, Between
  <2>3. /\ Wrap(mTail + (n + i) - 1) \in Cells
        /\ Dist(Wrap(mTail + (n + i) - 1)) = Dist(mTail) + (n + i) - 1
    BY <2>1, ContentsType DEF k
  <2>4. Dist(Wrap(mTail + (n + i) - 1)) = Dist(Wrap(newTail + i - 1))
    BY <1>2, <1>3, <1>5, <1>7, <2>2, <2>3
  <2>5. Wrap(mTail + (n + i) - 1) = Wrap(newTail + i - 1)
    BY <1>2, <2>2, <2>3, <2>4, SameDistance DEF Dist
  <2> QED
    BY <1>9, <2>1, <2>5
<1>13. Contents' = SubSeq(Contents, n + 1, Len(Contents))
  <2>1. SubSeq(Contents, n + 1, k) = [i \in 1 .. k - n |-> Contents[n + i]]
    BY <1>7, <1>9
  <2> QED
    BY <1>8, <1>9, <1>12, <2>1
<1> QED
  BY <1>7, <1>9, <1>11, <1>13 DEF Queue!Read

\* Every other step leaves the octets held and the octets given alone.
LEMMA StepOfQueue ==
  Inv /\ [Next]_vars => [Queue!Next]_<<Contents, given>>
<1> SUFFICES ASSUME Inv, [Next]_vars PROVE [Queue!Next]_<<Contents, given>>
  OBVIOUS
<1>1. ASSUME NEW data \in Chunks, WriteBegin(data) PROVE UNCHANGED <<Contents, given>>
  BY <1>1 DEF WriteBegin, Contents
<1>2. ASSUME NEW n \in ReadSizes, ReadBegin(n) PROVE UNCHANGED <<Contents, given>>
  BY <1>2 DEF ReadBegin, Contents
<1>3. ASSUME NEW i \in 1 .. Capacity, ReadCell(i) PROVE UNCHANGED <<Contents, given>>
  BY <1>3 DEF ReadCell, Contents
<1>4. ASSUME SeeHead \/ SeeTail PROVE UNCHANGED <<Contents, given>>
  BY <1>4 DEF SeeHead, SeeTail, Contents
<1>5. ASSUME UNCHANGED vars PROVE UNCHANGED <<Contents, given>>
  BY <1>5 DEF vars, Contents
<1>6. CASE Producer
  BY <1>1, <1>6, WriteCellStutters, WriteEndWrites DEF Producer, Queue!Next
<1>7. CASE Consumer
  BY <1>2, <1>3, <1>7, ReadEndReads DEF Consumer, Queue!Next
<1> QED
  BY <1>4, <1>5, <1>6, <1>7 DEF Next

\* The buffer is a first-in first-out queue of Capacity octets, whatever the
\* two threads interleave and however late they see each other's position
\* (byte_source.cpp, write and read): a write that returned n appended the first
\* n octets of its caller, in order, none lost, repeated or overwritten, and
\* they become available all at once.
THEOREM ImplementsQueue == Spec => QueueSpec
<1>1. Init => Queue!Init
  <2> SUFFICES ASSUME Init PROVE Contents = <<>> /\ given = <<>>
    BY DEF Queue!Init
  <2>1. Available(mHead, mTail) = 0
    BY DEF Init, Available
  <2> QED
    BY <2>1 DEF Init, Contents
<1>2. Inv /\ [Next]_vars => [Queue!Next]_<<Contents, given>>
  BY StepOfQueue
<1> QED
  BY <1>1, <1>2, InvAlways, PTL DEF Spec, QueueSpec, Queue!Spec
=============================================================================
