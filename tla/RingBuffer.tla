----------------------------- MODULE RingBuffer -----------------------------
(***************************************************************************)
(* The lock-free ring buffer between one producer and one consumer thread  *)
(* (bitstream/byte_source.cpp).  A call is three kinds of steps: it loads  *)
(* the two positions, copies octets, and stores its own position.          *)
(*                                                                         *)
(* A position stored by one thread becomes visible to the other later, in  *)
(* the order of the stores (SeeHead, SeeTail); an acquire load returns the *)
(* last visible one.  What the storing thread did before the store is then *)
(* visible too, so cells are ordinary memory as long as no cell is written *)
(* and read at the same time (NoDataRace).  memcpy() copies in any order.  *)
(* Operators named Fault... are broken variants that nothing uses.         *)
(***************************************************************************)
EXTENDS Integers, Sequences

CONSTANTS
  RequestedCapacity,     \* the argument of the constructor
  Octets,                \* values of an octet
  Chunks,                \* the octet strings the producer writes
  ReadSizes              \* the sizes the consumer asks for

\* The next power of two, at least 2.
PhysicalSize ==
  2 ^ (CHOOSE k \in 1 .. RequestedCapacity + 1 :
         2 ^ k >= RequestedCapacity /\ (k > 1 => 2 ^ (k - 1) < RequestedCapacity))

FaultCapacity == PhysicalSize

Capacity == PhysicalSize - 1      \* one slot is sacrificed

Cells == 0 .. PhysicalSize - 1

ASSUME RingAssumption ==
  /\ RequestedCapacity \in Nat
  /\ 0 \in Octets                 \* the buffer is filled with zeros
  /\ Chunks \subseteq Seq(Octets)
  /\ ReadSizes \subseteq Nat
  /\ PhysicalSize \in Nat /\ PhysicalSize >= 2      \* there is such a power of two

VARIABLES
  mBuf,                  \* cell -> octet
  mHead, mTail,          \* as stored by their owners
  headLag, tailLag,      \* stores the other thread does not see yet, oldest first
  headSeen, tailSeen,    \* what the consumer sees of mHead, the producer of mTail
  writing,               \* producer in write(): where each octet still to copy goes
  newHead,               \* the position it will store, or Idle
  reading,               \* consumer in read(): the cells still to copy from
  newTail,               \* the position it will store, or Idle
  copied,                \* octets copied to the consumer's buffer, by position
  given                  \* what the last read gave its caller

producerVars == <<writing, newHead>>
consumerVars == <<reading, newTail, copied>>
vars == <<mBuf, mHead, mTail, headLag, tailLag, headSeen, tailSeen,
          producerVars, consumerVars, given>>

Idle == -1

Nothing == [i \in {} |-> 0]

Init ==
  /\ mBuf = [c \in Cells |-> 0]
  /\ mHead = 0 /\ mTail = 0
  /\ headLag = <<>> /\ tailLag = <<>>
  /\ headSeen = 0 /\ tailSeen = 0
  /\ writing = Nothing /\ newHead = Idle
  /\ reading = Nothing /\ newTail = Idle
  /\ copied = Nothing
  /\ given = <<>>

-----------------------------------------------------------------------------
(* Positions                                                               *)

\* x & mMask
Wrap(x) == x % PhysicalSize

Available(head, tail) ==
  IF head >= tail THEN head - tail ELSE PhysicalSize - tail + head

FreeSpace(head, tail) == Capacity - Available(head, tail)

Least(a, b) == IF a < b THEN a ELSE b

\* The cell of the i-th octet of len octets from pos on: up to the end of the
\* buffer, then from its start.
CellOf(pos, len, i) ==
  LET first == Least(PhysicalSize - pos, len)
  IN  IF i <= first THEN pos + i - 1 ELSE Wrap(pos + first) + (i - first) - 1

After(pos, len) ==
  LET first == Least(PhysicalSize - pos, len)
  IN  IF len > first THEN Wrap(Wrap(pos + first) + (len - first)) ELSE Wrap(pos + first)

-----------------------------------------------------------------------------
(* The producer                                                            *)

\* write() up to the copy; with no room it returns 0 here.
WriteBegin(data) ==
  LET len == Least(Len(data), FreeSpace(mHead, tailSeen))
  IN  /\ newHead = Idle
      /\ FreeSpace(mHead, tailSeen) > 0
      /\ writing' = [c \in {CellOf(mHead, len, i) : i \in 1 .. len} |->
                       data[CHOOSE i \in 1 .. len : CellOf(mHead, len, i) = c]]
      /\ newHead' = After(mHead, len)
      /\ UNCHANGED <<mBuf, mHead, mTail, headLag, tailLag, headSeen, tailSeen,
                     consumerVars, given>>

WriteCell(c) ==
  /\ c \in DOMAIN writing
  /\ mBuf' = [mBuf EXCEPT ![c] = writing[c]]
  /\ writing' = [d \in DOMAIN writing \ {c} |-> writing[d]]
  /\ UNCHANGED <<mHead, mTail, headLag, tailLag, headSeen, tailSeen, newHead,
                 consumerVars, given>>

StoreHead ==
  /\ mHead' = newHead
  /\ headLag' = Append(headLag, newHead)
  /\ newHead' = Idle
  /\ UNCHANGED <<mBuf, mTail, tailLag, headSeen, tailSeen, writing, consumerVars, given>>

FaultWriteEnd == newHead # Idle /\ StoreHead

\* The release store, after all copies.
WriteEnd == newHead # Idle /\ writing = Nothing /\ StoreHead

-----------------------------------------------------------------------------
(* The consumer                                                            *)

ReadBegin(maxSize) ==
  LET len == Least(maxSize, Available(headSeen, mTail))
  IN  /\ newTail = Idle
      /\ Available(headSeen, mTail) > 0
      /\ reading' = [i \in 1 .. len |-> CellOf(mTail, len, i)]
      /\ newTail' = After(mTail, len)
      /\ copied' = Nothing
      /\ UNCHANGED <<mBuf, mHead, mTail, headLag, tailLag, headSeen, tailSeen,
                     producerVars, given>>

ReadCell(i) ==
  /\ i \in DOMAIN reading
  /\ copied' = [j \in DOMAIN copied \cup {i} |->
                  IF j = i THEN mBuf[reading[i]] ELSE copied[j]]
  /\ reading' = [j \in DOMAIN reading \ {i} |-> reading[j]]
  /\ UNCHANGED <<mBuf, mHead, mTail, headLag, tailLag, headSeen, tailSeen,
                 producerVars, newTail, given>>

FaultReadEnd ==
  /\ newTail # Idle
  /\ reading = Nothing
  /\ newTail' = Idle
  /\ given' = copied
  /\ copied' = Nothing
  /\ UNCHANGED <<mBuf, mHead, mTail, headLag, tailLag, headSeen, tailSeen, reading,
                 producerVars>>

\* The release store, after all copies; the caller gets what was copied.
ReadEnd ==
  /\ newTail # Idle
  /\ reading = Nothing
  /\ mTail' = newTail
  /\ tailLag' = Append(tailLag, newTail)
  /\ newTail' = Idle
  /\ given' = copied
  /\ copied' = Nothing
  /\ UNCHANGED <<mBuf, mHead, headLag, headSeen, tailSeen, reading, producerVars>>

-----------------------------------------------------------------------------
(* Memory                                                                  *)

SeeHead ==
  /\ headLag # <<>>
  /\ headSeen' = Head(headLag)
  /\ headLag' = Tail(headLag)
  /\ UNCHANGED <<mBuf, mHead, mTail, tailLag, tailSeen, producerVars, consumerVars, given>>

SeeTail ==
  /\ tailLag # <<>>
  /\ tailSeen' = Head(tailLag)
  /\ tailLag' = Tail(tailLag)
  /\ UNCHANGED <<mBuf, mHead, mTail, headLag, headSeen, producerVars, consumerVars, given>>

Producer ==
  \/ \E data \in Chunks : WriteBegin(data)
  \/ \E c \in Cells : WriteCell(c)
  \/ WriteEnd

Consumer ==
  \/ \E n \in ReadSizes : ReadBegin(n)
  \/ \E i \in 1 .. Capacity : ReadCell(i)
  \/ ReadEnd

Next == Producer \/ Consumer \/ SeeHead \/ SeeTail

\* Stores become visible in finite time; the consumer polls the buffer, and a
\* call once begun is finished by both.
Fairness ==
  /\ WF_vars(Consumer)
  /\ WF_vars((\E c \in Cells : WriteCell(c)) \/ WriteEnd)
  /\ WF_vars(SeeHead)
  /\ WF_vars(SeeTail)

Spec == Init /\ [][Next]_vars /\ Fairness

-----------------------------------------------------------------------------
(* Properties                                                              *)

\* The producer never copies into a cell the consumer is still to copy from,
\* however late each thread sees the other's position, also across the end of
\* the buffer (byte_source.h: "Single-producer, single-consumer is fully safe
\* without locks").
NoDataRace ==
  \A c \in DOMAIN writing : \A i \in DOMAIN reading : reading[i] # c

\* The octets between the stored positions, in order.
Contents ==
  [i \in 1 .. Available(mHead, mTail) |-> mBuf[Wrap(mTail + i - 1)]]

Queue == INSTANCE ByteQueue WITH queue <- Contents

\* The buffer is a first-in first-out queue: octets leave whole, in order, none
\* invented, repeated or dropped, and never more than the capacity is held.
QueueSpec == Queue!Spec

\* A buffer the producer saw full becomes writable again: the polling consumer
\* makes room, and the producer learns of it.
FullBufferDrains ==
  FreeSpace(mHead, tailSeen) = 0 ~> FreeSpace(mHead, tailSeen) > 0

-----------------------------------------------------------------------------
(***************************************************************************)
(* The values the model checker takes: three octets asked for, four        *)
(* cells, room for three; chunks shorter and longer than the room.         *)
(***************************************************************************)
MCOctets == {0, 1, 2}
MCChunks == {<<1>>, <<2, 1>>, <<1, 2, 2, 1>>}
MCReadSizes == {1, 4}
=============================================================================
