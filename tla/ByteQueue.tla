----------------------------- MODULE ByteQueue ------------------------------
(***************************************************************************)
(* What the ring buffer promises its two threads: a first-in first-out     *)
(* queue of octets with room for Capacity of them.  A write appends the    *)
(* start of its caller's octets in one step, as much of it as it accepts;  *)
(* a read takes a prefix of the queue in one step.                         *)
(***************************************************************************)
EXTENDS Naturals, Sequences

CONSTANTS Chunks, Capacity

VARIABLES
  queue,                 \* octets written and not yet read
  given                  \* what the last read gave its caller

Init == queue = <<>> /\ given = <<>>

Write ==
  /\ \E data \in Chunks : \E n \in 1 .. Len(data) :
       /\ n <= Capacity - Len(queue)
       /\ queue' = queue \o SubSeq(data, 1, n)
  /\ UNCHANGED given

Read ==
  \E n \in 0 .. Len(queue) :
    /\ given' = SubSeq(queue, 1, n)
    /\ queue' = SubSeq(queue, n + 1, Len(queue))

Next == Write \/ Read

Spec == Init /\ [][Next]_<<queue, given>>
=============================================================================
