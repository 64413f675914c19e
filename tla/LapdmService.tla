---------------------------- MODULE LapdmService ----------------------------
(***************************************************************************)
(* What an acknowledged LAPDm link promises its two users, without frames, *)
(* counters or timers.  Each side accepts numbered messages and its peer   *)
(* is handed whole messages, in the order they were accepted, none twice   *)
(* and none left out -- except at a reset: a side that resets its half of  *)
(* the link loses what it had accepted and not delivered, and forgets what *)
(* it has been handed, so that it may be handed it again.                  *)
(***************************************************************************)
EXTENDS Naturals, Sequences

CONSTANTS Sides, Peer(_), Message(_)

VARIABLES
  sent,                  \* sent[s]: messages side s has accepted so far
  cut,                   \* cut[s]: values of sent[s] at which s was reset
  got,                   \* got[s]: messages handed to s so far
  base                   \* base[s]: how many of them before its last reset

vars == <<sent, cut, got, base>>

Init ==
  /\ sent = [s \in Sides |-> 0]
  /\ cut  = [s \in Sides |-> {}]
  /\ got  = [s \in Sides |-> <<>>]
  /\ base = [s \in Sides |-> 0]

Accept(s) ==
  /\ sent' = [sent EXCEPT ![s] = @ + 1]
  /\ UNCHANGED <<cut, got, base>>

\* Message j may follow message i: the next one, or one after a reset of the
\* sender that happened in between.
Follows(p, i, j) == i < j /\ (j = i + 1 \/ \E c \in cut[p] : i <= c /\ c < j)

Deliver(s) ==
  LET p == Peer(s) IN
  \E j \in 1 .. sent[p] :
    /\ Len(got[s]) > base[s] =>
         \E i \in 1 .. sent[p] :
           got[s][Len(got[s])] = Message(i) /\ Follows(p, i, j)
    /\ got' = [got EXCEPT ![s] = Append(@, Message(j))]
    /\ UNCHANGED <<sent, cut, base>>

Reset(s) ==
  /\ cut' = [cut EXCEPT ![s] = @ \cup {sent[s]}]
  /\ base' = [base EXCEPT ![s] = Len(got[s])]
  /\ UNCHANGED <<sent, got>>

Next == \E s \in Sides : Accept(s) \/ Deliver(s) \/ Reset(s)

Spec == Init /\ [][Next]_vars
=============================================================================
