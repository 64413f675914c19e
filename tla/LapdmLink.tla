------------------------------ MODULE LapdmLink -----------------------------
(***************************************************************************)
(* Two LAPDmEntity objects, the mobile's and the base station's, over a    *)
(* radio that keeps the order of frames and may lose any of them.  Each    *)
(* side's user establishes, sends data, disconnects or gives up; each      *)
(* side's T200 may expire before or after the answer is on its way.  The   *)
(* radio delivers or loses a frame within T200: when a timer runs out,     *)
(* whatever was on the air when it was started is gone.  On a prompt link  *)
(* T200 exceeds the round trip: the answers to those frames are gone too.  *)
(***************************************************************************)
EXTENDS LapdmEntity

CONSTANTS
  Uses,                  \* what the users of the two sides may do: the sides
                         \* that call sendSABME(), sendDISC(), hardRelease(),
                         \* the payload of the SABME, whether T200 exceeds the
                         \* round trip, and (bound of the model) the messages
                         \* each side sends
  SabmeInfos,            \* payloads of the SABME requests
  MsgLen,                \* MsgLen[i]: octets of the i-th message of a side
  ChanCap                \* bound of the model: frames on the air per direction

Sides == {"ms", "bts"}
Peer(s) == IF s = "ms" THEN "bts" ELSE "ms"

ASSUME LinkAssumption ==
  /\ Uses \subseteq [establish : SUBSET Sides, release : SUBSET Sides,
                     giveUp : SUBSET Sides, info : SabmeInfos, prompt : BOOLEAN,
                     send : [Sides -> 0 .. Len(MsgLen)]]
  /\ ChanCap \in Nat \ {0}

\* The i-th message of a side; no octet occurs in two messages.
Message(i) == [k \in 1 .. MsgLen[i] |-> 10 * i + k]

VARIABLES
  use,                   \* the use made of this link, a member of Uses
  ent,                   \* ent[s]: the entity of side s
  chan,                  \* chan[s]: frames on the air towards s
  old,                   \* old[s][d]: frames towards d, from the front of
                         \* chan[d], that were there when s started T200
  sent,                  \* sent[s]: messages the user of s handed to sendData()
  cut,                   \* cut[s]: values of sent[s] at which s cleared its counters
  got,                   \* got[s]: L3_DATA passed up at s
  base                   \* base[s]: how much of it before s last cleared

vars == <<use, ent, chan, old, sent, cut, got, base>>

Init ==
  /\ use \in Uses
  /\ ent  = [s \in Sides |-> Enter(Open(NewEntity, SAPI0, s = "bts"))]
  /\ chan = [s \in Sides |-> <<>>]
  /\ old  = [s \in Sides |-> [d \in Sides |-> 0]]
  /\ sent = [s \in Sides |-> 0]
  /\ cut  = [s \in Sides |-> {}]
  /\ got  = [s \in Sides |-> <<>>]
  /\ base = [s \in Sides |-> 0]

-----------------------------------------------------------------------------
OnAir(c) == IF Len(c) <= ChanCap THEN c ELSE SubSeq(c, 1, ChanCap)

DataIn(up) == SelectSeq(up, LAMBDA u : u.prim = "L3_DATA")

Payloads(us) == [i \in DOMAIN us |-> us[i].data]

\* The front frame towards d has left the air.
Arrived(d) == [s \in Sides |-> [old[s] EXCEPT ![d] = IF @ = 0 THEN 0 ELSE @ - 1]]

\* A call on the entity of s leaves e: its frames go on the air behind those
\* of c, its data indications to the user of s.  A timer that was started sees
\* everything now on the air; one that is off sees nothing.  If s has taken a
\* frame its peer's timer was waiting for, that timer of a prompt link waits for
\* the answer.
Takes(s, e, c, o) ==
  LET air == [c EXCEPT ![Peer(s)] = OnAir(@ \o e.out)] IN
  /\ ent'  = [ent EXCEPT ![s] = Enter(e)]
  /\ chan' = air
  /\ old'  = [o EXCEPT ![s] = [d \in Sides |-> CASE e.armed -> Len(air[d])
                                                 [] ~e.armed /\ e.mT200Active -> @[d]
                                                 [] OTHER -> 0],
                       ![Peer(s)][Peer(s)] =
                          IF use.prompt /\ o[Peer(s)][s] < old[Peer(s)][s]
                          THEN Len(air[Peer(s)]) ELSE @]
  /\ got'  = [got EXCEPT ![s] = @ \o Payloads(DataIn(e.up))]
  /\ cut'  = [cut EXCEPT ![s] = IF e.cleared THEN @ \cup {sent[s]} ELSE @]
  /\ base' = [base EXCEPT ![s] = IF e.cleared THEN Len(got'[s]) ELSE @]
  /\ UNCHANGED use

Establish(s) ==
  /\ s \in use.establish
  /\ ent[s].mState = "LinkReleased"
  /\ Takes(s, SendSABME(ent[s], use.info), chan, old)
  /\ UNCHANGED sent

Send(s) ==
  /\ sent[s] < use.send[s]
  /\ CanSendData(ent[s], Message(sent[s] + 1))
  /\ Takes(s, SendData(ent[s], Message(sent[s] + 1)), chan, old)
  /\ sent' = [sent EXCEPT ![s] = @ + 1]

Disconnect(s) ==
  /\ s \in use.release
  /\ CanSendDISC(ent[s])
  /\ Takes(s, SendDISC(ent[s]), chan, old)
  /\ UNCHANGED sent

GiveUp(s) ==
  /\ s \in use.giveUp
  /\ ent[s].mState \notin Down
  /\ Takes(s, HardRelease(ent[s]), chan, old)
  /\ UNCHANGED sent

\* An entity that left service after a protocol error is opened again.
Reopen(s) ==
  /\ ent[s].mState = "Unused"
  /\ Takes(s, Open(ent[s], SAPI0, ent[s].mCommandBit), chan, old)
  /\ UNCHANGED sent

CanTick(s) == CanExpireT200(ent[s]) /\ \A d \in Sides : old[s][d] = 0

Tick(s) ==
  /\ CanTick(s)
  /\ Takes(s, ExpireT200(ent[s]), chan, old)
  /\ UNCHANGED sent

Receive(s) ==
  /\ chan[s] # <<>>
  /\ Takes(s, ReceiveFrame(ent[s], Head(chan[s])), [chan EXCEPT ![s] = Tail(@)],
           Arrived(s))
  /\ UNCHANGED sent

Lose(s) ==
  /\ chan[s] # <<>>
  /\ chan' = [chan EXCEPT ![s] = Tail(@)]
  /\ old' = Arrived(s)
  /\ UNCHANGED <<use, ent, sent, cut, got, base>>

Next ==
  \E s \in Sides :
    \/ Establish(s) \/ Send(s) \/ Disconnect(s) \/ GiveUp(s) \/ Reopen(s)
    \/ Tick(s) \/ Receive(s) \/ Lose(s)

Spec == Init /\ [][Next]_vars

\* The event loop ticks every link and drains the radio (doc/bts_integration.md);
\* users are under no obligation.  This is weak fairness of Tick and Receive, with
\* the conditions that enable them written out.
Fairness ==
  \A s \in Sides :
    /\ ([]<>~CanTick(s)) \/ ([]<><<Tick(s)>>_vars)
    /\ ([]<>(chan[s] = <<>>)) \/ ([]<><<Receive(s)>>_vars)

FairSpec == Spec /\ Fairness

-----------------------------------------------------------------------------
(* Properties                                                              *)

\* The two entities with their counters, repeats and half-open links behave as
\* the service: whole messages, in order, once each, none left out unless the
\* sender reset its half of the link.
Service == INSTANCE LapdmService

ServiceSpec == Service!Spec


\* k = 1: what the counters of an established sender say is outstanding is the
\* one segment stored for retransmission, and it is timed.  On a link that no
\* user releases the sender is never left with V(S) # V(A), which blocks its
\* queue, and T200 stopped (processAck, trySendNextSegment).
NeverWedged ==
  use.release = {} => \A s \in Sides :
    LET e == ent[s] IN
    e.mState \in Established /\ e.mVS # e.mVA =>
      /\ e.mVS = SeqInc(e.mVA)
      /\ e.mPending = "IFrame"
      /\ e.mT200Active

\* An attempt to establish or to release always comes to an end.
AttemptsEnd ==
  \A s \in Sides : ent[s].mState \in Awaiting ~> ent[s].mState \notin Awaiting

Delivered(s, i) == \E k \in DOMAIN got[Peer(s)] : got[Peer(s)][k] = Message(i)

Accepted(s) == {i \in DOMAIN MsgLen : \E u \in Uses : i <= u.send[s]}

Unreleased == use.release = {} /\ use.giveUp = {}

\* On a link that no user releases every message sendData() accepted reaches the
\* peer, or the sender's link is reset: a sender facing a lossy or dead link
\* finds out (tickT200, processAck, trySendNextSegment).
DataArrives ==
  \A s \in Sides : \A i \in Accepted(s) :
    Unreleased /\ sent[s] >= i ~> Delivered(s, i) \/ \E c \in cut[s] : c >= i

\* What sendData() promises of every link: whatever is queued is sent as the
\* acknowledgments arrive.  So data never stays queued at an established sender
\* when nothing is left that would make it go on: its T200 runs, or a frame is on
\* the air in one direction or the other.  The code does not keep it on a link
\* that is released and established again: a late RR of the old link moves V(A)
\* of the new one (processAck takes any N(R)), with nothing outstanding T200 is
\* off, trySendNextSegment() returns at V(S) # V(A), and so it will for ever.
QueueGoesOn ==
  \A s \in Sides :
    ent[s].mState \in Established /\ ent[s].mTxQueue # <<>> =>
      \E d \in Sides : ent[d].mT200Active \/ chan[d] # <<>>
=============================================================================
