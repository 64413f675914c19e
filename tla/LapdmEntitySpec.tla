--------------------------- MODULE LapdmEntitySpec --------------------------
(***************************************************************************)
(* One LAPDmEntity against an arbitrary user and an arbitrary peer: the    *)
(* user makes any public call at any time, T200 may expire whenever it is  *)
(* armed, and the radio hands over any well-formed frame in any state.     *)
(* What holds here holds for every peer, correct or not, and for every     *)
(* loss, duplication or reordering of its frames.                          *)
(***************************************************************************)
EXTENDS LapdmEntity, LapdmFrameCodec

CONSTANTS
  Addresses,             \* the <<SAPI, C/R bit>> pairs open() is called with
  PeerFrames,            \* the frames the radio may hand over
  Messages,              \* the L3 messages the user may send
  Infos,                 \* payloads of SABME and UI requests of the user
  MaxQueued              \* bound of the model: queued messages

ASSUME EnvironmentAssumption ==
  /\ Addresses \subseteq {SAPI0, SAPI3} \X BOOLEAN
  /\ PeerFrames \subseteq LAPDmFrame
  /\ Messages \subseteq Seq(Octets)
  /\ Infos \subseteq Seq(Octets)
  /\ MaxQueued \in Nat

VARIABLES
  ent,                   \* the entity
  forced                 \* history: the last call was a forced release of the
                         \* user's own, hardRelease() or open()

vars == <<ent, forced>>

Init == ent = NewEntity /\ forced = FALSE

OpenLink(a) ==
  /\ ent' = Open(Enter(ent), a[1], a[2])
  /\ forced' = TRUE

UserSendUI(sapi, data) ==
  /\ ent' = SendUI(Enter(ent), sapi, data)
  /\ forced' = FALSE

UserSendData(data) ==
  /\ CanSendData(ent, data)
  /\ Len(ent.mTxQueue) < MaxQueued
  /\ ent' = SendData(Enter(ent), data)
  /\ forced' = FALSE

UserSendSABME(info) ==
  /\ CanSendSABME(ent)
  /\ ent' = SendSABME(Enter(ent), info)
  /\ forced' = FALSE

UserSendDISC ==
  /\ CanSendDISC(ent)
  /\ ent' = SendDISC(Enter(ent))
  /\ forced' = FALSE

UserHardRelease ==
  /\ ent' = HardRelease(Enter(ent))
  /\ forced' = TRUE

TickT200 ==
  /\ CanExpireT200(ent)
  /\ ent' = ExpireT200(Enter(ent))
  /\ forced' = FALSE

Receive(f) ==
  /\ ent' = ReceiveFrame(Enter(ent), f)
  /\ forced' = FALSE

Next ==
  \/ \E a \in Addresses : OpenLink(a)
  \/ \E sapi \in {SAPI0, SAPI3}, data \in Infos : UserSendUI(sapi, data)
  \/ \E data \in Messages : UserSendData(data)
  \/ \E info \in Infos : UserSendSABME(info)
  \/ UserSendDISC
  \/ UserHardRelease
  \/ TickT200
  \/ \E f \in PeerFrames : Receive(f)

Spec == Init /\ [][Next]_vars

-----------------------------------------------------------------------------
(* Properties                                                              *)

\* Sums the entity can have computed over a received SABME payload.
Checksums == {0} \cup {ComputeChecksum(f.info) : f \in PeerFrames}

EntityType ==
  [mState : LAPDmState, mSapi : {SAPI0, SAPI3}, mCommandBit : BOOLEAN,
   mEstablishmentInProgress : BOOLEAN,
   mVS : SeqNum, mVA : SeqNum, mVR : SeqNum,
   mPending : PendingKind, mPendingNs : SeqNum, mPendingMore : BOOLEAN,
   mPendingInfo : Seq(Octets), mRC : Nat, mT200Active : BOOLEAN,
   mReassemblyBuffer : Seq(Octets), mTxQueue : Seq(Seq(Octets)),
   mContentionChecksum : Checksums,
   out : Seq(LAPDmFrame), up : Seq([prim : Primitive, data : Seq(Octets)]),
   cleared : BOOLEAN, armed : BOOLEAN]

\* Every member keeps the C++ type and range it is declared with; every frame
\* handed to L1 is a well-formed LAPDmFrame.
TypeOK == ent \in EntityType /\ forced \in BOOLEAN

Coherent(e) ==
  /\ (e.mPending = "Sabme") <=> (e.mState = "AwaitingEstablish")
  /\ (e.mPending = "Disc") <=> (e.mState = "AwaitingRelease")
  /\ e.mState \in Awaiting => e.mT200Active
  /\ e.mPending = "IFrame" =>
       e.mState \in Established /\ e.mVS = SeqInc(e.mPendingNs)

\* Whoever waits for an answer is timed and knows what to repeat: a SABME is
\* outstanding exactly while AwaitingEstablish, a DISC exactly while
\* AwaitingRelease, both with T200 running, and a stored I-frame belongs to an
\* established link and carries N(S) = V(S) - 1.  No order of calls, frames and
\* expiries leaves the entity waiting on a stopped timer or repeating a frame
\* of an earlier state (saveForRetransmission, clearCounters, handleDM).
PendingCoherent == Coherent(ent)

Clean(e) ==
  e.mState \in Down =>
    /\ e.mVS = 0 /\ e.mVA = 0 /\ e.mVR = 0 /\ e.mRC = 0
    /\ ~e.mT200Active
    /\ e.mPending = "None"
    /\ e.mTxQueue = <<>>
    /\ e.mReassemblyBuffer = <<>>

\* A released or unopened entity keeps neither counters, nor a stored frame,
\* nor queued or half reassembled messages, nor a running timer of the old
\* link, however that link ended: a later establishment starts from zero
\* (clearCounters).  The establishment window is not among what every release
\* resets: see WindowClosedUnlessConfirmed.
DownIsClean == Clean(ent)

Bounded(e) ==
  /\ e.mRC <= N200 + 1
  /\ Len(e.mReassemblyBuffer) <= MaxReassemblyBytes
  /\ \A i \in DOMAIN e.up :
       e.up[i].prim = "L3_DATA" => Len(e.up[i].data) <= MaxReassemblyBytes

\* The budgets hold whatever the peer sends: at most N200 + 1 retransmissions
\* are counted, and neither the reassembly buffer nor a message passed up
\* exceeds the maximum L3 message size.
WithinBudgets == Bounded(ent)

\* Whatever the entity sends, in any state, the peer's decode() accepts its
\* octets and gets back the very frame, so both ends mean the same thing by it
\* (encodeFrameToBuffer and LAPDmFrame::decode).  A payload of 64 octets or more
\* does not fit the six bits of the length and is excepted.
SentIsUnderstood ==
  \A i \in DOMAIN ent.out :
    LET f == ent.out[i]
    IN  Len(f.info) <= 63 =>
          Decodable(EncodeFrame(f)) /\ Decode(EncodeFrame(f)) = f

Told(prims) == {i \in DOMAIN ent'.up : ent'.up[i].prim \in prims}

\* Layer 3 learns of every change of the link exactly once: a step that brings
\* an entity down passes up one release or error primitive unless it is the
\* user's own hardRelease() or open(), and a step that establishes the link
\* passes up one establishment primitive.  A received frame or an expiry is
\* never excused, whatever state it leaves behind (abnormalRelease, handleUA,
\* handleDM, handleDISC, handleSABME).
LinkChangesAnnounced ==
  [][/\ ent.mState \notin Down /\ ent'.mState \in Down =>
          \/ forced'
          \/ \E i \in DOMAIN ent'.up :
               Told({"L3_RELEASE_CONFIRM", "L3_RELEASE_INDICATION",
                     "MDL_ERROR_INDICATION"}) = {i}
     /\ ent.mState \notin Established /\ ent'.mState \in Established =>
          \E i \in DOMAIN ent'.up :
            Told({"L3_ESTABLISH_CONFIRM", "L3_ESTABLISH_INDICATION"}) = {i}]_vars

=============================================================================
