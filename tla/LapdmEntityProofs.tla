------------------------- MODULE LapdmEntityProofs --------------------------
(***************************************************************************)
(* LapdmEntitySpec keeps its type, its three safety invariants and its     *)
(* action property for every channel profile, every set of frames the      *)
(* radio may hand over and every user.                                     *)
(*                                                                         *)
(* The inductive invariant is Consistent(ent).  The first section shows    *)
(* that every operator of LapdmEntity maps entities to entities, the       *)
(* second which of them keep an entity consistent and from which states,   *)
(* the third puts the actions together, the last follows what layer 3 is   *)
(* told.                                                                   *)
(***************************************************************************)
EXTENDS LapdmEntitySpec, SequenceTheorems, TLAPS

L3Event == [prim : Primitive, data : Seq(Octets)]

-----------------------------------------------------------------------------
(* Types of the building blocks                                            *)

LEMMA SeqNumFacts ==
  /\ 0 \in SeqNum
  /\ \A n \in SeqNum : SeqInc(n) \in SeqNum
BY DEF SeqInc, SeqNum, Modulus

LEMMA NoOctets == ASSUME NEW S PROVE <<>> \in Seq(S)
OBVIOUS

\* The factories of lapdm_frame.h build frames.
LEMMA FrameTypes ==
  ASSUME NEW sapi \in {SAPI0, SAPI3}, NEW c \in BOOLEAN, NEW pf \in BOOLEAN,
         NEW nr \in SeqNum, NEW info \in Seq(Octets)
  PROVE  /\ makeUIFrame(sapi, c, info) \in LAPDmFrame
         /\ makeSABMEFrame(sapi, c, info) \in LAPDmFrame
         /\ makeUAFrame(sapi, pf, info) \in LAPDmFrame
         /\ makeDMFrame(sapi, pf) \in LAPDmFrame
         /\ makeDISCFrame(sapi, c) \in LAPDmFrame
         /\ makeRRFrame(sapi, nr, pf) \in LAPDmFrame
         /\ makeREJFrame(sapi, nr, pf) \in LAPDmFrame
<1>1. sapi \in SAPI
  BY DEF SAPI
<1>2. \A kind \in UKinds, x, y \in BOOLEAN, i \in Seq(Octets) :
        UFrame(kind, sapi, x, y, i) \in LAPDmFrame
  BY <1>1, SeqNumFacts DEF UFrame, LAPDmFrame, FrameKinds
<1>3. \A kind \in SKinds, x, y \in BOOLEAN :
        SFrame(kind, sapi, x, nr, y) \in LAPDmFrame
  BY <1>1, SeqNumFacts, NoOctets DEF SFrame, LAPDmFrame, FrameKinds
<1>4. {"UI", "SABME", "UA", "DM", "DISC"} \subseteq UKinds /\ {"RR", "REJ"} \subseteq SKinds
  BY DEF UKinds, SKinds
<1>5. <<>> \in Seq(Octets)
  BY NoOctets
<1>6. makeUIFrame(sapi, c, info) \in LAPDmFrame
  BY <1>2, <1>4 DEF makeUIFrame
<1>7. makeSABMEFrame(sapi, c, info) \in LAPDmFrame
  BY <1>2, <1>4 DEF makeSABMEFrame
<1>8. makeUAFrame(sapi, pf, info) \in LAPDmFrame
  BY <1>2, <1>4 DEF makeUAFrame
<1>9. makeDMFrame(sapi, pf) \in LAPDmFrame /\ makeDISCFrame(sapi, c) \in LAPDmFrame
  BY <1>2, <1>4, <1>5 DEF makeDMFrame, makeDISCFrame
<1>10. makeRRFrame(sapi, nr, pf) \in LAPDmFrame /\ makeREJFrame(sapi, nr, pf) \in LAPDmFrame
  BY <1>3, <1>4 DEF makeRRFrame, makeREJFrame
<1>11. QED
  BY <1>6, <1>7, <1>8, <1>9, <1>10

LEMMA IFrameType ==
  ASSUME NEW sapi \in {SAPI0, SAPI3}, NEW c \in BOOLEAN, NEW pf \in BOOLEAN,
         NEW nr \in SeqNum, NEW ns \in SeqNum, NEW more \in BOOLEAN,
         NEW info \in Seq(Octets)
  PROVE  makeIFrame(sapi, c, nr, ns, pf, more, info) \in LAPDmFrame
<1>1. sapi \in SAPI /\ "I" \in FrameKinds
  BY DEF SAPI, FrameKinds
<1>2. QED
  BY <1>1 DEF makeIFrame, LAPDmFrame

LEMMA EnterType ==
  ASSUME NEW e \in EntityType
  PROVE  Enter(e) \in EntityType
<1>1. <<>> \in Seq(LAPDmFrame) /\ <<>> \in Seq(L3Event)
  BY NoOctets
<1>2. QED
  BY <1>1 DEF Enter, EntityType, L3Event

LEMMA SendFrameType ==
  ASSUME NEW e \in EntityType, NEW f \in LAPDmFrame
  PROVE  SendFrame(e, f) \in EntityType
<1>1. Append(e.out, f) \in Seq(LAPDmFrame)
  BY DEF EntityType
<1>2. QED
  BY <1>1 DEF SendFrame, EntityType

LEMMA DeliverL3Type ==
  ASSUME NEW e \in EntityType, NEW prim \in Primitive, NEW data \in Seq(Octets)
  PROVE  DeliverL3(e, prim, data) \in EntityType
<1>1. [prim |-> prim, data |-> data] \in L3Event
  BY DEF L3Event
<1>2. e.up \in Seq(L3Event)
  BY DEF EntityType, L3Event
<1>3. Append(e.up, [prim |-> prim, data |-> data]) \in Seq(L3Event)
  BY <1>1, <1>2
<1>4. QED
  BY <1>3 DEF DeliverL3, EntityType, L3Event

LEMMA TransitionToType ==
  ASSUME NEW e \in EntityType, NEW state \in LAPDmState
  PROVE  TransitionTo(e, state) \in EntityType
BY DEF TransitionTo, EntityType

LEMMA StartT200Type ==
  ASSUME NEW e \in EntityType
  PROVE  StartT200(e) \in EntityType
BY DEF StartT200, EntityType

LEMMA ClearCountersType ==
  ASSUME NEW e \in EntityType
  PROVE  ClearCounters(e) \in EntityType
<1>1. /\ 0 \in SeqNum
      /\ <<>> \in Seq(Octets) /\ <<>> \in Seq(Seq(Octets))
      /\ "None" \in PendingKind
  BY SeqNumFacts, NoOctets DEF PendingKind
<1>2. QED
  BY <1>1 DEF ClearCounters, EntityType

-----------------------------------------------------------------------------
(* Consistency                                                             *)

\* The inductive invariant, of one entity.
Consistent(e) == e \in EntityType /\ Coherent(e) /\ Clean(e) /\ Bounded(e)

EventsFit(up) ==
  \A i \in DOMAIN up :
    up[i].prim = "L3_DATA" => Len(up[i].data) <= MaxReassemblyBytes

\* r is e but for the callbacks made.
SameLink(r, e) ==
  /\ r.mState = e.mState /\ r.mSapi = e.mSapi /\ r.mCommandBit = e.mCommandBit
  /\ r.mVS = e.mVS /\ r.mVA = e.mVA /\ r.mVR = e.mVR
  /\ r.mPending = e.mPending /\ r.mPendingNs = e.mPendingNs
  /\ r.mRC = e.mRC /\ r.mT200Active = e.mT200Active
  /\ r.mReassemblyBuffer = e.mReassemblyBuffer /\ r.mTxQueue = e.mTxQueue

\* Nothing of a link is left.
Fresh(e) ==
  /\ e.mVS = 0 /\ e.mVA = 0 /\ e.mVR = 0 /\ e.mRC = 0
  /\ ~e.mT200Active
  /\ e.mPending = "None"
  /\ e.mTxQueue = <<>>
  /\ e.mReassemblyBuffer = <<>>

LEMMA SameLinkConsistent ==
  ASSUME NEW e, Consistent(e), NEW r \in EntityType, SameLink(r, e), EventsFit(r.up)
  PROVE  Consistent(r)
<1>1. Coherent(r)
  BY DEF SameLink, Consistent, Coherent
<1>2. Clean(r)
  BY DEF SameLink, Consistent, Clean
<1>3. Bounded(r)
  BY DEF SameLink, Consistent, Bounded, EventsFit
<1>4. QED
  BY <1>1, <1>2, <1>3 DEF Consistent

LEMMA FreshConsistent ==
  ASSUME NEW e \in EntityType, Fresh(e), e.mState \notin Awaiting, EventsFit(e.up)
  PROVE  Consistent(e)
<1>1. Coherent(e)
  BY DEF Coherent, Fresh, Awaiting
<1>2. Clean(e)
  BY DEF Clean, Fresh
<1>3. Bounded(e)
  <2>1. Len(e.mReassemblyBuffer) = 0
    BY DEF Fresh
  <2>2. 0 <= N200 + 1 /\ 0 <= MaxReassemblyBytes
    BY ProfileAssumption
  <2>3. QED
    BY <2>1, <2>2 DEF Bounded, Fresh, EventsFit
<1>4. QED
  BY <1>1, <1>2, <1>3 DEF Consistent

LEMMA EnterConsistent ==
  ASSUME NEW e, Consistent(e)
  PROVE  Consistent(Enter(e)) /\ SameLink(Enter(e), e)
<1>1. e \in EntityType
  BY DEF Consistent
<1>2. Enter(e) \in EntityType
  BY <1>1, EnterType
<1>3. SameLink(Enter(e), e) /\ Enter(e).up = <<>>
  BY <1>1 DEF SameLink, Enter, EntityType
<1>4. EventsFit(Enter(e).up)
  BY <1>3 DEF EventsFit
<1>5. QED
  BY <1>2, <1>3, <1>4, SameLinkConsistent

LEMMA SendFrameConsistent ==
  ASSUME NEW e, Consistent(e), NEW f \in LAPDmFrame
  PROVE  Consistent(SendFrame(e, f)) /\ SameLink(SendFrame(e, f), e)
<1>1. e \in EntityType /\ EventsFit(e.up)
  BY DEF Consistent, Bounded, EventsFit
<1>2. SendFrame(e, f) \in EntityType
  BY <1>1, SendFrameType
<1>3. SameLink(SendFrame(e, f), e) /\ SendFrame(e, f).up = e.up
  BY <1>1 DEF SameLink, SendFrame, EntityType
<1>4. QED
  BY <1>1, <1>2, <1>3, SameLinkConsistent

LEMMA EventsFitAppend ==
  ASSUME NEW up \in Seq(L3Event), EventsFit(up), NEW prim \in Primitive,
         NEW data \in Seq(Octets),
         prim = "L3_DATA" => Len(data) <= MaxReassemblyBytes
  PROVE  EventsFit(Append(up, [prim |-> prim, data |-> data]))
<1> DEFINE x == [prim |-> prim, data |-> data]
<1> DEFINE r == Append(up, x)
<1>1. /\ Len(r) = Len(up) + 1
      /\ \A i \in 1 .. Len(up) : r[i] = up[i]
      /\ r[Len(up) + 1] = x
      /\ DOMAIN r = 1 .. Len(up) + 1
      /\ DOMAIN up = 1 .. Len(up)
      /\ Len(up) \in Nat
  OBVIOUS
<1>2. SUFFICES ASSUME NEW i \in DOMAIN r, r[i].prim = "L3_DATA"
               PROVE  Len(r[i].data) <= MaxReassemblyBytes
  BY DEF EventsFit
<1>3. CASE i \in 1 .. Len(up)
  BY <1>1, <1>2, <1>3 DEF EventsFit
<1>4. CASE i = Len(up) + 1
  BY <1>1, <1>2, <1>4
<1>5. QED
  BY <1>1, <1>3, <1>4

LEMMA DeliverL3Consistent ==
  ASSUME NEW e, Consistent(e), NEW prim \in Primitive, NEW data \in Seq(Octets),
         prim = "L3_DATA" => Len(data) <= MaxReassemblyBytes
  PROVE  Consistent(DeliverL3(e, prim, data)) /\ SameLink(DeliverL3(e, prim, data), e)
<1>1. e \in EntityType /\ EventsFit(e.up)
  BY DEF Consistent, Bounded, EventsFit
<1>2. DeliverL3(e, prim, data) \in EntityType
  BY <1>1, DeliverL3Type
<1>3. /\ SameLink(DeliverL3(e, prim, data), e)
      /\ DeliverL3(e, prim, data).up = Append(e.up, [prim |-> prim, data |-> data])
  BY <1>1 DEF SameLink, DeliverL3, EntityType
<1>4. e.up \in Seq(L3Event)
  BY <1>1 DEF EntityType, L3Event
<1>5. EventsFit(DeliverL3(e, prim, data).up)
  BY <1>1, <1>3, <1>4, EventsFitAppend
<1>6. QED
  BY <1>2, <1>3, <1>5, SameLinkConsistent

\* The fields of an entity, for the provers.
LEMMA FieldTypes ==
  ASSUME NEW e \in EntityType
  PROVE  /\ e.mState \in LAPDmState /\ e.mSapi \in {SAPI0, SAPI3}
         /\ e.mCommandBit \in BOOLEAN
         /\ e.mVS \in SeqNum /\ e.mVA \in SeqNum /\ e.mVR \in SeqNum
         /\ e.mPending \in PendingKind /\ e.mPendingNs \in SeqNum
         /\ e.mPendingMore \in BOOLEAN /\ e.mPendingInfo \in Seq(Octets)
         /\ e.mRC \in Nat /\ e.mT200Active \in BOOLEAN
         /\ e.mReassemblyBuffer \in Seq(Octets) /\ e.mTxQueue \in Seq(Seq(Octets))
BY DEF EntityType

LEMMA PeerFrameTypes ==
  ASSUME NEW f \in PeerFrames
  PROVE  /\ f \in LAPDmFrame /\ f.kind \in FrameKinds
         /\ f.pf \in BOOLEAN /\ f.command \in BOOLEAN /\ f.more \in BOOLEAN
         /\ f.nr \in SeqNum /\ f.ns \in SeqNum /\ f.info \in Seq(Octets)
         /\ ComputeChecksum(f.info) \in Checksums
<1>1. f \in LAPDmFrame
  BY EnvironmentAssumption
<1>2. ComputeChecksum(f.info) \in Checksums
  BY DEF Checksums
<1>3. QED
  BY <1>1, <1>2 DEF LAPDmFrame

\* sendUA, sendDM, sendRR, sendREJ.
LEMMA ResponsesConsistent ==
  ASSUME NEW e, Consistent(e), NEW pf \in BOOLEAN, NEW info \in Seq(Octets)
  PROVE  /\ Consistent(SendUA(e, pf, info)) /\ SameLink(SendUA(e, pf, info), e)
         /\ Consistent(SendDM(e, pf)) /\ SameLink(SendDM(e, pf), e)
         /\ Consistent(SendRR(e, pf)) /\ SameLink(SendRR(e, pf), e)
         /\ Consistent(SendREJ(e, pf)) /\ SameLink(SendREJ(e, pf), e)
<1>1. e \in EntityType
  BY DEF Consistent
<1>2. /\ makeUAFrame(e.mSapi, pf, info) \in LAPDmFrame
      /\ makeDMFrame(e.mSapi, pf) \in LAPDmFrame
      /\ makeRRFrame(e.mSapi, e.mVR, pf) \in LAPDmFrame
      /\ makeREJFrame(e.mSapi, e.mVR, pf) \in LAPDmFrame
  BY <1>1, FieldTypes, FrameTypes
<1>3. QED
  BY <1>2, SendFrameConsistent DEF SendUA, SendDM, SendRR, SendREJ

LEMMA RetransmitConsistent ==
  ASSUME NEW e, Consistent(e)
  PROVE  Consistent(RetransmitPending(e)) /\ SameLink(RetransmitPending(e), e)
<1>1. e \in EntityType
  BY DEF Consistent
<1>2. SameLink(e, e)
  BY DEF SameLink
<1>3. CASE e.mPending = "IFrame"
  <2>1. makeIFrame(e.mSapi, e.mCommandBit, e.mVR, e.mPendingNs, TRUE,
                   e.mPendingMore, e.mPendingInfo) \in LAPDmFrame
    BY <1>1, FieldTypes, IFrameType
  <2>2. QED
    BY <1>3, <2>1, SendFrameConsistent DEF RetransmitPending
<1>4. CASE e.mPending = "Sabme"
  <2>1. makeSABMEFrame(e.mSapi, e.mCommandBit, e.mPendingInfo) \in LAPDmFrame
    BY <1>1, FieldTypes, FrameTypes
  <2>2. QED
    BY <1>4, <2>1, SendFrameConsistent DEF RetransmitPending
<1>5. CASE e.mPending = "Disc"
  <2>1. makeDISCFrame(e.mSapi, e.mCommandBit) \in LAPDmFrame
    BY <1>1, FieldTypes, FrameTypes
  <2>2. QED
    BY <1>5, <2>1, SendFrameConsistent DEF RetransmitPending
<1>6. CASE e.mPending \notin {"IFrame", "Sabme", "Disc"}
  BY <1>2, <1>6 DEF RetransmitPending
<1>7. QED
  BY <1>3, <1>4, <1>5, <1>6

\* The establishment window may be closed at any time.
CloseWindow(e) == [e EXCEPT !.mEstablishmentInProgress = FALSE]

LEMMA CloseWindowConsistent ==
  ASSUME NEW e, Consistent(e)
  PROVE  Consistent(CloseWindow(e)) /\ SameLink(CloseWindow(e), e)
<1>1. e \in EntityType /\ EventsFit(e.up)
  BY DEF Consistent, Bounded, EventsFit
<1>2. CloseWindow(e) \in EntityType
  BY <1>1 DEF CloseWindow, EntityType
<1>3. SameLink(CloseWindow(e), e) /\ CloseWindow(e).up = e.up
  BY <1>1 DEF SameLink, CloseWindow, EntityType
<1>4. QED
  BY <1>1, <1>2, <1>3, SameLinkConsistent

\* A cleared entity may be put into any state that waits for nothing, with the
\* window flag and the checksum of a new establishment.
LEMMA ClearedFresh ==
  ASSUME NEW e \in EntityType
  PROVE  /\ Fresh(ClearCounters(e))
         /\ ClearCounters(e).up = e.up
         /\ ClearCounters(e).mState = e.mState
BY DEF Fresh, ClearCounters, EntityType

LEMMA TransitionFresh ==
  ASSUME NEW e \in EntityType, Fresh(e), EventsFit(e.up),
         NEW state \in LAPDmState, state \notin Awaiting
  PROVE  Consistent(TransitionTo(e, state)) /\ Fresh(TransitionTo(e, state))
<1>1. TransitionTo(e, state) \in EntityType
  BY TransitionToType
<1>2. /\ Fresh(TransitionTo(e, state)) /\ TransitionTo(e, state).up = e.up
      /\ TransitionTo(e, state).mState = state
  BY DEF TransitionTo, Fresh, EntityType
<1>3. QED
  BY <1>1, <1>2, FreshConsistent

LEMMA EndsConsistent ==
  ASSUME NEW e, Consistent(e), NEW state \in LAPDmState, state \notin Awaiting,
         NEW prim \in Primitive, prim # "L3_DATA"
  PROVE  Consistent(Ends(e, state, prim))
<1>1. e \in EntityType /\ EventsFit(e.up)
  BY DEF Consistent, Bounded, EventsFit
<1>2. Consistent(TransitionTo(ClearCounters(e), state))
  BY <1>1, ClearCountersType, ClearedFresh, TransitionFresh
<1>3. <<>> \in Seq(Octets)
  BY NoOctets
<1>4. QED
  BY <1>2, <1>3, DeliverL3Consistent DEF Ends

LEMMA AbnormalReleaseConsistent ==
  ASSUME NEW e \in EntityType, EventsFit(e.up), NEW sendDM \in BOOLEAN
  PROVE  Consistent(AbnormalRelease(e, sendDM))
<1> DEFINE told    == IF sendDM THEN SendDM(e, TRUE) ELSE e
           cleared == [ClearCounters(told) EXCEPT !.mEstablishmentInProgress = FALSE]
           state   == IF sendDM THEN "Unused" ELSE "LinkReleased"
<1>1. SendDM(e, TRUE) \in EntityType /\ SendDM(e, TRUE).up = e.up
  <2>1. makeDMFrame(e.mSapi, TRUE) \in LAPDmFrame
    BY FieldTypes, FrameTypes, SeqNumFacts, NoOctets
  <2>2. SendDM(e, TRUE) \in EntityType
    BY <2>1, SendFrameType DEF SendDM
  <2>3. SendDM(e, TRUE).up = e.up
    BY DEF SendDM, SendFrame, EntityType
  <2>4. QED
    BY <2>2, <2>3
<1>2. told \in EntityType /\ EventsFit(told.up)
  <2>1. CASE sendDM
    BY <1>1, <2>1
  <2>2. CASE ~sendDM
    BY <2>2
  <2>3. QED
    BY <2>1, <2>2
<1> HIDE DEF told
<1>3. /\ ClearCounters(told) \in EntityType /\ Fresh(ClearCounters(told))
      /\ EventsFit(ClearCounters(told).up)
  BY <1>2, ClearCountersType, ClearedFresh
<1>4. cleared \in EntityType /\ Fresh(cleared) /\ EventsFit(cleared.up)
  BY <1>3 DEF EntityType, Fresh
<1> HIDE DEF cleared
<1>5. state \in LAPDmState /\ state \notin Awaiting
  BY DEF LAPDmState, Awaiting
<1>6. Consistent(TransitionTo(cleared, state))
  BY <1>4, <1>5, TransitionFresh
<1>7. "MDL_ERROR_INDICATION" \in Primitive /\ <<>> \in Seq(Octets)
  BY NoOctets DEF Primitive
<1>8. Consistent(DeliverL3(TransitionTo(cleared, state), "MDL_ERROR_INDICATION", <<>>))
  BY <1>6, <1>7, DeliverL3Consistent
<1>9. QED
  BY <1>8 DEF AbnormalRelease, told, cleared

-----------------------------------------------------------------------------
(* Sending data                                                            *)

\* saveForRetransmission() on an entity that goes on in, or moves to, a state
\* in which kind is the frame that may be outstanding.
LEMMA SaveFields ==
  ASSUME NEW e \in EntityType, NEW kind \in PendingKind, NEW f \in LAPDmFrame
  PROVE  LET r == SaveForRetransmission(e, kind, f) IN
         /\ r \in EntityType
         /\ r.mPending = kind /\ r.mRC = 0 /\ r.mT200Active
         /\ r.mState = e.mState /\ r.mVS = e.mVS /\ r.mVR = e.mVR
         /\ r.mPendingNs = e.mPendingNs /\ r.mTxQueue = e.mTxQueue
         /\ r.mReassemblyBuffer = e.mReassemblyBuffer /\ r.up = e.up
<1> DEFINE m == [e EXCEPT !.mPending = kind, !.mRC = 0]
<1>1. m \in EntityType
  BY DEF EntityType
<1>2. /\ m.mPending = kind /\ m.mRC = 0
      /\ m.mState = e.mState /\ m.mVS = e.mVS /\ m.mVR = e.mVR
      /\ m.mPendingNs = e.mPendingNs /\ m.mTxQueue = e.mTxQueue
      /\ m.mReassemblyBuffer = e.mReassemblyBuffer /\ m.up = e.up
  BY DEF EntityType
<1> HIDE DEF m
<1> DEFINE s == SendFrame(m, f)
<1>3. s \in EntityType
  BY <1>1, SendFrameType
<1>4. /\ s.mPending = m.mPending /\ s.mRC = m.mRC
      /\ s.mState = m.mState /\ s.mVS = m.mVS /\ s.mVR = m.mVR
      /\ s.mPendingNs = m.mPendingNs /\ s.mTxQueue = m.mTxQueue
      /\ s.mReassemblyBuffer = m.mReassemblyBuffer /\ s.up = m.up
  BY <1>1 DEF SendFrame, EntityType
<1> HIDE DEF s
<1> DEFINE r == StartT200(s)
<1>5. r \in EntityType
  BY <1>3, StartT200Type
<1>6. /\ r.mPending = s.mPending /\ r.mRC = s.mRC /\ r.mT200Active
      /\ r.mState = s.mState /\ r.mVS = s.mVS /\ r.mVR = s.mVR
      /\ r.mPendingNs = s.mPendingNs /\ r.mTxQueue = s.mTxQueue
      /\ r.mReassemblyBuffer = s.mReassemblyBuffer /\ r.up = s.up
  BY <1>3 DEF StartT200, EntityType
<1>7. r = SaveForRetransmission(e, kind, f)
  BY DEF SaveForRetransmission, m, s
<1> HIDE DEF r
<1>8. QED
  BY <1>2, <1>4, <1>5, <1>6, <1>7

LEMMA BuildIFrameConsistent ==
  ASSUME NEW e, Consistent(e), e.mState \in Established,
         NEW payload \in Seq(Octets), NEW more \in BOOLEAN
  PROVE  LET r == BuildIFrame(e, payload, more) IN
         /\ Consistent(r)
         /\ r.mState = e.mState /\ r.mVR = e.mVR
         /\ r.mReassemblyBuffer = e.mReassemblyBuffer
<1> DEFINE m == [e EXCEPT !.mVS = SeqInc(@), !.mPendingNs = e.mVS,
                          !.mPendingMore = more, !.mPendingInfo = payload]
           f == makeIFrame(e.mSapi, e.mCommandBit, e.mVR, e.mVS, FALSE, more, payload)
           r == SaveForRetransmission(m, "IFrame", f)
<1>1. e \in EntityType /\ EventsFit(e.up) /\ Len(e.mReassemblyBuffer) <= MaxReassemblyBytes
  BY DEF Consistent, Bounded, EventsFit
<1>2. e.mVS \in SeqNum /\ SeqInc(e.mVS) \in SeqNum
  BY <1>1, FieldTypes, SeqNumFacts
<1>3. m \in EntityType
  BY <1>1, <1>2 DEF EntityType
<1>4. /\ m.mState = e.mState /\ m.mVR = e.mVR /\ m.mVS = SeqInc(m.mPendingNs)
      /\ m.mReassemblyBuffer = e.mReassemblyBuffer /\ m.up = e.up
  BY <1>1, <1>2 DEF EntityType
<1>5. f \in LAPDmFrame
  BY <1>1, FieldTypes, IFrameType
<1>6. "IFrame" \in PendingKind
  BY DEF PendingKind
<1> HIDE DEF m, f
<1>7. /\ r \in EntityType
      /\ r.mPending = "IFrame" /\ r.mRC = 0 /\ r.mT200Active
      /\ r.mState = m.mState /\ r.mVS = m.mVS /\ r.mVR = m.mVR
      /\ r.mPendingNs = m.mPendingNs
      /\ r.mReassemblyBuffer = m.mReassemblyBuffer /\ r.up = m.up
  BY <1>3, <1>5, <1>6, SaveFields
<1>8. r = BuildIFrame(e, payload, more)
  BY DEF BuildIFrame, m, f
<1> HIDE DEF r
<1>9. Coherent(r)
  BY <1>4, <1>7 DEF Coherent, Established, Awaiting
<1>10. Clean(r)
  BY <1>4, <1>7 DEF Clean, Established, Down
<1>11. 0 <= N200 + 1
  BY ProfileAssumption
<1>12. Bounded(r)
  BY <1>1, <1>4, <1>7, <1>11 DEF Bounded, EventsFit
<1>13. QED
  BY <1>4, <1>7, <1>8, <1>9, <1>10, <1>12 DEF Consistent

\* A queue change on an established link disturbs nothing.
LEMMA QueueConsistent ==
  ASSUME NEW e, Consistent(e), e.mState \in Established, NEW q \in Seq(Seq(Octets))
  PROVE  LET r == [e EXCEPT !.mTxQueue = q] IN
         /\ Consistent(r)
         /\ r.mState = e.mState /\ r.mVR = e.mVR
         /\ r.mReassemblyBuffer = e.mReassemblyBuffer
<1> DEFINE r == [e EXCEPT !.mTxQueue = q]
<1>1. e \in EntityType
  BY DEF Consistent
<1>2. r \in EntityType
  BY <1>1 DEF EntityType
<1>3. /\ r.mState = e.mState /\ r.mVR = e.mVR /\ r.mVS = e.mVS
      /\ r.mPending = e.mPending /\ r.mPendingNs = e.mPendingNs
      /\ r.mRC = e.mRC /\ r.mT200Active = e.mT200Active
      /\ r.mReassemblyBuffer = e.mReassemblyBuffer /\ r.up = e.up
  BY <1>1 DEF EntityType
<1> HIDE DEF r
<1>4. Coherent(r)
  BY <1>3 DEF Consistent, Coherent
<1>5. Clean(r)
  BY <1>3 DEF Clean, Established, Down
<1>6. Bounded(r)
  BY <1>3 DEF Consistent, Bounded
<1>7. Consistent(r)
  BY <1>2, <1>4, <1>5, <1>6 DEF Consistent
<1>8. QED
  BY <1>3, <1>7 DEF r

LEMMA TrySendNextSegmentConsistent ==
  ASSUME NEW e, Consistent(e), e.mState \in Established
  PROVE  LET r == TrySendNextSegment(e) IN
         /\ Consistent(r)
         /\ r.mState = e.mState /\ r.mVR = e.mVR
         /\ r.mReassemblyBuffer = e.mReassemblyBuffer
<1>1. CASE e.mVS # e.mVA \/ e.mTxQueue = <<>>
  BY <1>1 DEF TrySendNextSegment
<1>2. CASE e.mVS = e.mVA /\ e.mTxQueue # <<>>
  <2> DEFINE q   == e.mTxQueue
             msg == Head(q)
             more == Len(msg) > N201
             part == SubSeq(msg, 1, N201)
             rest == SubSeq(msg, N201 + 1, Len(msg))
             cutq == [q EXCEPT ![1] = rest]
  <2>1. e \in EntityType
    BY DEF Consistent
  <2>2. q \in Seq(Seq(Octets)) /\ q # <<>>
    BY <1>2, <2>1, FieldTypes
  <2>3. msg \in Seq(Octets) /\ Tail(q) \in Seq(Seq(Octets))
    BY <2>2
  <2>4. CASE more
    <3>1. N201 \in Nat /\ Len(msg) \in Nat /\ N201 < Len(msg) /\ 1 <= N201
      BY <2>3, <2>4, ProfileAssumption
    <3>2. rest \in Seq(Octets) /\ part \in Seq(Octets)
      <4>1. \A i \in 1 .. Len(msg) : msg[i] \in Octets
        BY <2>3
      <4>2. QED
        BY <2>3, <3>1, <4>1, SubSeqProperties
    <3>3. cutq \in Seq(Seq(Octets))
      <4>1. 1 \in 1 .. Len(q)
        BY <2>2
      <4>2. QED
        BY <2>2, <3>2, <4>1, ExceptSeq
    <3>4. [e EXCEPT !.mTxQueue[1] = rest] = [e EXCEPT !.mTxQueue = cutq]
      BY Zenon
    <3> DEFINE m == [e EXCEPT !.mTxQueue = cutq]
    <3>5. /\ Consistent(m) /\ m.mState = e.mState /\ m.mVR = e.mVR
          /\ m.mReassemblyBuffer = e.mReassemblyBuffer
      BY <3>3, QueueConsistent
    <3>6. TrySendNextSegment(e) = BuildIFrame(m, part, TRUE)
      BY <1>2, <2>4, <3>4 DEF TrySendNextSegment
    <3> HIDE DEF m, cutq, rest, part, msg
    <3>7. \A b \in BOOLEAN :
            LET r == BuildIFrame(m, part, b) IN
            /\ Consistent(r)
            /\ r.mState = m.mState /\ r.mVR = m.mVR
            /\ r.mReassemblyBuffer = m.mReassemblyBuffer
      BY <3>2, <3>5, BuildIFrameConsistent
    <3>8. QED
      BY <3>5, <3>6, <3>7, Zenon
  <2>5. CASE ~more
    <3> DEFINE m == [e EXCEPT !.mTxQueue = Tail(q)]
    <3>1. /\ Consistent(m) /\ m.mState = e.mState /\ m.mVR = e.mVR
          /\ m.mReassemblyBuffer = e.mReassemblyBuffer
      BY <2>3, QueueConsistent
    <3>2. TrySendNextSegment(e) = BuildIFrame(m, msg, FALSE)
      BY <1>2, <2>5 DEF TrySendNextSegment
    <3> HIDE DEF m, msg
    <3>3. QED
      BY <2>3, <3>1, <3>2, BuildIFrameConsistent
  <2>6. QED
    BY <2>4, <2>5
<1>3. QED
  BY <1>1, <1>2

LEMMA ProcessAckConsistent ==
  ASSUME NEW e, Consistent(e), e.mState \in Established, NEW nr \in SeqNum
  PROVE  LET r == ProcessAck(e, nr) IN
         /\ Consistent(r)
         /\ r.mState = e.mState /\ r.mVR = e.mVR
         /\ r.mReassemblyBuffer = e.mReassemblyBuffer
<1> DEFINE a == [e EXCEPT !.mVA = nr]
           b == [a EXCEPT !.mRC = 0, !.mT200Active = FALSE]
<1>1. e \in EntityType
  BY DEF Consistent
<1>2. a \in EntityType /\ b \in EntityType
  BY <1>1 DEF EntityType
<1>3. /\ a.mState = e.mState /\ a.mVR = e.mVR /\ a.mVS = e.mVS
      /\ a.mPending = e.mPending /\ a.mPendingNs = e.mPendingNs
      /\ a.mRC = e.mRC /\ a.mT200Active = e.mT200Active
      /\ a.mReassemblyBuffer = e.mReassemblyBuffer /\ a.up = e.up
  BY <1>1 DEF EntityType
<1>4. /\ b.mState = e.mState /\ b.mVR = e.mVR /\ b.mVS = e.mVS
      /\ b.mPending = e.mPending /\ b.mPendingNs = e.mPendingNs /\ b.mRC = 0
      /\ b.mReassemblyBuffer = e.mReassemblyBuffer /\ b.up = e.up
  BY <1>1 DEF EntityType
<1>5. ProcessAck(e, nr) = IF nr = e.mVS THEN TrySendNextSegment(b) ELSE a
  BY DEF ProcessAck
<1> HIDE DEF a, b
<1>6. Consistent(a)
  <2>1. Coherent(a)
    BY <1>3 DEF Consistent, Coherent
  <2>2. Clean(a)
    BY <1>3 DEF Clean, Established, Down
  <2>3. Bounded(a)
    BY <1>3 DEF Consistent, Bounded
  <2>4. QED
    BY <1>2, <2>1, <2>2, <2>3 DEF Consistent
<1>7. Consistent(b)
  <2>1. Coherent(b)
    BY <1>4 DEF Consistent, Coherent, Established, Awaiting
  <2>2. Clean(b)
    BY <1>4 DEF Clean, Established, Down
  <2>3. 0 <= N200 + 1
    BY ProfileAssumption
  <2>4. Bounded(b)
    BY <1>4, <2>3 DEF Consistent, Bounded
  <2>5. QED
    BY <1>2, <2>1, <2>2, <2>4 DEF Consistent
<1>8. QED
  BY <1>3, <1>4, <1>5, <1>6, <1>7, TrySendNextSegmentConsistent

-----------------------------------------------------------------------------
(* The public operations                                                   *)

LEMMA StartT200Consistent ==
  ASSUME NEW e, Consistent(e), e.mState \notin Down
  PROVE  Consistent(StartT200(e)) /\ StartT200(e).mState = e.mState
<1> DEFINE r == StartT200(e)
<1>1. e \in EntityType
  BY DEF Consistent
<1>2. r \in EntityType
  BY <1>1, StartT200Type
<1>3. /\ r.mState = e.mState /\ r.mVS = e.mVS /\ r.mT200Active
      /\ r.mPending = e.mPending /\ r.mPendingNs = e.mPendingNs /\ r.mRC = e.mRC
      /\ r.mReassemblyBuffer = e.mReassemblyBuffer /\ r.up = e.up
  BY <1>1 DEF StartT200, EntityType
<1> HIDE DEF r
<1>4. Coherent(r)
  BY <1>3 DEF Consistent, Coherent
<1>5. Clean(r)
  BY <1>3 DEF Clean
<1>6. Bounded(r)
  BY <1>3 DEF Consistent, Bounded
<1>7. QED
  BY <1>2, <1>3, <1>4, <1>5, <1>6 DEF Consistent, r

\* An entity that sends SABME or DISC and waits for the answer.
LEMMA AwaitConsistent ==
  ASSUME NEW e \in EntityType, EventsFit(e.up),
         Len(e.mReassemblyBuffer) <= MaxReassemblyBytes,
         NEW f \in LAPDmFrame, NEW kind, NEW state,
         \/ kind = "Sabme" /\ state = "AwaitingEstablish"
         \/ kind = "Disc" /\ state = "AwaitingRelease"
  PROVE  Consistent(TransitionTo(SaveForRetransmission(e, kind, f), state))
<1> DEFINE m == SaveForRetransmission(e, kind, f)
           r == TransitionTo(m, state)
<1>1. kind \in PendingKind /\ state \in LAPDmState
  BY DEF PendingKind, LAPDmState
<1>2. /\ m \in EntityType
      /\ m.mPending = kind /\ m.mRC = 0 /\ m.mT200Active
      /\ m.mReassemblyBuffer = e.mReassemblyBuffer /\ m.up = e.up
  BY <1>1, SaveFields
<1> HIDE DEF m
<1>3. r \in EntityType
  BY <1>1, <1>2, TransitionToType
<1>4. /\ r.mState = state /\ r.mPending = kind /\ r.mRC = 0 /\ r.mT200Active
      /\ r.mReassemblyBuffer = e.mReassemblyBuffer /\ r.up = e.up
  BY <1>2 DEF TransitionTo, EntityType
<1> HIDE DEF r
<1>5. Coherent(r)
  BY <1>4 DEF Coherent
<1>6. Clean(r)
  BY <1>4 DEF Clean, Down
<1>7. 0 <= N200 + 1
  BY ProfileAssumption
<1>8. Bounded(r)
  BY <1>4, <1>7 DEF Bounded, EventsFit
<1>9. QED
  BY <1>3, <1>5, <1>6, <1>8 DEF Consistent, r, m

LEMMA OpenConsistent ==
  ASSUME NEW e, Consistent(e), NEW sapi \in {SAPI0, SAPI3}, NEW c \in BOOLEAN
  PROVE  Consistent(Open(e, sapi, c))
<1> DEFINE k == ClearCounters(e)
           m == [k EXCEPT !.mSapi = sapi, !.mCommandBit = c]
<1>1. e \in EntityType /\ EventsFit(e.up)
  BY DEF Consistent, Bounded, EventsFit
<1>2. k \in EntityType /\ Fresh(k) /\ EventsFit(k.up)
  BY <1>1, ClearCountersType, ClearedFresh
<1> HIDE DEF k
<1>3. m \in EntityType /\ Fresh(m) /\ EventsFit(m.up)
  BY <1>2 DEF EntityType, Fresh
<1>4. "LinkReleased" \in LAPDmState /\ "LinkReleased" \notin Awaiting
  BY DEF LAPDmState, Awaiting
<1> HIDE DEF m
<1>5. QED
  BY <1>3, <1>4, TransitionFresh DEF Open, m, k

LEMMA HardReleaseConsistent ==
  ASSUME NEW e, Consistent(e)
  PROVE  Consistent(HardRelease(e))
<1> DEFINE k == ClearCounters(e)
           m == [k EXCEPT !.mEstablishmentInProgress = FALSE]
<1>1. e \in EntityType /\ EventsFit(e.up)
  BY DEF Consistent, Bounded, EventsFit
<1>2. k \in EntityType /\ Fresh(k) /\ EventsFit(k.up)
  BY <1>1, ClearCountersType, ClearedFresh
<1> HIDE DEF k
<1>3. m \in EntityType /\ Fresh(m) /\ EventsFit(m.up)
  BY <1>2 DEF EntityType, Fresh
<1>4. "LinkReleased" \in LAPDmState /\ "LinkReleased" \notin Awaiting
  BY DEF LAPDmState, Awaiting
<1> HIDE DEF m
<1>5. QED
  BY <1>3, <1>4, TransitionFresh DEF HardRelease, m, k

LEMMA SendUIConsistent ==
  ASSUME NEW e, Consistent(e), NEW sapi \in {SAPI0, SAPI3}, NEW data \in Seq(Octets)
  PROVE  Consistent(SendUI(e, sapi, data))
<1>1. e \in EntityType
  BY DEF Consistent
<1>2. makeUIFrame(sapi, e.mCommandBit, data) \in LAPDmFrame
  BY <1>1, FieldTypes, FrameTypes
<1>3. QED
  BY <1>2, SendFrameConsistent DEF SendUI

LEMMA SendDataConsistent ==
  ASSUME NEW e, Consistent(e), NEW data \in Seq(Octets), CanSendData(e, data)
  PROVE  Consistent(SendData(e, data))
<1> DEFINE q == Append(e.mTxQueue, data)
           m == [e EXCEPT !.mTxQueue = q]
<1>1. e \in EntityType /\ e.mState \in Established
  BY DEF Consistent, CanSendData
<1>2. q \in Seq(Seq(Octets))
  BY <1>1, FieldTypes
<1> HIDE DEF q
<1>3. Consistent(m) /\ m.mState = e.mState
  BY <1>1, <1>2, QueueConsistent
<1> HIDE DEF m
<1>4. Consistent(TrySendNextSegment(m))
  BY <1>1, <1>3, TrySendNextSegmentConsistent
<1>5. QED
  BY <1>4 DEF SendData, m, q

LEMMA SendSABMEConsistent ==
  ASSUME NEW e, Consistent(e), NEW info \in Seq(Octets), CanSendSABME(e)
  PROVE  Consistent(SendSABME(e, info))
<1>1. e \in EntityType /\ EventsFit(e.up) /\ Len(e.mReassemblyBuffer) <= MaxReassemblyBytes
  BY DEF Consistent, Bounded, EventsFit
<1>2. CASE e.mState \in Established
  <2>1. "L3_ESTABLISH_CONFIRM" \in Primitive /\ <<>> \in Seq(Octets)
    BY NoOctets DEF Primitive
  <2>2. Consistent(DeliverL3(e, "L3_ESTABLISH_CONFIRM", <<>>))
    BY <2>1, DeliverL3Consistent
  <2>3. QED
    BY <1>2, <2>2 DEF SendSABME
<1>3. CASE e.mState \notin Established
  <2> DEFINE m == [e EXCEPT !.mPendingInfo = info]
             f == makeSABMEFrame(e.mSapi, e.mCommandBit, info)
  <2>1. /\ m \in EntityType /\ m.up = e.up
        /\ m.mReassemblyBuffer = e.mReassemblyBuffer
    BY <1>1 DEF EntityType
  <2>2. f \in LAPDmFrame
    BY <1>1, FieldTypes, FrameTypes
  <2> HIDE DEF m, f
  <2>3. Consistent(TransitionTo(SaveForRetransmission(m, "Sabme", f), "AwaitingEstablish"))
    BY <1>1, <2>1, <2>2, AwaitConsistent
  <2>4. QED
    BY <1>3, <2>3 DEF SendSABME, m, f
<1>4. QED
  BY <1>2, <1>3

LEMMA SendDISCConsistent ==
  ASSUME NEW e, Consistent(e)
  PROVE  Consistent(SendDISC(e))
<1>1. e \in EntityType /\ EventsFit(e.up) /\ Len(e.mReassemblyBuffer) <= MaxReassemblyBytes
  BY DEF Consistent, Bounded, EventsFit
<1>2. makeDISCFrame(e.mSapi, e.mCommandBit) \in LAPDmFrame
  BY <1>1, FieldTypes, FrameTypes
<1>3. QED
  BY <1>1, <1>2, AwaitConsistent DEF SendDISC

LEMMA ExpireT200Consistent ==
  ASSUME NEW e, Consistent(e), CanExpireT200(e)
  PROVE  Consistent(ExpireT200(e))
<1>1. e \in EntityType /\ EventsFit(e.up)
  BY DEF Consistent, Bounded, EventsFit
<1>2. e.mState \notin Down
  BY DEF Consistent, Clean, CanExpireT200
<1>3. CASE e.mRC <= N200
  <2> DEFINE m == RetransmitPending(e)
             r == [m EXCEPT !.mRC = @ + 1]
  <2>1. Consistent(m) /\ SameLink(m, e)
    BY RetransmitConsistent
  <2> HIDE DEF m
  <2>2. m \in EntityType /\ m.mRC \in Nat /\ m.mRC <= N200 /\ N200 \in Nat
    BY <1>3, <2>1, FieldTypes, ProfileAssumption DEF Consistent, SameLink
  <2>3. m.mRC + 1 \in Nat /\ m.mRC + 1 <= N200 + 1
    BY <2>2
  <2>4. /\ r \in EntityType /\ r.mRC = m.mRC + 1
        /\ r.mState = m.mState /\ r.mVS = m.mVS /\ r.mT200Active = m.mT200Active
        /\ r.mPending = m.mPending /\ r.mPendingNs = m.mPendingNs
        /\ r.mReassemblyBuffer = m.mReassemblyBuffer /\ r.up = m.up
    BY <2>2, <2>3 DEF EntityType
  <2> HIDE DEF r
  <2>5. r.mState \notin Down
    BY <1>2, <2>1, <2>4 DEF SameLink
  <2>6. Coherent(r)
    BY <2>1, <2>4 DEF Consistent, Coherent
  <2>7. Clean(r)
    BY <2>5 DEF Clean
  <2>8. Bounded(r)
    BY <2>1, <2>3, <2>4 DEF Consistent, Bounded
  <2>9. Consistent(StartT200(r))
    BY <2>4, <2>5, <2>6, <2>7, <2>8, StartT200Consistent DEF Consistent
  <2>10. QED
    BY <1>3, <2>9 DEF ExpireT200, m, r
<1>4. CASE ~(e.mRC <= N200)
  <2> DEFINE m == [e EXCEPT !.mT200Active = FALSE]
  <2>1. m \in EntityType /\ m.up = e.up
    BY <1>1 DEF EntityType
  <2> HIDE DEF m
  <2>2. \A b \in BOOLEAN : Consistent(AbnormalRelease(m, b))
    BY <1>1, <2>1, AbnormalReleaseConsistent
  <2>3. ExpireT200(e) = AbnormalRelease(m, FALSE)
    BY <1>4 DEF ExpireT200, m
  <2>4. QED
    BY <2>2, <2>3, Zenon
<1>5. QED
  BY <1>3, <1>4

-----------------------------------------------------------------------------
(* The frame handlers                                                      *)

LEMMA PrimitiveFacts ==
  /\ "L3_ESTABLISH_INDICATION" \in Primitive /\ "L3_ESTABLISH_CONFIRM" \in Primitive
  /\ "L3_RELEASE_CONFIRM" \in Primitive /\ "L3_RELEASE_INDICATION" \in Primitive
  /\ "L3_UNIT_DATA" \in Primitive /\ "L3_DATA" \in Primitive
BY DEF Primitive

LEMMA StateFacts ==
  /\ Established \subseteq LAPDmState /\ "LinkEstablished" \in Established
  /\ "ContentionResolution" \in Established /\ "LinkReleased" \in LAPDmState
  /\ "LinkReleased" \notin Awaiting /\ Established \cap Awaiting = {}
  /\ Established \cap Down = {}
BY DEF Established, LAPDmState, Awaiting, Down

\* Moving between the two established states disturbs nothing.
LEMMA StayEstablished ==
  ASSUME NEW e, Consistent(e), e.mState \in Established, NEW state \in Established
  PROVE  LET r == TransitionTo(e, state) IN
         /\ Consistent(r)
         /\ r.mState = state /\ r.mVR = e.mVR
         /\ r.mReassemblyBuffer = e.mReassemblyBuffer
<1> DEFINE r == TransitionTo(e, state)
<1>1. e \in EntityType
  BY DEF Consistent
<1>2. r \in EntityType
  BY <1>1, StateFacts, TransitionToType
<1>3. /\ r.mState = state /\ r.mVR = e.mVR /\ r.mVS = e.mVS
      /\ r.mPending = e.mPending /\ r.mPendingNs = e.mPendingNs
      /\ r.mRC = e.mRC /\ r.mT200Active = e.mT200Active
      /\ r.mReassemblyBuffer = e.mReassemblyBuffer /\ r.up = e.up
  BY <1>1 DEF TransitionTo, EntityType
<1> HIDE DEF r
<1>4. Coherent(r)
  BY <1>3 DEF Consistent, Coherent, Established, Awaiting
<1>5. Clean(r)
  BY <1>3 DEF Clean, Established, Down
<1>6. Bounded(r)
  BY <1>3 DEF Consistent, Bounded
<1>7. QED
  BY <1>2, <1>3, <1>4, <1>5, <1>6 DEF Consistent, r

LEMMA AcceptSABMEConsistent ==
  ASSUME NEW e, Consistent(e), NEW f \in PeerFrames
  PROVE  Consistent(AcceptSABME(e, f))
<1> DEFINE k == ClearCounters(e)
           w == [k EXCEPT !.mEstablishmentInProgress = TRUE]
           told == DeliverL3(w, "L3_ESTABLISH_INDICATION", f.info)
           answered == SendUA(told, f.pf, f.info)
           marked == [answered EXCEPT !.mContentionChecksum = ComputeChecksum(f.info)]
<1>1. e \in EntityType /\ EventsFit(e.up)
  BY DEF Consistent, Bounded, EventsFit
<1>2. k \in EntityType /\ Fresh(k) /\ EventsFit(k.up)
  BY <1>1, ClearCountersType, ClearedFresh
<1> HIDE DEF k
<1>3. w \in EntityType /\ Fresh(w) /\ w.up = k.up
  BY <1>2 DEF EntityType, Fresh
<1> HIDE DEF w
<1>4. /\ told \in EntityType /\ Fresh(told) /\ EventsFit(told.up)
  <2> DEFINE x == [prim |-> "L3_ESTABLISH_INDICATION", data |-> f.info]
  <2>1. told \in EntityType
    BY <1>3, DeliverL3Type, PrimitiveFacts, PeerFrameTypes
  <2>2. Fresh(told) /\ told.up = Append(w.up, x)
    BY <1>3 DEF DeliverL3, EntityType, Fresh
  <2>3. w.up \in Seq(L3Event)
    BY <1>3 DEF EntityType, L3Event
  <2>4. EventsFit(Append(w.up, x))
    BY <1>2, <1>3, <2>3, EventsFitAppend, PrimitiveFacts, PeerFrameTypes
  <2>5. QED
    BY <2>1, <2>2, <2>4
<1> HIDE DEF told
<1>5. answered \in EntityType /\ Fresh(answered) /\ EventsFit(answered.up)
  <2>1. makeUAFrame(told.mSapi, f.pf, f.info) \in LAPDmFrame
    BY <1>4, FieldTypes, FrameTypes, PeerFrameTypes
  <2>2. answered \in EntityType
    BY <1>4, <2>1, SendFrameType DEF SendUA
  <2>3. Fresh(answered) /\ answered.up = told.up
    BY <1>4 DEF SendUA, SendFrame, EntityType, Fresh
  <2>4. QED
    BY <1>4, <2>2, <2>3
<1> HIDE DEF answered
<1>6. marked \in EntityType /\ Fresh(marked) /\ marked.up = answered.up
  BY <1>5, PeerFrameTypes DEF EntityType, Fresh
<1> HIDE DEF marked
<1>7. \A s \in Established : Consistent(TransitionTo(marked, s))
                             /\ Consistent(TransitionTo(answered, s))
  BY <1>5, <1>6, StateFacts, TransitionFresh
<1>8. QED
  BY <1>7, StateFacts DEF AcceptSABME, marked, answered, told, w, k

LEMMA RepeatSABMEConsistent ==
  ASSUME NEW e, Consistent(e), e.mState \in Established, NEW f \in PeerFrames
  PROVE  Consistent(RepeatSABME(e, f))
<1>1. e \in EntityType /\ EventsFit(e.up)
  BY DEF Consistent, Bounded, EventsFit
<1>2. f.pf \in BOOLEAN /\ f.info \in Seq(Octets) /\ <<>> \in Seq(Octets)
  BY PeerFrameTypes, NoOctets
<1>3. Consistent(SendUA(e, f.pf, f.info))
  BY <1>2, ResponsesConsistent
<1>4. \A b \in BOOLEAN : Consistent(AbnormalRelease(e, b))
  BY <1>1, AbnormalReleaseConsistent
<1>5. Consistent(ClearCounters(SendUA(e, f.pf, <<>>)))
  <2> DEFINE u == SendUA(e, f.pf, <<>>)
  <2>1. Consistent(u) /\ u.mState = e.mState
    BY <1>2, ResponsesConsistent DEF SameLink
  <2>2. u \in EntityType /\ EventsFit(u.up)
    BY <2>1 DEF Consistent, Bounded, EventsFit
  <2> HIDE DEF u
  <2>3. /\ ClearCounters(u) \in EntityType /\ Fresh(ClearCounters(u))
        /\ EventsFit(ClearCounters(u).up) /\ ClearCounters(u).mState \notin Awaiting
    BY <2>1, <2>2, ClearCountersType, ClearedFresh, StateFacts
  <2>4. QED
    BY <2>3, FreshConsistent DEF u
<1>6. CASE e.mEstablishmentInProgress
  BY <1>3, <1>6 DEF RepeatSABME
<1>7. CASE ~e.mEstablishmentInProgress /\ HasInfo(f)
  BY <1>4, <1>7, Zenon DEF RepeatSABME
<1>8. CASE ~e.mEstablishmentInProgress /\ ~HasInfo(f)
  BY <1>5, <1>8 DEF RepeatSABME
<1>9. QED
  BY <1>6, <1>7, <1>8

LEMMA HandleSABMEConsistent ==
  ASSUME NEW e, Consistent(e), NEW f \in PeerFrames
  PROVE  Consistent(HandleSABME(e, f))
<1>1. f.pf \in BOOLEAN /\ f.info \in Seq(Octets) /\ <<>> \in Seq(Octets)
  BY PeerFrameTypes, NoOctets
<1>2. Consistent(SendUA(e, f.pf, <<>>)) /\ Consistent(SendDM(e, f.pf))
  BY <1>1, ResponsesConsistent
<1>3. CASE ~f.pf
  BY <1>3 DEF HandleSABME
<1>4. CASE f.pf /\ e.mState = "LinkReleased"
  BY <1>4, AcceptSABMEConsistent DEF HandleSABME
<1>5. CASE f.pf /\ e.mState = "AwaitingEstablish"
  BY <1>2, <1>5 DEF HandleSABME
<1>6. CASE f.pf /\ e.mState = "AwaitingRelease"
  BY <1>2, <1>6 DEF HandleSABME
<1>7. CASE f.pf /\ e.mState = "LinkEstablished"
  BY <1>7, RepeatSABMEConsistent, StateFacts DEF HandleSABME
<1>8. CASE f.pf /\ e.mState = "ContentionResolution"
  <2> DEFINE u == SendUA(e, f.pf, f.info)
  <2>1. Consistent(u) /\ u.mState = e.mState
    BY <1>1, ResponsesConsistent DEF SameLink
  <2> HIDE DEF u
  <2>2. Consistent(TransitionTo(u, "LinkEstablished"))
    BY <1>8, <2>1, StayEstablished, StateFacts
  <2>3. Consistent(ResolveContention(e, f))
    BY <2>2 DEF ResolveContention, u
  <2>4. QED
    BY <1>8, <2>3 DEF HandleSABME
<1>9. CASE f.pf /\ e.mState \notin {"LinkReleased", "AwaitingEstablish", "AwaitingRelease",
                                    "LinkEstablished", "ContentionResolution"}
  BY <1>9 DEF HandleSABME
<1>10. QED
  BY <1>3, <1>4, <1>5, <1>6, <1>7, <1>8, <1>9

LEMMA HandleUAConsistent ==
  ASSUME NEW e, Consistent(e), NEW f \in PeerFrames
  PROVE  Consistent(HandleUA(e, f))
<1>1. /\ Consistent(Ends(e, "LinkEstablished", "L3_ESTABLISH_CONFIRM"))
      /\ Consistent(Ends(e, "LinkReleased", "L3_RELEASE_CONFIRM"))
  BY EndsConsistent, StateFacts, PrimitiveFacts
<1>2. QED
  BY <1>1 DEF HandleUA

LEMMA HandleDMConsistent ==
  ASSUME NEW e, Consistent(e), NEW f \in PeerFrames
  PROVE  Consistent(HandleDM(e, f))
<1>1. CASE f.pf /\ e.mState = "AwaitingRelease"
  <2>1. Consistent(Ends(e, "LinkReleased", "L3_RELEASE_CONFIRM"))
    BY EndsConsistent, StateFacts, PrimitiveFacts
  <2>2. QED
    BY <1>1, <2>1 DEF HandleDM, Established
<1>2. CASE f.pf /\ e.mState \in Established \cup {"AwaitingEstablish"}
  <2>1. e.mState \notin Down /\ e.mState # "AwaitingRelease"
    BY <1>2 DEF Established, Down
  <2>2. Consistent(StartT200(e))
    BY <2>1, StartT200Consistent
  <2>3. Consistent(DeliverL3(StartT200(e), "L3_RELEASE_INDICATION", <<>>))
    BY <2>2, DeliverL3Consistent, PrimitiveFacts, NoOctets
  <2>4. QED
    BY <1>2, <2>1, <2>3 DEF HandleDM
<1>3. CASE ~(f.pf /\ e.mState = "AwaitingRelease")
           /\ ~(f.pf /\ e.mState \in Established \cup {"AwaitingEstablish"})
  BY <1>3 DEF HandleDM
<1>4. QED
  BY <1>1, <1>2, <1>3

LEMMA HandleDISCConsistent ==
  ASSUME NEW e, Consistent(e), NEW f \in PeerFrames
  PROVE  Consistent(HandleDISC(e, f))
<1> DEFINE over == CloseWindow(e)
           u == SendUA(over, f.pf, <<>>)
<1>1. Consistent(over)
  BY CloseWindowConsistent
<1> HIDE DEF over
<1>2. Consistent(u) /\ Consistent(SendDM(over, f.pf))
  BY <1>1, ResponsesConsistent, PeerFrameTypes, NoOctets
<1> HIDE DEF u
<1>3. /\ Consistent(Ends(over, "LinkReleased", "L3_RELEASE_INDICATION"))
      /\ Consistent(Ends(u, "LinkReleased", "L3_RELEASE_CONFIRM"))
      /\ Consistent(Ends(u, "LinkReleased", "L3_RELEASE_INDICATION"))
  BY <1>1, <1>2, EndsConsistent, StateFacts, PrimitiveFacts
<1>4. QED
  BY <1>1, <1>2, <1>3 DEF HandleDISC, over, u, CloseWindow

LEMMA LeaveContentionConsistent ==
  ASSUME NEW e, Consistent(e)
  PROVE  Consistent(LeaveContention(e))
<1> DEFINE r == LeaveContention(e)
           state == IF e.mState = "ContentionResolution" THEN "LinkEstablished" ELSE e.mState
<1>1. e \in EntityType
  BY DEF Consistent
<1>2. state \in LAPDmState
  BY <1>1, FieldTypes DEF LAPDmState
<1>3. r = [e EXCEPT !.mEstablishmentInProgress = FALSE, !.mState = state]
  BY <1>1 DEF LeaveContention, EntityType
<1>4. \/ state = e.mState
      \/ state = "LinkEstablished" /\ e.mState = "ContentionResolution"
  OBVIOUS
<1> HIDE DEF state
<1>5. /\ r \in EntityType
      /\ r.mState = state /\ r.mVA = e.mVA /\ r.mVR = e.mVR /\ r.mVS = e.mVS
      /\ r.mPending = e.mPending /\ r.mPendingNs = e.mPendingNs
      /\ r.mRC = e.mRC /\ r.mT200Active = e.mT200Active /\ r.mTxQueue = e.mTxQueue
      /\ r.mReassemblyBuffer = e.mReassemblyBuffer /\ r.up = e.up
  BY <1>1, <1>2, <1>3 DEF EntityType
<1> HIDE DEF r
<1>6. Coherent(r)
  BY <1>4, <1>5 DEF Consistent, Coherent, Established, Awaiting
<1>7. Clean(r)
  BY <1>4, <1>5 DEF Consistent, Clean, Down
<1>8. Bounded(r)
  BY <1>5 DEF Consistent, Bounded
<1>9. QED
  BY <1>5, <1>6, <1>7, <1>8 DEF Consistent, r

LEMMA AcceptIFrameConsistent ==
  ASSUME NEW e, Consistent(e), e.mState \in Established, NEW f \in PeerFrames
  PROVE  Consistent(AcceptIFrame(e, f))
<1> DEFINE buffer == e.mReassemblyBuffer \o f.info
           next == [e EXCEPT !.mVR = SeqInc(@)]
           kept == [next EXCEPT !.mReassemblyBuffer = buffer]
           done == [next EXCEPT !.mReassemblyBuffer = <<>>]
<1>1. e \in EntityType
  BY DEF Consistent
<1>2. f.info \in Seq(Octets) /\ f.pf \in BOOLEAN /\ <<>> \in Seq(Octets)
  BY PeerFrameTypes, NoOctets
<1>3. buffer \in Seq(Octets)
  BY <1>1, <1>2, FieldTypes
<1> HIDE DEF buffer
<1>4. SeqInc(e.mVR) \in SeqNum
  BY <1>1, FieldTypes, SeqNumFacts
<1>5. /\ next \in EntityType
      /\ next.mState = e.mState /\ next.mVS = e.mVS
      /\ next.mPending = e.mPending /\ next.mPendingNs = e.mPendingNs
      /\ next.mRC = e.mRC /\ next.mT200Active = e.mT200Active /\ next.up = e.up
  BY <1>1, <1>4 DEF EntityType
<1> HIDE DEF next
\* Any buffer within the limit keeps the entity consistent.
<1>6. ASSUME NEW b \in Seq(Octets), Len(b) <= MaxReassemblyBytes
      PROVE  Consistent([next EXCEPT !.mReassemblyBuffer = b])
  <2> DEFINE r == [next EXCEPT !.mReassemblyBuffer = b]
  <2>1. /\ r \in EntityType /\ r.mReassemblyBuffer = b
        /\ r.mState = e.mState /\ r.mVS = e.mVS
        /\ r.mPending = e.mPending /\ r.mPendingNs = e.mPendingNs
        /\ r.mRC = e.mRC /\ r.mT200Active = e.mT200Active /\ r.up = e.up
    BY <1>5, <1>6 DEF EntityType
  <2> HIDE DEF r
  <2>2. Coherent(r)
    BY <2>1 DEF Consistent, Coherent
  <2>3. Clean(r)
    BY <2>1 DEF Clean, Established, Down
  <2>4. Bounded(r)
    BY <1>6, <2>1 DEF Consistent, Bounded
  <2>5. QED
    BY <2>1, <2>2, <2>3, <2>4 DEF Consistent, r
<1>7. CASE Len(f.info) > N201 \/ Len(buffer) > MaxReassemblyBytes
  <2>1. EventsFit(next.up)
    BY <1>5 DEF Consistent, Bounded, EventsFit
  <2>2. \A b \in BOOLEAN : Consistent(AbnormalRelease(next, b))
    BY <1>5, <2>1, AbnormalReleaseConsistent
  <2>3. AcceptIFrame(e, f) = AbnormalRelease(next, FALSE)
    BY <1>7 DEF AcceptIFrame, next, buffer
  <2>4. QED
    BY <2>2, <2>3, Zenon
<1>8. CASE ~(Len(f.info) > N201 \/ Len(buffer) > MaxReassemblyBytes)
  <2>1. Len(buffer) <= MaxReassemblyBytes /\ Len(<<>>) <= MaxReassemblyBytes
    BY <1>3, <1>8, ProfileAssumption
  <2>2. Consistent(kept) /\ Consistent(done)
    BY <1>2, <1>3, <1>6, <2>1
  <2> HIDE DEF kept, done
  <2>3. Consistent(DeliverL3(done, "L3_DATA", buffer))
    BY <1>3, <2>1, <2>2, DeliverL3Consistent, PrimitiveFacts
  <2>4. /\ Consistent(SendRR(kept, f.pf))
        /\ Consistent(SendRR(DeliverL3(done, "L3_DATA", buffer), f.pf))
    BY <1>2, <2>2, <2>3, ResponsesConsistent
  <2>5. QED
    BY <1>8, <2>4 DEF AcceptIFrame, kept, done, next, buffer
<1>9. QED
  BY <1>7, <1>8

LEMMA ReceiveIFrameConsistent ==
  ASSUME NEW e, Consistent(e), NEW f \in PeerFrames
  PROVE  Consistent(ReceiveIFrame(e, f))
<1> DEFINE open == LeaveContention(e)
           acked == ProcessAck(open, f.nr)
<1>1. Consistent(open)
  BY LeaveContentionConsistent
<1> HIDE DEF open
<1>2. CASE open.mState # "LinkEstablished"
  BY <1>1, <1>2 DEF ReceiveIFrame, open
<1>3. CASE open.mState = "LinkEstablished"
  <2>1. Consistent(acked) /\ acked.mState \in Established
    BY <1>1, <1>3, ProcessAckConsistent, PeerFrameTypes, StateFacts
  <2> HIDE DEF acked
  <2>2. Consistent(SendREJ(acked, f.pf)) /\ Consistent(AcceptIFrame(acked, f))
    BY <2>1, ResponsesConsistent, AcceptIFrameConsistent, PeerFrameTypes
  <2>3. CASE f.ns # acked.mVR
    BY <1>3, <2>2, <2>3 DEF ReceiveIFrame, open, acked
  <2>4. CASE f.ns = acked.mVR
    BY <1>3, <2>2, <2>4 DEF ReceiveIFrame, open, acked
  <2>5. QED
    BY <2>3, <2>4
<1>4. QED
  BY <1>2, <1>3

LEMMA HandleRRConsistent ==
  ASSUME NEW e, Consistent(e), e.mState \in Established, NEW f \in PeerFrames
  PROVE  Consistent(HandleRR(e, f)) /\ Consistent(HandleREJ(e, f))
<1> DEFINE acked == ProcessAck(e, f.nr)
<1>1. Consistent(acked)
  BY ProcessAckConsistent, PeerFrameTypes
<1> HIDE DEF acked
<1>2. acked \in EntityType /\ EventsFit(acked.up)
  BY <1>1 DEF Consistent, Bounded, EventsFit
<1>3. \A b \in BOOLEAN : Consistent(AbnormalRelease(acked, b))
  BY <1>2, AbnormalReleaseConsistent
<1>4. \A b \in BOOLEAN : Consistent(SendRR(acked, b))
  BY <1>1, ResponsesConsistent, NoOctets
<1>5. Consistent(AbnormalRelease(acked, TRUE)) /\ Consistent(SendRR(acked, TRUE))
  BY <1>3, <1>4, Zenon
<1>6. Consistent(HandleRR(e, f))
  BY <1>1, <1>5 DEF HandleRR, acked
<1>7. Consistent(HandleREJ(e, f))
  <2>1. CASE f.pf /\ f.command
    BY <1>5, <2>1 DEF HandleREJ, acked
  <2>2. CASE f.pf /\ ~f.command
    BY <1>5, <2>2 DEF HandleREJ, acked
  <2>3. CASE ~f.pf
    BY <1>1, <2>3 DEF HandleREJ, acked
  <2>4. QED
    BY <2>1, <2>2, <2>3
<1>8. QED
  BY <1>6, <1>7

LEMMA ReceiveSFrameConsistent ==
  ASSUME NEW e, Consistent(e), NEW f \in PeerFrames
  PROVE  Consistent(ReceiveSFrame(e, f))
<1> DEFINE over == CloseWindow(e)
           open == LeaveContention(e)
<1>1. Consistent(over) /\ Consistent(open)
  BY CloseWindowConsistent, LeaveContentionConsistent
<1>2. over = [e EXCEPT !.mEstablishmentInProgress = FALSE]
  BY DEF CloseWindow
<1> HIDE DEF over, open
<1>3. CASE f.kind = "RNR"
  <2>1. over \in EntityType /\ EventsFit(over.up)
    BY <1>1 DEF Consistent, Bounded, EventsFit
  <2>2. \A b \in BOOLEAN : Consistent(AbnormalRelease(over, b))
    BY <2>1, AbnormalReleaseConsistent
  <2>3. ReceiveSFrame(e, f) = AbnormalRelease(over, TRUE)
    BY <1>2, <1>3 DEF ReceiveSFrame
  <2>4. QED
    BY <2>2, <2>3, Zenon
<1>4. CASE f.kind \in {"RR", "REJ"} /\ open.mState # "LinkEstablished"
  BY <1>1, <1>4 DEF ReceiveSFrame, open
<1>5. CASE f.kind \in {"RR", "REJ"} /\ open.mState = "LinkEstablished"
  <2>1. Consistent(HandleRR(open, f)) /\ Consistent(HandleREJ(open, f))
    BY <1>1, <1>5, HandleRRConsistent, StateFacts
  <2>2. QED
    BY <1>5, <2>1 DEF ReceiveSFrame, open
<1>6. CASE f.kind \notin {"RR", "REJ", "RNR"}
  <2>1. ReceiveSFrame(e, f) = over
    BY <1>2, <1>6 DEF ReceiveSFrame
  <2>2. QED
    BY <1>1, <2>1
<1>7. QED
  BY <1>3, <1>4, <1>5, <1>6

LEMMA ReceiveUFrameConsistent ==
  ASSUME NEW e, Consistent(e), NEW f \in PeerFrames, f.kind \in UKinds
  PROVE  Consistent(ReceiveUFrame(e, f))
<1>1. Consistent(HandleUI(e, f))
  BY DeliverL3Consistent, PrimitiveFacts, PeerFrameTypes DEF HandleUI
<1>2. QED
  BY <1>1, HandleSABMEConsistent, HandleUAConsistent, HandleDMConsistent,
     HandleDISCConsistent DEF ReceiveUFrame, UKinds

LEMMA ReceiveFrameConsistent ==
  ASSUME NEW e, Consistent(e), NEW f \in PeerFrames
  PROVE  Consistent(ReceiveFrame(e, f))
<1>1. f.kind \in {"I"} \cup SKinds \cup UKinds
  BY PeerFrameTypes DEF FrameKinds
<1>2. CASE f.sapi # e.mSapi
  BY <1>2 DEF ReceiveFrame
<1>3. CASE f.sapi = e.mSapi /\ f.kind = "I"
  BY <1>3, ReceiveIFrameConsistent DEF ReceiveFrame, SKinds, UKinds
<1>4. CASE f.sapi = e.mSapi /\ f.kind \in SKinds
  BY <1>4, ReceiveSFrameConsistent DEF ReceiveFrame, SKinds, UKinds
<1>5. CASE f.sapi = e.mSapi /\ f.kind \in UKinds
  BY <1>5, ReceiveUFrameConsistent DEF ReceiveFrame, SKinds, UKinds
<1>6. QED
  BY <1>1, <1>2, <1>3, <1>4, <1>5

-----------------------------------------------------------------------------
(* The specification                                                       *)

IInv == Consistent(ent)

LEMMA InitConsistent == Init => IInv
<1> SUFFICES ASSUME Init PROVE IInv
  OBVIOUS
<1>1. /\ <<>> \in Seq(Octets) /\ <<>> \in Seq(Seq(Octets))
      /\ <<>> \in Seq(LAPDmFrame) /\ <<>> \in Seq(L3Event)
      /\ 0 \in SeqNum /\ 0 \in Checksums
      /\ "Unused" \in LAPDmState /\ "None" \in PendingKind
  BY NoOctets, SeqNumFacts DEF Checksums, LAPDmState, PendingKind
<1>2. NewEntity \in EntityType
  BY <1>1 DEF NewEntity, EntityType, L3Event
<1>3. /\ Fresh(NewEntity) /\ NewEntity.mState = "Unused" /\ NewEntity.up = <<>>
  BY DEF NewEntity, Fresh
<1>4. NewEntity.mState \notin Awaiting /\ EventsFit(NewEntity.up)
  BY <1>3 DEF Awaiting, EventsFit
<1>5. QED
  BY <1>2, <1>3, <1>4, FreshConsistent DEF Init, IInv

LEMMA NextConsistent == IInv /\ [Next]_vars => IInv'
<1> SUFFICES ASSUME IInv, [Next]_vars PROVE IInv'
  OBVIOUS
<1> DEFINE e == Enter(ent)
<1>1. Consistent(e) /\ SameLink(e, ent)
  BY EnterConsistent DEF IInv
<1> HIDE DEF e
<1>2. ASSUME NEW a \in Addresses, OpenLink(a) PROVE IInv'
  <2>1. a[1] \in {SAPI0, SAPI3} /\ a[2] \in BOOLEAN
    BY <1>2, EnvironmentAssumption
  <2>2. QED
    BY <1>1, <1>2, <2>1, OpenConsistent DEF OpenLink, IInv, e
<1>3. ASSUME NEW sapi \in {SAPI0, SAPI3}, NEW data \in Infos, UserSendUI(sapi, data)
      PROVE  IInv'
  <2>1. data \in Seq(Octets)
    BY EnvironmentAssumption
  <2>2. QED
    BY <1>1, <1>3, <2>1, SendUIConsistent DEF UserSendUI, IInv, e
<1>4. ASSUME NEW data \in Messages, UserSendData(data) PROVE IInv'
  <2>1. data \in Seq(Octets)
    BY EnvironmentAssumption
  <2>2. CanSendData(e, data)
    BY <1>1, <1>4 DEF UserSendData, CanSendData, SameLink
  <2>3. QED
    BY <1>1, <1>4, <2>1, <2>2, SendDataConsistent DEF UserSendData, IInv, e
<1>5. ASSUME NEW info \in Infos, UserSendSABME(info) PROVE IInv'
  <2>1. info \in Seq(Octets)
    BY EnvironmentAssumption
  <2>2. CanSendSABME(e)
    BY <1>1, <1>5 DEF UserSendSABME, CanSendSABME, SameLink
  <2>3. QED
    BY <1>1, <1>5, <2>1, <2>2, SendSABMEConsistent DEF UserSendSABME, IInv, e
<1>6. CASE UserSendDISC
  BY <1>1, <1>6, SendDISCConsistent DEF UserSendDISC, IInv, e
<1>7. CASE UserHardRelease
  BY <1>1, <1>7, HardReleaseConsistent DEF UserHardRelease, IInv, e
<1>8. CASE TickT200
  <2>1. CanExpireT200(e)
    BY <1>1, <1>8 DEF TickT200, CanExpireT200, SameLink
  <2>2. QED
    BY <1>1, <1>8, <2>1, ExpireT200Consistent DEF TickT200, IInv, e
<1>9. ASSUME NEW f \in PeerFrames, Receive(f) PROVE IInv'
  BY <1>1, <1>9, ReceiveFrameConsistent DEF Receive, IInv, e
<1>10. CASE UNCHANGED vars
  BY <1>10 DEF vars, IInv
<1>11. QED
  BY <1>2, <1>3, <1>4, <1>5, <1>6, <1>7, <1>8, <1>9, <1>10 DEF Next

LEMMA Invariance == Spec => []IInv
BY InitConsistent, NextConsistent, PTL DEF Spec

\* Every member of the entity keeps its type and range, for every profile, user
\* and peer (the members of class LAPDmEntity).
THEOREM TypeCorrect == Spec => []TypeOK
<1>1. Init => forced \in BOOLEAN
  BY DEF Init
<1>2. forced \in BOOLEAN /\ [Next]_vars => (forced \in BOOLEAN)'
  BY DEF Next, vars, OpenLink, UserSendUI, UserSendData, UserSendSABME, UserSendDISC,
         UserHardRelease, TickT200, Receive
<1>3. IInv /\ forced \in BOOLEAN => TypeOK
  BY DEF IInv, Consistent, TypeOK
<1>4. QED
  BY <1>1, <1>2, <1>3, Invariance, PTL DEF Spec

\* No sequence of calls, frames and expiries leaves the entity waiting on a
\* stopped timer or with an outstanding frame that does not fit its state.
THEOREM PendingIsCoherent == Spec => []PendingCoherent
<1>1. IInv => PendingCoherent
  BY DEF IInv, Consistent, PendingCoherent
<1>2. QED
  BY <1>1, Invariance, PTL

\* However a link ends, the next one starts from zero counters, empty buffers,
\* no stored frame and a stopped timer.
THEOREM ReleasedIsClean == Spec => []DownIsClean
<1>1. IInv => DownIsClean
  BY DEF IInv, Consistent, DownIsClean
<1>2. QED
  BY <1>1, Invariance, PTL

\* The retransmission counter and the reassembly buffer stay within their
\* limits, and so does every message passed up.
THEOREM BudgetsHold == Spec => []WithinBudgets
<1>1. IInv => WithinBudgets
  BY DEF IInv, Consistent, WithinBudgets
<1>2. QED
  BY <1>1, Invariance, PTL

-----------------------------------------------------------------------------
(* What layer 3 is told.  Only the members mState and up matter here, so   *)
(* the lemmas ask of an entity no more than that it has them.              *)

HasLink(e) == {"mState", "up"} \subseteq DOMAIN e

\* The step from e to r changes neither the state nor what layer 3 was told.
Quiet(r, e) == HasLink(r) /\ r.mState = e.mState /\ r.up = e.up

\* r is in state and has told layer 3 one thing, a primitive of prims.
Announces(r, state, prims) ==
  r.mState = state /\ \E x : r.up = <<x>> /\ x.prim \in prims

Releases == {"L3_RELEASE_CONFIRM", "L3_RELEASE_INDICATION", "MDL_ERROR_INDICATION"}
Establishes == {"L3_ESTABLISH_CONFIRM", "L3_ESTABLISH_INDICATION"}

LEMMA QuietSteps ==
  ASSUME NEW e, HasLink(e), NEW f
  PROVE  /\ Quiet(SendFrame(e, f), e)
         /\ Quiet(StartT200(e), e)
         /\ Quiet(ClearCounters(e), e)
         /\ Quiet(CloseWindow(e), e)
<1>1. Quiet(SendFrame(e, f), e)
  BY DEF SendFrame, HasLink, Quiet
<1>2. Quiet(StartT200(e), e)
  BY DEF StartT200, HasLink, Quiet
<1>3. Quiet(ClearCounters(e), e)
  BY DEF ClearCounters, HasLink, Quiet
<1>4. Quiet(CloseWindow(e), e)
  BY DEF CloseWindow, HasLink, Quiet
<1>5. QED
  BY <1>1, <1>2, <1>3, <1>4

LEMMA TransitionStep ==
  ASSUME NEW e, HasLink(e), NEW state
  PROVE  /\ HasLink(TransitionTo(e, state))
         /\ TransitionTo(e, state).mState = state
         /\ TransitionTo(e, state).up = e.up
BY DEF TransitionTo, HasLink

LEMMA DeliverStep ==
  ASSUME NEW e, HasLink(e), NEW prim, NEW data
  PROVE  /\ HasLink(DeliverL3(e, prim, data))
         /\ DeliverL3(e, prim, data).mState = e.mState
         /\ e.up = <<>> =>
              DeliverL3(e, prim, data).up = <<[prim |-> prim, data |-> data]>>
<1>1. /\ HasLink(DeliverL3(e, prim, data))
      /\ DeliverL3(e, prim, data).mState = e.mState
      /\ DeliverL3(e, prim, data).up = Append(e.up, [prim |-> prim, data |-> data])
  BY DEF DeliverL3, HasLink
<1>2. \A x : Append(<<>>, x) = <<x>>
  OBVIOUS
<1>3. QED
  BY <1>1, <1>2

\* saveForRetransmission, retransmitPending and the short responses.
LEMMA QuietFrames ==
  ASSUME NEW e, HasLink(e), NEW kind, NEW f, NEW pf, NEW info
  PROVE  /\ Quiet(SaveForRetransmission(e, kind, f), e)
         /\ Quiet(RetransmitPending(e), e)
         /\ Quiet(SendUA(e, pf, info), e)
         /\ Quiet(SendDM(e, pf), e)
         /\ Quiet(SendRR(e, pf), e)
         /\ Quiet(SendREJ(e, pf), e)
<1>1. Quiet(SaveForRetransmission(e, kind, f), e)
  <2> DEFINE s == [e EXCEPT !.mPending = kind, !.mRC = 0]
  <2>1. Quiet(s, e) /\ HasLink(s)
    BY DEF HasLink, Quiet
  <2>2. SaveForRetransmission(e, kind, f) = StartT200(SendFrame(s, f))
    BY DEF SaveForRetransmission
  <2> HIDE DEF s
  <2>3. Quiet(SendFrame(s, f), s)
    BY <2>1, QuietSteps
  <2>4. Quiet(StartT200(SendFrame(s, f)), SendFrame(s, f))
    BY <2>3, QuietSteps DEF Quiet
  <2>5. QED
    BY <2>1, <2>2, <2>3, <2>4 DEF Quiet
<1>2. \A g : Quiet(SendFrame(e, g), e)
  BY QuietSteps
<1>3. Quiet(RetransmitPending(e), e)
  <2>1. Quiet(e, e)
    BY DEF Quiet
  <2>2. QED
    BY <1>2, <2>1, Zenon DEF RetransmitPending
<1>4. QED
  BY <1>1, <1>2, <1>3 DEF SendUA, SendDM, SendRR, SendREJ

LEMMA QuietSegments ==
  ASSUME NEW e, HasLink(e), NEW nr
  PROVE  Quiet(TrySendNextSegment(e), e) /\ Quiet(ProcessAck(e, nr), e)
<1>1. \A q, payload, more :
        HasLink(q) => Quiet(BuildIFrame(q, payload, more), q)
  <2> SUFFICES ASSUME NEW q, NEW payload, NEW more, HasLink(q)
               PROVE  Quiet(BuildIFrame(q, payload, more), q)
    OBVIOUS
  <2> DEFINE s == [q EXCEPT !.mVS = SeqInc(@), !.mPendingNs = q.mVS,
                            !.mPendingMore = more, !.mPendingInfo = payload]
             f == makeIFrame(q.mSapi, q.mCommandBit, q.mVR, q.mVS, FALSE, more, payload)
  <2>1. Quiet(s, q) /\ HasLink(s)
    BY DEF HasLink, Quiet
  <2>2. BuildIFrame(q, payload, more) = SaveForRetransmission(s, "IFrame", f)
    BY DEF BuildIFrame
  <2> HIDE DEF s, f
  <2>3. Quiet(SaveForRetransmission(s, "IFrame", f), s)
    BY <2>1, QuietFrames
  <2>4. QED
    BY <2>1, <2>2, <2>3 DEF Quiet
<1>2. \A q : HasLink(q) => Quiet(TrySendNextSegment(q), q)
  <2> SUFFICES ASSUME NEW q, HasLink(q)
               PROVE  Quiet(TrySendNextSegment(q), q)
    OBVIOUS
  <2> DEFINE msg  == Head(q.mTxQueue)
             cut  == [q EXCEPT !.mTxQueue[1] = SubSeq(msg, N201 + 1, Len(msg))]
             rest == [q EXCEPT !.mTxQueue = Tail(@)]
             long == BuildIFrame(cut, SubSeq(msg, 1, N201), TRUE)
             last == BuildIFrame(rest, msg, FALSE)
  <2>1. Quiet(cut, q) /\ HasLink(cut)
    BY DEF HasLink, Quiet
  <2>2. Quiet(rest, q) /\ HasLink(rest)
    BY DEF HasLink, Quiet
  <2>3. \/ TrySendNextSegment(q) = q
        \/ TrySendNextSegment(q) = long
        \/ TrySendNextSegment(q) = last
    BY Zenon DEF TrySendNextSegment
  <2> HIDE DEF msg, cut, rest
  <2>4. Quiet(long, cut) /\ Quiet(last, rest)
    BY <1>1, <2>1, <2>2
  <2> HIDE DEF long, last
  <2>5. QED
    BY <2>1, <2>2, <2>3, <2>4 DEF Quiet
<1>3. Quiet(ProcessAck(e, nr), e)
  <2> DEFINE acked == [e EXCEPT !.mVA = nr]
             idle  == [acked EXCEPT !.mRC = 0, !.mT200Active = FALSE]
  <2>1. Quiet(acked, e) /\ Quiet(idle, e)
    BY DEF HasLink, Quiet
  <2>2. ProcessAck(e, nr) = acked \/ ProcessAck(e, nr) = TrySendNextSegment(idle)
    BY DEF ProcessAck
  <2> HIDE DEF acked, idle
  <2>3. Quiet(TrySendNextSegment(idle), idle)
    BY <1>2, <2>1 DEF Quiet
  <2>4. QED
    BY <2>1, <2>2, <2>3 DEF Quiet
<1>4. QED
  BY <1>2, <1>3

\* An abnormal release, and the end of an exchange, tell layer 3 one thing.
LEMMA ReleaseAnnounced ==
  ASSUME NEW e, HasLink(e), e.up = <<>>, NEW sendDM \in BOOLEAN
  PROVE  \E state \in Down :
           Announces(AbnormalRelease(e, sendDM), state, {"MDL_ERROR_INDICATION"})
<1> DEFINE told    == IF sendDM THEN SendDM(e, TRUE) ELSE e
           cleared == CloseWindow(ClearCounters(told))
           state   == IF sendDM THEN "Unused" ELSE "LinkReleased"
<1>1. Quiet(told, e)
  BY QuietFrames DEF Quiet
<1>2. AbnormalRelease(e, sendDM)
        = DeliverL3(TransitionTo(cleared, state), "MDL_ERROR_INDICATION", <<>>)
  BY DEF AbnormalRelease, CloseWindow
<1>3. state \in Down
  BY DEF Down
<1> HIDE DEF told, state
<1>4. Quiet(ClearCounters(told), told)
  BY <1>1, QuietSteps DEF Quiet
<1>5. Quiet(cleared, ClearCounters(told))
  BY <1>4, QuietSteps DEF Quiet
<1>6. HasLink(cleared) /\ cleared.up = <<>>
  BY <1>1, <1>4, <1>5 DEF Quiet
<1> HIDE DEF cleared
<1> DEFINE gone == TransitionTo(cleared, state)
<1>7. HasLink(gone) /\ gone.mState = state /\ gone.up = <<>>
  BY <1>6, TransitionStep
<1> HIDE DEF gone
<1> DEFINE r == DeliverL3(gone, "MDL_ERROR_INDICATION", <<>>)
<1>8. /\ r.mState = state
      /\ r.up = <<[prim |-> "MDL_ERROR_INDICATION", data |-> <<>>]>>
  BY <1>7, DeliverStep
<1> HIDE DEF r
<1>9. Announces(r, state, {"MDL_ERROR_INDICATION"})
  BY <1>8 DEF Announces
<1>10. QED
  BY <1>2, <1>3, <1>9 DEF r, gone

LEMMA EndAnnounced ==
  ASSUME NEW e, HasLink(e), e.up = <<>>, NEW state, NEW prim
  PROVE  Announces(Ends(e, state, prim), state, {prim})
<1> DEFINE cleared == ClearCounters(e)
           moved   == TransitionTo(cleared, state)
           r       == DeliverL3(moved, prim, <<>>)
<1>1. HasLink(cleared) /\ cleared.up = <<>>
  BY QuietSteps DEF Quiet
<1> HIDE DEF cleared
<1>2. HasLink(moved) /\ moved.mState = state /\ moved.up = <<>>
  BY <1>1, TransitionStep
<1> HIDE DEF moved
<1>3. r.mState = state /\ r.up = <<[prim |-> prim, data |-> <<>>]>>
  BY <1>2, DeliverStep
<1> HIDE DEF r
<1>4. Announces(r, state, {prim})
  BY <1>3 DEF Announces
<1>5. QED
  BY <1>4 DEF Ends, r, moved, cleared

\* What the step from e to r owes layer 3.
Explained(r, e) ==
  /\ e.mState \notin Down /\ r.mState \in Down => Announces(r, r.mState, Releases)
  /\ e.mState \notin Established /\ r.mState \in Established =>
       Announces(r, r.mState, Establishes)

\* The three ways to owe nothing more: the state stays or leaves the contention
\* phase, the link goes down announced, or it comes up announced.
LEMMA ExplainedCases ==
  ASSUME NEW e, NEW r, NEW prim,
         \/ r.mState = e.mState
         \/ r.mState \in Awaiting
         \/ r.mState \in Established /\ e.mState \in Established
         \/ prim \in Releases /\ \E state \in Down : Announces(r, state, {prim})
         \/ prim \in Establishes /\ \E state \in Established : Announces(r, state, {prim})
  PROVE  Explained(r, e)
<1>1. /\ \A s : ~(s \in Down /\ s \in Established)
      /\ \A s : s \in Awaiting => s \notin Down /\ s \notin Established
  BY DEF Down, Established, Awaiting
<1>2. CASE \/ r.mState = e.mState
           \/ r.mState \in Awaiting
           \/ r.mState \in Established /\ e.mState \in Established
  BY <1>1, <1>2 DEF Explained
<1>3. ASSUME NEW state \in Down, prim \in Releases, Announces(r, state, {prim})
      PROVE  Explained(r, e)
  BY <1>1, <1>3 DEF Explained, Announces
<1>4. ASSUME NEW state \in Established, prim \in Establishes, Announces(r, state, {prim})
      PROVE  Explained(r, e)
  BY <1>1, <1>4 DEF Explained, Announces
<1>5. QED
  BY <1>2, <1>3, <1>4

LEMMA QuietExplained ==
  ASSUME NEW e, NEW r, Quiet(r, e)
  PROVE  Explained(r, e)
BY ExplainedCases DEF Quiet

\* An abnormal release from wherever the call has got to.
LEMMA AbnormalExplained ==
  ASSUME NEW e, NEW r, HasLink(r), r.up = <<>>, NEW sendDM \in BOOLEAN
  PROVE  Explained(AbnormalRelease(r, sendDM), e)
<1>1. "MDL_ERROR_INDICATION" \in Releases
  BY DEF Releases
<1>2. QED
  BY <1>1, ReleaseAnnounced, ExplainedCases

\* The end of an exchange, announced.
LEMMA EndExplained ==
  ASSUME NEW e, NEW r, HasLink(r), r.up = <<>>
  PROVE  /\ Explained(Ends(r, "LinkReleased", "L3_RELEASE_CONFIRM"), e)
         /\ Explained(Ends(r, "LinkReleased", "L3_RELEASE_INDICATION"), e)
         /\ Explained(Ends(r, "LinkEstablished", "L3_ESTABLISH_CONFIRM"), e)
<1>1. /\ "L3_RELEASE_CONFIRM" \in Releases /\ "L3_RELEASE_INDICATION" \in Releases
      /\ "L3_ESTABLISH_CONFIRM" \in Establishes
      /\ "LinkReleased" \in Down /\ "LinkEstablished" \in Established
  BY DEF Releases, Establishes, Down, Established
<1>2. \A state, prim : Announces(Ends(r, state, prim), state, {prim})
  BY EndAnnounced
<1>3. QED
  BY <1>1, <1>2, ExplainedCases

LEMMA AcceptSABMEExplained ==
  ASSUME NEW e, HasLink(e), e.up = <<>>, NEW f
  PROVE  Explained(AcceptSABME(e, f), e)
<1> DEFINE cleared  == ClearCounters(e)
           begun    == [cleared EXCEPT !.mEstablishmentInProgress = TRUE]
           told     == DeliverL3(begun, "L3_ESTABLISH_INDICATION", f.info)
           answered == SendUA(told, f.pf, f.info)
           summed   == [answered EXCEPT !.mContentionChecksum = ComputeChecksum(f.info)]
           r        == AcceptSABME(e, f)
           up       == <<[prim |-> "L3_ESTABLISH_INDICATION", data |-> f.info]>>
<1>1. r \in {TransitionTo(summed, "ContentionResolution"),
             TransitionTo(summed, "LinkEstablished"),
             TransitionTo(answered, "LinkEstablished")}
  BY DEF AcceptSABME
<1> HIDE DEF r
<1>2. HasLink(cleared) /\ cleared.up = <<>>
  BY QuietSteps DEF Quiet
<1> HIDE DEF cleared
<1>3. HasLink(begun) /\ begun.up = <<>>
  BY <1>2 DEF HasLink
<1> HIDE DEF begun
<1>4. HasLink(told) /\ told.up = up
  BY <1>3, DeliverStep
<1> HIDE DEF told
<1>5. HasLink(answered) /\ answered.up = up
  <2>1. Quiet(answered, told)
    BY <1>4, QuietFrames
  <2>2. QED
    BY <1>4, <2>1 DEF Quiet
<1> HIDE DEF answered
<1>6. HasLink(summed) /\ summed.up = up
  BY <1>5 DEF HasLink
<1> HIDE DEF summed
<1>7. r.up = up /\ r.mState \in Established
  BY <1>1, <1>5, <1>6, TransitionStep DEF Established
<1>8. Announces(r, r.mState, {"L3_ESTABLISH_INDICATION"})
  BY <1>7 DEF Announces
<1>9. "L3_ESTABLISH_INDICATION" \in Establishes
  BY DEF Establishes
<1>10. QED
  BY <1>7, <1>8, <1>9, ExplainedCases DEF r

LEMMA HandleSABMEExplained ==
  ASSUME NEW e, HasLink(e), e.up = <<>>, NEW f
  PROVE  Explained(HandleSABME(e, f), e)
<1>1. Quiet(e, e)
  BY DEF Quiet
<1>2. \A pf, info : Explained(SendUA(e, pf, info), e) /\ Explained(SendDM(e, pf), e)
  BY QuietFrames, QuietExplained
<1>3. Explained(e, e)
  BY <1>1, QuietExplained
<1>4. Explained(AcceptSABME(e, f), e)
  BY AcceptSABMEExplained
<1>5. Explained(RepeatSABME(e, f), e)
  <2> DEFINE u == SendUA(e, f.pf, <<>>)
  <2>1. Quiet(u, e)
    BY QuietFrames
  <2> HIDE DEF u
  <2>2. Quiet(ClearCounters(u), e)
    BY <2>1, QuietSteps DEF Quiet
  <2>3. Explained(ClearCounters(u), e)
    BY <2>2, QuietExplained
  <2>4. \A b \in BOOLEAN : Explained(AbnormalRelease(e, b), e)
    BY AbnormalExplained
  <2>5. QED
    BY <1>2, <2>3, <2>4, Zenon DEF RepeatSABME, u
<1>6. e.mState = "ContentionResolution" => Explained(ResolveContention(e, f), e)
  <2> DEFINE u == SendUA(e, f.pf, f.info)
             r == TransitionTo(u, "LinkEstablished")
  <2>1. Quiet(u, e)
    BY QuietFrames
  <2> HIDE DEF u
  <2>2. r.mState = "LinkEstablished"
    BY <2>1, TransitionStep DEF Quiet
  <2> HIDE DEF r
  <2>3. e.mState = "ContentionResolution" => Explained(r, e)
    BY <2>2, ExplainedCases DEF Established
  <2>4. QED
    BY <1>3, <2>3, Zenon DEF ResolveContention, r, u
<1>7. QED
  BY <1>2, <1>3, <1>4, <1>5, <1>6, Zenon DEF HandleSABME

LEMMA HandleUAExplained ==
  ASSUME NEW e, HasLink(e), e.up = <<>>, NEW f
  PROVE  /\ Explained(HandleUA(e, f), e) /\ Explained(HandleDM(e, f), e)
         /\ Explained(HandleUI(e, f), e)
<1>1. Explained(e, e)
  BY QuietExplained DEF Quiet
<1>2. /\ Explained(Ends(e, "LinkReleased", "L3_RELEASE_CONFIRM"), e)
      /\ Explained(Ends(e, "LinkEstablished", "L3_ESTABLISH_CONFIRM"), e)
  BY EndExplained
<1>3. \A data : Explained(DeliverL3(e, "L3_UNIT_DATA", data), e)
  <2>1. \A data : DeliverL3(e, "L3_UNIT_DATA", data).mState = e.mState
    BY DeliverStep, Zenon
  <2>2. QED
    BY <2>1, ExplainedCases, Zenon
<1>4. Explained(DeliverL3(StartT200(e), "L3_RELEASE_INDICATION", <<>>), e)
  <2> DEFINE s == StartT200(e)
             r == DeliverL3(s, "L3_RELEASE_INDICATION", <<>>)
  <2>1. Quiet(s, e)
    BY QuietSteps
  <2> HIDE DEF s
  <2>2. r.mState = e.mState
    <3>1. HasLink(s) /\ s.mState = e.mState
      BY <2>1 DEF Quiet
    <3>2. r.mState = s.mState
      BY <3>1, DeliverStep, Zenon
    <3>3. QED
      BY <3>1, <3>2
  <2> HIDE DEF r
  <2>3. Explained(r, e)
    BY <2>2, ExplainedCases
  <2>4. QED
    BY <2>3 DEF r, s
<1>5. Explained(HandleUA(e, f), e)
  BY <1>1, <1>2, Zenon DEF HandleUA
<1>6. Explained(HandleDM(e, f), e)
  BY <1>1, <1>2, <1>4, Zenon DEF HandleDM
<1>7. QED
  BY <1>3, <1>5, <1>6 DEF HandleUI

LEMMA HandleDISCExplained ==
  ASSUME NEW e, HasLink(e), e.up = <<>>, NEW f
  PROVE  Explained(HandleDISC(e, f), e)
<1> DEFINE over == CloseWindow(e)
           u    == SendUA(over, f.pf, <<>>)
           d    == SendDM(over, f.pf)
<1>1. Quiet(over, e)
  BY QuietSteps
<1> HIDE DEF over
<1>2. Quiet(u, over) /\ Quiet(d, over)
  <2>1. HasLink(over)
    BY <1>1 DEF Quiet
  <2>2. QED
    BY <2>1, QuietFrames
<1> HIDE DEF u, d
<1>3. /\ HasLink(over) /\ over.up = <<>>
      /\ HasLink(u) /\ u.up = <<>>
      /\ Quiet(d, e)
  BY <1>1, <1>2 DEF Quiet
<1>4. Explained(over, e) /\ Explained(d, e)
  BY <1>1, <1>3, QuietExplained
<1>5. /\ Explained(Ends(over, "LinkReleased", "L3_RELEASE_INDICATION"), e)
      /\ Explained(Ends(u, "LinkReleased", "L3_RELEASE_CONFIRM"), e)
      /\ Explained(Ends(u, "LinkReleased", "L3_RELEASE_INDICATION"), e)
  BY <1>3, EndExplained
<1>6. QED
  BY <1>4, <1>5, Zenon DEF HandleDISC, over, u, d, CloseWindow

\* Leaving the contention phase stays on the established side.
LEMMA LeaveContentionSide ==
  ASSUME NEW e, HasLink(e)
  PROVE  /\ HasLink(LeaveContention(e)) /\ LeaveContention(e).up = e.up
         /\ \/ LeaveContention(e).mState = e.mState
            \/ /\ LeaveContention(e).mState \in Established
               /\ e.mState \in Established
         /\ LeaveContention(e).mState = "LinkEstablished" => e.mState \in Established
BY DEF LeaveContention, HasLink, Established

LEMMA ReceiveIFrameExplained ==
  ASSUME NEW e, HasLink(e), e.up = <<>>, NEW f
  PROVE  Explained(ReceiveIFrame(e, f), e)
<1> DEFINE open  == LeaveContention(e)
           acked == ProcessAck(open, f.nr)
<1>1. /\ HasLink(open) /\ open.up = <<>>
      /\ open.mState = e.mState \/ (open.mState \in Established /\ e.mState \in Established)
      /\ open.mState = "LinkEstablished" => e.mState \in Established
  BY LeaveContentionSide
<1>2. Explained(open, e)
  BY <1>1, ExplainedCases
<1>3. Quiet(acked, open)
  <2> HIDE DEF open
  <2>1. QED
    BY <1>1, QuietSegments
<1>4. ReceiveIFrame(e, f) \in {open, SendREJ(acked, f.pf), AcceptIFrame(acked, f)}
  BY Zenon DEF ReceiveIFrame
<1>5. CASE open.mState # "LinkEstablished"
  <2>1. ReceiveIFrame(e, f) = open
    BY <1>5 DEF ReceiveIFrame
  <2>2. QED
    BY <1>2, <2>1
<1>6. CASE open.mState = "LinkEstablished"
  <2> HIDE DEF open, acked
  <2>1. /\ HasLink(acked) /\ acked.up = <<>>
        /\ acked.mState \in Established /\ e.mState \in Established
    BY <1>1, <1>3, <1>6 DEF Quiet, Established
  <2>2. Explained(SendREJ(acked, f.pf), e)
    <3>1. Quiet(SendREJ(acked, f.pf), acked)
      BY <2>1, QuietFrames
    <3>2. SendREJ(acked, f.pf).mState \in Established
      BY <2>1, <3>1 DEF Quiet
    <3>3. QED
      BY <2>1, <3>2, ExplainedCases
  <2>3. Explained(AcceptIFrame(acked, f), e)
    <3> DEFINE buffer == acked.mReassemblyBuffer \o f.info
               next   == [acked EXCEPT !.mVR = SeqInc(@)]
               kept   == [next EXCEPT !.mReassemblyBuffer = buffer]
               done   == [next EXCEPT !.mReassemblyBuffer = <<>>]
               given  == DeliverL3(done, "L3_DATA", buffer)
    <3>1. AcceptIFrame(acked, f)
            \in {AbnormalRelease(next, FALSE), SendRR(kept, f.pf), SendRR(given, f.pf)}
      BY Zenon DEF AcceptIFrame
    <3>2. Quiet(next, acked)
      BY <2>1 DEF HasLink, Quiet
    <3> HIDE DEF next, buffer
    <3>3. Quiet(kept, next) /\ Quiet(done, next)
      BY <3>2 DEF HasLink, Quiet
    <3> HIDE DEF kept, done
    <3>4. HasLink(given) /\ given.mState = done.mState
      BY <3>3, DeliverStep DEF Quiet
    <3> HIDE DEF given
    <3>5. Explained(AbnormalRelease(next, FALSE), e)
      <4>1. HasLink(next) /\ next.up = <<>>
        BY <2>1, <3>2 DEF Quiet
      <4>2. \A b \in BOOLEAN : Explained(AbnormalRelease(next, b), e)
        BY <4>1, AbnormalExplained
      <4>3. QED
        BY <4>2, Zenon
    <3>6. \A q : HasLink(q) /\ q.mState = acked.mState => Explained(SendRR(q, f.pf), e)
      <4> SUFFICES ASSUME NEW q, HasLink(q), q.mState = acked.mState
                   PROVE  Explained(SendRR(q, f.pf), e)
        OBVIOUS
      <4>1. Quiet(SendRR(q, f.pf), q)
        BY QuietFrames
      <4>2. SendRR(q, f.pf).mState \in Established
        BY <2>1, <4>1 DEF Quiet
      <4>3. QED
        BY <2>1, <4>2, ExplainedCases
    <3>7. /\ HasLink(kept) /\ kept.mState = acked.mState
          /\ given.mState = acked.mState
      BY <3>2, <3>3, <3>4 DEF Quiet
    <3>8. Explained(SendRR(kept, f.pf), e) /\ Explained(SendRR(given, f.pf), e)
      BY <3>4, <3>6, <3>7
    <3>9. QED
      BY <3>1, <3>5, <3>8
  <2>4. QED
    BY <1>2, <1>4, <2>2, <2>3
<1>7. QED
  BY <1>5, <1>6

LEMMA ReceiveSFrameExplained ==
  ASSUME NEW e, HasLink(e), e.up = <<>>, NEW f
  PROVE  Explained(ReceiveSFrame(e, f), e)
<1> DEFINE over  == CloseWindow(e)
           open  == LeaveContention(e)
           acked == ProcessAck(open, f.nr)
<1>1. Quiet(over, e)
  BY QuietSteps
<1>2. /\ HasLink(open) /\ open.up = <<>>
      /\ open.mState = e.mState \/ (open.mState \in Established /\ e.mState \in Established)
      /\ open.mState = "LinkEstablished" => e.mState \in Established
  BY LeaveContentionSide
<1>3. over = [e EXCEPT !.mEstablishmentInProgress = FALSE]
  BY DEF CloseWindow
<1> HIDE DEF over, open
<1>4. Explained(over, e) /\ Explained(open, e)
  BY <1>1, <1>2, ExplainedCases, QuietExplained
<1>5. Explained(AbnormalRelease(over, TRUE), e)
  <2>1. HasLink(over) /\ over.up = <<>>
    BY <1>1 DEF Quiet
  <2>2. \A b \in BOOLEAN : Explained(AbnormalRelease(over, b), e)
    BY <2>1, AbnormalExplained
  <2>3. QED
    BY <2>2, Zenon
<1>6. CASE open.mState = "LinkEstablished"
  <2>1. Quiet(acked, open)
    BY <1>2, QuietSegments
  <2> HIDE DEF acked
  <2>2. /\ HasLink(acked) /\ acked.up = <<>>
        /\ acked.mState \in Established /\ e.mState \in Established
    BY <1>2, <1>6, <2>1 DEF Quiet, Established
  <2>3. Explained(acked, e)
    BY <2>2, ExplainedCases
  <2>4. Explained(SendRR(acked, TRUE), e)
    <3>1. Quiet(SendRR(acked, TRUE), acked)
      BY <2>2, QuietFrames
    <3>2. SendRR(acked, TRUE).mState \in Established
      BY <2>2, <3>1 DEF Quiet
    <3>3. QED
      BY <2>2, <3>2, ExplainedCases
  <2>5. Explained(AbnormalRelease(acked, TRUE), e)
    <3>1. \A b \in BOOLEAN : Explained(AbnormalRelease(acked, b), e)
      BY <2>2, AbnormalExplained
    <3>2. QED
      BY <3>1, Zenon
  <2>6. Explained(HandleRR(open, f), e)
    BY <2>3, <2>4, Zenon DEF HandleRR, acked
  <2>7. Explained(HandleREJ(open, f), e)
    BY <2>3, <2>4, <2>5, Zenon DEF HandleREJ, acked
  <2>8. QED
    BY <1>3, <1>4, <1>5, <2>6, <2>7, Zenon DEF ReceiveSFrame, open
<1>7. CASE open.mState # "LinkEstablished"
  BY <1>3, <1>4, <1>5, <1>7, Zenon DEF ReceiveSFrame, open
<1>8. QED
  BY <1>6, <1>7

LEMMA ReceiveFrameExplained ==
  ASSUME NEW e, HasLink(e), e.up = <<>>, NEW f \in PeerFrames
  PROVE  Explained(ReceiveFrame(e, f), e)
<1>1. f.kind \in {"I"} \cup SKinds \cup UKinds
  BY PeerFrameTypes DEF FrameKinds
<1>2. Explained(e, e)
  BY QuietExplained DEF Quiet
<1>3. f.kind \in UKinds => Explained(ReceiveUFrame(e, f), e)
  BY HandleSABMEExplained, HandleUAExplained, HandleDISCExplained
     DEF ReceiveUFrame, UKinds
<1>4. Explained(ReceiveIFrame(e, f), e) /\ Explained(ReceiveSFrame(e, f), e)
  BY ReceiveIFrameExplained, ReceiveSFrameExplained
<1>5. CASE f.sapi # e.mSapi
  BY <1>2, <1>5 DEF ReceiveFrame
<1>6. CASE f.sapi = e.mSapi /\ f.kind = "I"
  BY <1>4, <1>6 DEF ReceiveFrame, SKinds, UKinds
<1>7. CASE f.sapi = e.mSapi /\ f.kind \in SKinds
  BY <1>4, <1>7 DEF ReceiveFrame, SKinds, UKinds
<1>8. CASE f.sapi = e.mSapi /\ f.kind \in UKinds
  BY <1>3, <1>8 DEF ReceiveFrame, SKinds, UKinds
<1>9. QED
  BY <1>1, <1>5, <1>6, <1>7, <1>8

\* The calls of the user and the timer, the forced releases aside.
LEMMA CallsExplained ==
  ASSUME NEW e, HasLink(e), e.up = <<>>, NEW sapi, NEW data
  PROVE  /\ Explained(SendUI(e, sapi, data), e)
         /\ Explained(SendData(e, data), e)
         /\ Explained(SendSABME(e, data), e)
         /\ Explained(SendDISC(e), e)
         /\ Explained(ExpireT200(e), e)
<1>1. Explained(SendUI(e, sapi, data), e)
  <2>1. \A f : Quiet(SendFrame(e, f), e)
    BY QuietSteps
  <2>2. QED
    BY <2>1, QuietExplained DEF SendUI
<1>2. Explained(SendData(e, data), e)
  <2> DEFINE q == [e EXCEPT !.mTxQueue = Append(@, data)]
  <2>1. Quiet(q, e)
    BY DEF HasLink, Quiet
  <2>2. SendData(e, data) = TrySendNextSegment(q)
    BY DEF SendData
  <2> HIDE DEF q
  <2>3. HasLink(q)
    BY <2>1 DEF Quiet
  <2>4. Quiet(TrySendNextSegment(q), q)
    BY <2>3, QuietSegments
  <2>5. Quiet(TrySendNextSegment(q), e)
    BY <2>1, <2>4 DEF Quiet
  <2>6. QED
    BY <2>2, <2>5, QuietExplained
\* A request that waits for its answer.
<1>3. ASSUME NEW s, NEW kind, NEW f, NEW state \in Awaiting, HasLink(s)
      PROVE  Explained(TransitionTo(SaveForRetransmission(s, kind, f), state), e)
  <2> DEFINE w == SaveForRetransmission(s, kind, f)
             r == TransitionTo(w, state)
  <2>1. HasLink(w)
    <3>1. Quiet(w, s)
      BY <1>3, QuietFrames
    <3>2. QED
      BY <3>1 DEF Quiet
  <2> HIDE DEF w
  <2>2. r.mState = state
    BY <2>1, TransitionStep
  <2> HIDE DEF r
  <2>3. Explained(r, e)
    BY <2>2, ExplainedCases
  <2>4. QED
    BY <2>3 DEF r, w
<1>4. "AwaitingEstablish" \in Awaiting /\ "AwaitingRelease" \in Awaiting
  BY DEF Awaiting
<1>5. Explained(SendSABME(e, data), e)
  <2> DEFINE s == [e EXCEPT !.mPendingInfo = data]
             f == makeSABMEFrame(e.mSapi, e.mCommandBit, data)
  <2>1. HasLink(s)
    BY DEF HasLink
  <2> HIDE DEF s, f
  <2>2. Explained(TransitionTo(SaveForRetransmission(s, "Sabme", f),
                               "AwaitingEstablish"), e)
    BY <1>3, <1>4, <2>1
  <2>3. DeliverL3(e, "L3_ESTABLISH_CONFIRM", <<>>).mState = e.mState
    BY DeliverStep, Zenon
  <2>4. Explained(DeliverL3(e, "L3_ESTABLISH_CONFIRM", <<>>), e)
    BY <2>3, ExplainedCases, Zenon
  <2>5. QED
    BY <2>2, <2>4, Zenon DEF SendSABME, s, f
<1>6. Explained(SendDISC(e), e)
  BY <1>3, <1>4 DEF SendDISC
<1>7. Explained(ExpireT200(e), e)
  <2> DEFINE p == RetransmitPending(e)
             c == [p EXCEPT !.mRC = @ + 1]
             o == [e EXCEPT !.mT200Active = FALSE]
  <2>1. Quiet(p, e)
    BY QuietFrames
  <2>2. ExpireT200(e) \in {StartT200(c), AbnormalRelease(o, FALSE)}
    BY Zenon DEF ExpireT200
  <2> HIDE DEF p
  <2>3. Quiet(c, e) /\ HasLink(o) /\ o.up = <<>>
    BY <2>1 DEF HasLink, Quiet
  <2> HIDE DEF c, o
  <2>4. Explained(StartT200(c), e)
    <3>1. HasLink(c)
      BY <2>3 DEF Quiet
    <3>2. Quiet(StartT200(c), c)
      BY <3>1, QuietSteps
    <3>3. Quiet(StartT200(c), e)
      BY <2>3, <3>2 DEF Quiet
    <3>4. QED
      BY <3>3, QuietExplained
  <2>5. \A b \in BOOLEAN : Explained(AbnormalRelease(o, b), e)
    BY <2>3, AbnormalExplained
  <2>6. Explained(AbnormalRelease(o, FALSE), e)
    BY <2>5, Zenon
  <2>7. QED
    BY <2>2, <2>4, <2>6
<1>8. QED
  BY <1>1, <1>2, <1>5, <1>6, <1>7

\* One event passed up is exactly one announcement.
LEMMA OneTold ==
  ASSUME NEW prims, NEW state, Announces(ent', state, prims)
  PROVE  \E i \in DOMAIN ent'.up : Told(prims) = {i}
<1> PICK x : ent'.up = <<x>> /\ x.prim \in prims
  BY DEF Announces
<1>1. DOMAIN ent'.up = {1} /\ ent'.up[1] = x
  OBVIOUS
<1>2. Told(prims) = {1}
  BY <1>1 DEF Told
<1>3. QED
  BY <1>1, <1>2

\* Layer 3 learns of every change of the link exactly once, for every profile,
\* user and peer: no received frame, expiry or request brings the link down or
\* up without one primitive, and none passes up two; only the user's own
\* hardRelease() and open() are silent (abnormalRelease, handleUA, handleDISC,
\* handleSABME).
THEOREM LinkChangesAreAnnounced == Spec => LinkChangesAnnounced
<1>1. ASSUME IInv, [Next]_vars
      PROVE  [/\ ent.mState \notin Down /\ ent'.mState \in Down =>
                   \/ forced'
                   \/ \E i \in DOMAIN ent'.up : Told(Releases) = {i}
              /\ ent.mState \notin Established /\ ent'.mState \in Established =>
                   \E i \in DOMAIN ent'.up : Told(Establishes) = {i}]_vars
  <2> DEFINE e == Enter(ent)
  <2>1. HasLink(ent)
    BY <1>1 DEF IInv, Consistent, EntityType, HasLink
  <2>2. HasLink(e) /\ e.mState = ent.mState /\ e.up = <<>>
    BY <2>1 DEF Enter, HasLink
  <2> HIDE DEF e
  <2>3. ASSUME Explained(ent', e)
        PROVE  /\ ent.mState \notin Down /\ ent'.mState \in Down =>
                    \E i \in DOMAIN ent'.up : Told(Releases) = {i}
               /\ ent.mState \notin Established /\ ent'.mState \in Established =>
                    \E i \in DOMAIN ent'.up : Told(Establishes) = {i}
    <3>1. /\ ent.mState \notin Down /\ ent'.mState \in Down =>
               Announces(ent', ent'.mState, Releases)
          /\ ent.mState \notin Established /\ ent'.mState \in Established =>
               Announces(ent', ent'.mState, Establishes)
      BY <2>2, <2>3 DEF Explained
    <3>2. QED
      BY <3>1, OneTold
  <2>4. CASE UserHardRelease \/ \E a \in Addresses : OpenLink(a)
    <3>1. ent'.mState = "LinkReleased"
      <4> DEFINE c == ClearCounters(e)
      <4>1. Quiet(c, e)
        BY <2>2, QuietSteps
      <4> HIDE DEF c
      <4>2. HasLink(c)
        BY <4>1 DEF Quiet
      <4>3. \A x : HasLink(x) => TransitionTo(x, "LinkReleased").mState = "LinkReleased"
        BY TransitionStep, Zenon
      <4>4. CASE UserHardRelease
        <5> DEFINE h == [c EXCEPT !.mEstablishmentInProgress = FALSE]
        <5>1. HasLink(h)
          BY <4>2 DEF HasLink
        <5>2. ent' = TransitionTo(h, "LinkReleased")
          BY <4>4 DEF UserHardRelease, HardRelease, c, e
        <5> HIDE DEF h
        <5>3. QED
          BY <4>3, <5>1, <5>2
      <4>5. ASSUME NEW a \in Addresses, OpenLink(a)
            PROVE  ent'.mState = "LinkReleased"
        <5> DEFINE h == [c EXCEPT !.mSapi = a[1], !.mCommandBit = a[2]]
        <5>1. HasLink(h)
          BY <4>2 DEF HasLink
        <5>2. ent' = TransitionTo(h, "LinkReleased")
          BY <4>5 DEF OpenLink, Open, c, e
        <5> HIDE DEF h
        <5>3. QED
          BY <4>3, <5>1, <5>2
      <4>6. QED
        BY <2>4, <4>4, <4>5
    <3>2. ent'.mState \notin Established
      BY <3>1 DEF Established
    <3>3. forced'
      BY <2>4 DEF UserHardRelease, OpenLink
    <3>4. QED
      BY <3>2, <3>3
  <2>5. ASSUME NEW sapi \in {SAPI0, SAPI3}, NEW data \in Infos, UserSendUI(sapi, data)
        PROVE  Explained(ent', e)
    BY <2>2, <2>5, CallsExplained DEF UserSendUI, e
  <2>6. ASSUME NEW data \in Messages, UserSendData(data)
        PROVE  Explained(ent', e)
    BY <2>2, <2>6, CallsExplained DEF UserSendData, e
  <2>7. ASSUME NEW info \in Infos, UserSendSABME(info)
        PROVE  Explained(ent', e)
    BY <2>2, <2>7, CallsExplained DEF UserSendSABME, e
  <2>8. CASE UserSendDISC
    BY <2>2, <2>3, <2>8, CallsExplained DEF UserSendDISC, e
  <2>9. CASE TickT200
    BY <2>2, <2>3, <2>9, CallsExplained DEF TickT200, e
  <2>10. ASSUME NEW f \in PeerFrames, Receive(f)
         PROVE  Explained(ent', e)
    BY <2>2, <2>10, ReceiveFrameExplained DEF Receive, e
  <2>11. CASE UNCHANGED vars
    BY <2>11
  <2>12. QED
    BY <1>1, <2>3, <2>4, <2>5, <2>6, <2>7, <2>8, <2>9, <2>10, <2>11 DEF Next
<1>2. QED
  BY <1>1, Invariance, PTL DEF Spec, LinkChangesAnnounced, Releases, Establishes
=============================================================================
