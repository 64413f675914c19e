----------------------------- MODULE LapdmEntity ----------------------------
(***************************************************************************)
(* class LAPDmEntity (src/lapdm_entity.cpp): one end of a LAPDm link on    *)
(* one SAPI.  The object is a record whose fields keep the names of the    *)
(* C++ members, and every method is an operator from the object to the     *)
(* object it leaves behind.  Two output fields stand for the callbacks of  *)
(* one public call: out collects the frames handed to mL1Callback, up the  *)
(* primitives handed to mL3Callback.  Two history fields record that the   *)
(* call ran clearCounters() (cleared) and that it set T200 to its full     *)
(* length (armed).                                                         *)
(*                                                                         *)
(* T200 is on or off: how many milliseconds remain is left out, so an      *)
(* armed timer may expire at any moment.  The statistics counters are left *)
(* out.  mTxQueue holds the unsent rest of the queued messages, the one    *)
(* being segmented first; the C++ flat buffer with its end offsets keeps   *)
(* already sent octets too, which nothing reads.                           *)
(*                                                                         *)
(* An operator named Fault... is the definition after it with a plausible  *)
(* mistake in it; no specification uses it.  Each shows that a property    *)
(* can fail.                                                               *)
(***************************************************************************)
EXTENDS LapdmFrame

LOCAL INSTANCE Functions

CONSTANTS
  N201,                  \* largest I-frame payload, in octets
  N200,                  \* retransmission limit of the channel profile
  MaxReassemblyBytes     \* kMaxReassemblyBytes, 4096 in the code

ASSUME ProfileAssumption ==
  /\ N201 \in Nat \ {0}
  /\ N200 \in Nat
  /\ MaxReassemblyBytes \in Nat

LAPDmState == {"Unused", "LinkReleased", "AwaitingEstablish", "AwaitingRelease",
               "LinkEstablished", "ContentionResolution"}

PendingKind == {"None", "IFrame", "Sabme", "Disc"}

Primitive == {"L3_DATA", "L3_UNIT_DATA", "L3_ESTABLISH_INDICATION",
              "L3_ESTABLISH_CONFIRM", "L3_RELEASE_CONFIRM",
              "L3_RELEASE_INDICATION", "MDL_ERROR_INDICATION"}

Established == {"LinkEstablished", "ContentionResolution"}
Awaiting    == {"AwaitingEstablish", "AwaitingRelease"}
Down        == {"Unused", "LinkReleased"}

\* A constructed entity, before open().
NewEntity ==
  [mState |-> "Unused", mSapi |-> SAPI0, mCommandBit |-> TRUE,
   mEstablishmentInProgress |-> FALSE, mVS |-> 0, mVA |-> 0, mVR |-> 0,
   mPending |-> "None", mPendingNs |-> 0, mPendingMore |-> FALSE,
   mPendingInfo |-> <<>>, mRC |-> 0, mT200Active |-> FALSE,
   mReassemblyBuffer |-> <<>>, mTxQueue |-> <<>>, mContentionChecksum |-> 0,
   out |-> <<>>, up |-> <<>>, cleared |-> FALSE, armed |-> FALSE]

\* The outputs of the previous call are gone when the next one starts.
Enter(e) ==
  [e EXCEPT !.out = <<>>, !.up = <<>>, !.cleared = FALSE, !.armed = FALSE]

-----------------------------------------------------------------------------
(* Internal helpers                                                        *)

SendFrame(e, f) == [e EXCEPT !.out = Append(@, f)]

DeliverL3(e, prim, data) ==
  [e EXCEPT !.up = Append(@, [prim |-> prim, data |-> data])]

TransitionTo(e, state) == [e EXCEPT !.mState = state]

\* mT200Active = true; mT200RemainingMs = mProfile.t200Ms.
StartT200(e) == [e EXCEPT !.mT200Active = TRUE, !.armed = TRUE]

\* computeChecksum(): the octets added up.  The length field is six bits wide,
\* so the sum stays far below the range of the uint32_t that holds it.
ComputeChecksum(info) == FoldFunction(+, 0, info)

FaultKeepsPending(e) ==
  [e EXCEPT !.mVS = 0, !.mVA = 0, !.mVR = 0, !.mRC = 0, !.mT200Active = FALSE,
            !.mReassemblyBuffer = <<>>, !.mTxQueue = <<>>, !.cleared = TRUE]

ClearCounters(e) ==
  [e EXCEPT !.mVS = 0, !.mVA = 0, !.mVR = 0, !.mRC = 0, !.mT200Active = FALSE,
            !.mReassemblyBuffer = <<>>, !.mTxQueue = <<>>,
            !.mPending = "None", !.mPendingInfo = <<>>, !.cleared = TRUE]

SaveForRetransmission(e, kind, f) ==
  StartT200(SendFrame([e EXCEPT !.mPending = kind, !.mRC = 0], f))

\* The outstanding frame, rebuilt: an I-frame polls and carries today's V(R).
RetransmitPending(e) ==
  CASE e.mPending = "IFrame" ->
         SendFrame(e, makeIFrame(e.mSapi, e.mCommandBit, e.mVR, e.mPendingNs,
                                 TRUE, e.mPendingMore, e.mPendingInfo))
    [] e.mPending = "Sabme"  ->
         SendFrame(e, makeSABMEFrame(e.mSapi, e.mCommandBit, e.mPendingInfo))
    [] e.mPending = "Disc"   ->
         SendFrame(e, makeDISCFrame(e.mSapi, e.mCommandBit))
    [] OTHER -> e

SendUA(e, pf, info) == SendFrame(e, makeUAFrame(e.mSapi, pf, info))
SendDM(e, pf)       == SendFrame(e, makeDMFrame(e.mSapi, pf))
SendRR(e, pf)       == SendFrame(e, makeRRFrame(e.mSapi, e.mVR, pf))
SendREJ(e, pf)      == SendFrame(e, makeREJFrame(e.mSapi, e.mVR, pf))

FaultQuietRelease(e, sendDM) ==
  LET told == IF sendDM THEN SendDM(e, TRUE) ELSE e
  IN  TransitionTo([ClearCounters(told) EXCEPT !.mEstablishmentInProgress = FALSE],
                   IF sendDM THEN "Unused" ELSE "LinkReleased")


AbnormalRelease(e, sendDM) ==
  LET told    == IF sendDM THEN SendDM(e, TRUE) ELSE e
      cleared == [ClearCounters(told) EXCEPT !.mEstablishmentInProgress = FALSE]
  IN  DeliverL3(TransitionTo(cleared, IF sendDM THEN "Unused" ELSE "LinkReleased"),
                "MDL_ERROR_INDICATION", <<>>)

BuildIFrame(e, payload, more) ==
  SaveForRetransmission(
    [e EXCEPT !.mVS = SeqInc(@), !.mPendingNs = e.mVS,
              !.mPendingMore = more, !.mPendingInfo = payload],
    "IFrame",
    makeIFrame(e.mSapi, e.mCommandBit, e.mVR, e.mVS, FALSE, more, payload))

\* k = 1: the next segment goes out only when nothing is unacknowledged.
TrySendNextSegment(e) ==
  IF e.mVS # e.mVA \/ e.mTxQueue = <<>>
  THEN e
  ELSE LET msg  == Head(e.mTxQueue)
           more == Len(msg) > N201
       IN  IF more
           THEN BuildIFrame([e EXCEPT !.mTxQueue[1] = SubSeq(msg, N201 + 1, Len(msg))],
                            SubSeq(msg, 1, N201), TRUE)
           ELSE BuildIFrame([e EXCEPT !.mTxQueue = Tail(@)], msg, FALSE)

FaultAckStopsTimer(e, nr) ==
  LET acked == [e EXCEPT !.mVA = nr, !.mT200Active = FALSE]
  IN  IF nr = e.mVS THEN TrySendNextSegment([acked EXCEPT !.mRC = 0]) ELSE acked

\* Any N(R) is taken over into V(A).
ProcessAck(e, nr) ==
  LET acked == [e EXCEPT !.mVA = nr]
  IN  IF nr = e.mVS
      THEN TrySendNextSegment([acked EXCEPT !.mRC = 0, !.mT200Active = FALSE])
      ELSE acked

-----------------------------------------------------------------------------
(* Public operations.  The guards (Can...) are the calls that do not       *)
(* return an error.                                                        *)

Open(e, sapi, commandBit) ==
  TransitionTo([ClearCounters(e) EXCEPT !.mSapi = sapi, !.mCommandBit = commandBit],
               "LinkReleased")

SendUI(e, sapi, data) == SendFrame(e, makeUIFrame(sapi, e.mCommandBit, data))

CanSendData(e, data) == e.mState \in Established /\ data # <<>>
SendData(e, data) == TrySendNextSegment([e EXCEPT !.mTxQueue = Append(@, data)])

\* On an established link the request is confirmed without a frame.
CanSendSABME(e) == e.mState \in Established \cup {"LinkReleased"}
SendSABME(e, info) ==
  IF e.mState \in Established
  THEN DeliverL3(e, "L3_ESTABLISH_CONFIRM", <<>>)
  ELSE TransitionTo(
         SaveForRetransmission([e EXCEPT !.mPendingInfo = info], "Sabme",
                               makeSABMEFrame(e.mSapi, e.mCommandBit, info)),
         "AwaitingEstablish")

FaultUntimedDISC(e) ==
  TransitionTo([SendFrame(e, makeDISCFrame(e.mSapi, e.mCommandBit)) EXCEPT
                  !.mPending = "Disc", !.mRC = 0], "AwaitingRelease")

CanSendDISC(e) == e.mState \in Established
SendDISC(e) ==
  TransitionTo(SaveForRetransmission(e, "Disc", makeDISCFrame(e.mSapi, e.mCommandBit)),
               "AwaitingRelease")

FaultKeepsCounters(e) ==
  TransitionTo([e EXCEPT !.mEstablishmentInProgress = FALSE], "LinkReleased")

HardRelease(e) ==
  TransitionTo([ClearCounters(e) EXCEPT !.mEstablishmentInProgress = FALSE],
               "LinkReleased")

FaultNoRestart(e) ==
  IF e.mRC <= N200
  THEN [RetransmitPending(e) EXCEPT !.mRC = @ + 1, !.mT200Active = FALSE]
  ELSE AbnormalRelease([e EXCEPT !.mT200Active = FALSE], FALSE)

\* tickT200() at the moment the timer runs out.
CanExpireT200(e) == e.mT200Active
ExpireT200(e) ==
  IF e.mRC <= N200
  THEN StartT200([RetransmitPending(e) EXCEPT !.mRC = @ + 1])
  ELSE AbnormalRelease([e EXCEPT !.mT200Active = FALSE], FALSE)

-----------------------------------------------------------------------------
(* Frame handlers.  Every handler runs after receiveFrame() has decoded    *)
(* the frame and dropped it if it is for another SAPI.                     *)

Ends(e, state, prim) == DeliverL3(TransitionTo(ClearCounters(e), state), prim, <<>>)

\* The first SABME of a link: LinkReleased accepts, with or without a payload
\* for contention resolution.
AcceptSABME(e, f) ==
  LET told == DeliverL3([ClearCounters(e) EXCEPT !.mEstablishmentInProgress = TRUE],
                        "L3_ESTABLISH_INDICATION", f.info)
      answered == SendUA(told, f.pf, f.info)
  IN  IF HasInfo(f)
      THEN TransitionTo([answered EXCEPT !.mContentionChecksum = ComputeChecksum(f.info)],
                        IF e.mSapi = SAPI0 THEN "ContentionResolution"
                                           ELSE "LinkEstablished")
      ELSE TransitionTo(answered, "LinkEstablished")

\* A SABME on an established link: late copy, protocol error or re-establishment.
RepeatSABME(e, f) ==
  CASE e.mEstablishmentInProgress -> SendUA(e, f.pf, f.info)
    [] ~e.mEstablishmentInProgress /\ HasInfo(f) -> AbnormalRelease(e, TRUE)
    [] OTHER -> ClearCounters(SendUA(e, f.pf, <<>>))

ResolveContention(e, f) ==
  IF HasInfo(f) /\ ComputeChecksum(f.info) = e.mContentionChecksum
  THEN TransitionTo(SendUA(e, f.pf, f.info), "LinkEstablished")
  ELSE e

HandleSABME(e, f) ==
  CASE ~f.pf -> e
    [] f.pf /\ e.mState = "LinkReleased"         -> AcceptSABME(e, f)
    [] f.pf /\ e.mState = "AwaitingEstablish"    -> SendUA(e, f.pf, <<>>)
    [] f.pf /\ e.mState = "AwaitingRelease"      -> SendDM(e, f.pf)
    [] f.pf /\ e.mState = "LinkEstablished"      -> RepeatSABME(e, f)
    [] f.pf /\ e.mState = "ContentionResolution" -> ResolveContention(e, f)
    [] OTHER -> e

HandleUA(e, f) ==
  CASE f.pf /\ e.mState = "AwaitingEstablish" ->
         Ends(e, "LinkEstablished", "L3_ESTABLISH_CONFIRM")
    [] f.pf /\ e.mState = "AwaitingRelease" ->
         Ends(e, "LinkReleased", "L3_RELEASE_CONFIRM")
    [] OTHER -> e

HandleDM(e, f) ==
  CASE f.pf /\ e.mState = "AwaitingRelease" ->
         Ends(e, "LinkReleased", "L3_RELEASE_CONFIRM")
    [] f.pf /\ e.mState \in Established \cup {"AwaitingEstablish"} ->
         DeliverL3(StartT200(e), "L3_RELEASE_INDICATION", <<>>)
    [] OTHER -> e

HandleDISC(e, f) ==
  LET over == [e EXCEPT !.mEstablishmentInProgress = FALSE]
  IN  CASE e.mState = "LinkReleased" -> SendDM(over, f.pf)
        [] e.mState = "AwaitingEstablish" ->
             Ends(over, "LinkReleased", "L3_RELEASE_INDICATION")
        [] e.mState = "AwaitingRelease" ->
             Ends(SendUA(over, f.pf, <<>>), "LinkReleased", "L3_RELEASE_CONFIRM")
        [] e.mState \in Established ->
             Ends(SendUA(over, f.pf, <<>>), "LinkReleased", "L3_RELEASE_INDICATION")
        [] OTHER -> over

HandleUI(e, f) == DeliverL3(e, "L3_UNIT_DATA", f.info)

\* Any I- or S-frame closes the establishment window and the contention phase.
LeaveContention(e) ==
  [e EXCEPT !.mEstablishmentInProgress = FALSE,
            !.mState = IF @ = "ContentionResolution" THEN "LinkEstablished" ELSE @]

FaultKeepsBuffer(e, f) ==
  LET next == [e EXCEPT !.mVR = SeqInc(@), !.mReassemblyBuffer = @ \o f.info]
  IN  SendRR(IF f.more THEN next ELSE DeliverL3(next, "L3_DATA", next.mReassemblyBuffer),
             f.pf)

FaultUnlimitedReassembly(e, f) ==
  LET buffer == e.mReassemblyBuffer \o f.info
      next   == [e EXCEPT !.mVR = SeqInc(@)]
  IN  IF Len(f.info) > N201
      THEN AbnormalRelease(next, FALSE)
      ELSE IF f.more
           THEN SendRR([next EXCEPT !.mReassemblyBuffer = buffer], f.pf)
           ELSE SendRR(DeliverL3([next EXCEPT !.mReassemblyBuffer = <<>>],
                                 "L3_DATA", buffer), f.pf)

\* The in-sequence I-frame: reassemble, deliver on M = 0, acknowledge.
AcceptIFrame(e, f) ==
  LET buffer == e.mReassemblyBuffer \o f.info
      next   == [e EXCEPT !.mVR = SeqInc(@)]
  IN  IF Len(f.info) > N201 \/ Len(buffer) > MaxReassemblyBytes
      THEN AbnormalRelease(next, FALSE)
      ELSE IF f.more
           THEN SendRR([next EXCEPT !.mReassemblyBuffer = buffer], f.pf)
           ELSE SendRR(DeliverL3([next EXCEPT !.mReassemblyBuffer = <<>>],
                                 "L3_DATA", buffer), f.pf)


ReceiveIFrame(e, f) ==
  LET open  == LeaveContention(e)
      acked == ProcessAck(open, f.nr)
  IN  CASE open.mState # "LinkEstablished" -> open
        [] open.mState = "LinkEstablished" /\ f.ns # acked.mVR -> SendREJ(acked, f.pf)
        [] OTHER -> AcceptIFrame(acked, f)

HandleRR(e, f) ==
  LET acked == ProcessAck(e, f.nr)
  IN  IF f.pf /\ f.command THEN SendRR(acked, TRUE) ELSE acked

HandleREJ(e, f) ==
  LET acked == ProcessAck(e, f.nr)
  IN  CASE f.pf /\ f.command  -> AbnormalRelease(acked, TRUE)
        [] f.pf /\ ~f.command -> SendRR(acked, TRUE)
        [] OTHER -> acked

\* RNR releases whatever the state; the undefined S code only ends the window.
ReceiveSFrame(e, f) ==
  LET over == [e EXCEPT !.mEstablishmentInProgress = FALSE]
      open == LeaveContention(e)
  IN  CASE f.kind = "RNR" -> AbnormalRelease(over, TRUE)
        [] f.kind \in {"RR", "REJ"} /\ open.mState # "LinkEstablished" -> open
        [] f.kind = "RR" /\ open.mState = "LinkEstablished"  -> HandleRR(open, f)
        [] f.kind = "REJ" /\ open.mState = "LinkEstablished" -> HandleREJ(open, f)
        [] OTHER -> over

ReceiveUFrame(e, f) ==
  CASE f.kind = "SABME" -> HandleSABME(e, f)
    [] f.kind = "UA"    -> HandleUA(e, f)
    [] f.kind = "DM"    -> HandleDM(e, f)
    [] f.kind = "DISC"  -> HandleDISC(e, f)
    [] f.kind = "UI"    -> HandleUI(e, f)

ReceiveFrame(e, f) ==
  CASE f.sapi # e.mSapi                     -> e
    [] f.sapi = e.mSapi /\ f.kind = "I"     -> ReceiveIFrame(e, f)
    [] f.sapi = e.mSapi /\ f.kind \in SKinds -> ReceiveSFrame(e, f)
    [] f.sapi = e.mSapi /\ f.kind \in UKinds -> ReceiveUFrame(e, f)
=============================================================================
