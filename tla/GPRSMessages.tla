----------------------------- MODULE GPRSMessages ------------------------------
(***************************************************************************)
(* The GPRS mobility management messages (gmm/l3gmmmessages.h, .cpp) and   *)
(* session management messages (sm/l3smmessages.h, .cpp) with their        *)
(* elements (gmm/l3gmmelements.h, .cpp, sm/l3smelements.h, .cpp), in the   *)
(* notation of RRMessages.                                                 *)
(***************************************************************************)
EXTENDS CommonElements

\* ---- mobility management: elements ----
GprsTimerValue == [units |-> Bits(3), value |-> Bits(5)]
GprsTimerValueCodec == Both(<< U("units", 3), U("value", 5) >>, << N(1) >>)

L3PDPContextStatus == [mValue |-> Vector(2, 2)]
L3PDPContextStatusCodec == Both(<< Octets("mValue", 2) >>, << N(2) >>)

L3MSNetworkCapability == [mValue |-> Vector(0, 3)]
L3MSNetworkCapabilityCodec == Both(<< ToLength("mValue") >>, << Size("mValue", 0) >>)

L3RoutingAreaIdentification == L3LocationAreaIdentity @@ [mRAC |-> Bits(8)]
L3RoutingAreaIdentificationCodec ==
    Both(<< U("mMCC1", 4), U("mMCC0", 4), U("mMNC2", 4), U("mMCC2", 4), U("mMNC1", 4), U("mMNC0", 4),
            U("mLAC", 16), U("mRAC", 8) >>, << N(6) >>)

L3DRXParameter ==
    [mSplitPGCycleCode |-> Bits(8), mNonDRXTimer |-> Bits(3), mSplitOnCCCH |-> Bits(1),
     mCNSpecificDRXCycleLength |-> Bits(4)]
L3DRXParameterCodec ==
    Both(<< U("mSplitPGCycleCode", 8), U("mNonDRXTimer", 3), U("mSplitOnCCCH", 1),
            U("mCNSpecificDRXCycleLength", 4) >>, << N(2) >>)

L3AuthRAND == [mValue |-> Vector(16, 16)]
L3AuthRANDCodec == Both(<< Octets("mValue", 16) >>, << N(16) >>)
L3AuthRES == [mValue |-> Vector(4, 4)]
L3AuthRESCodec == Both(<< Octets("mValue", 4) >>, << N(4) >>)
\* The element writes its own length octet.
L3AuthFailureParam == Vector(0, 14)
L3AuthFailureParamItem(n) == LVOctets(n)

\* ---- parts that several messages have ----
RAIItem(n) == V(n, L3RoutingAreaIdentificationCodec)
TimerItem(n) == V(n, GprsTimerValueCodec)
PtmsiSignatureItems == << Const(\h19, 8), Octets("mPtmsiSignature", 3) >>
ReadyTimerItems == << Const(\h17, 8), Octets("mReadyTimer", 2) >>
PTMSIItems == << Const(\h18, 8), MobileIdentityLV("mPTMSI") >>
PTMSILength == OptLenV("mPTMSI", L3MobileIdentityCodec, 2)
PdpStatusIEI == \h32
PdpStatusItems == << Const(PdpStatusIEI, 8), Exact(2, 8), Octets("mPdpContextStatus", 2) >>

\* ---- messages ----
L3AttachRequest ==
    Msg(\h01, [mMsNetworkCapability |-> Elt(L3MSNetworkCapability), mAttachType |-> Bits(3), mForL3 |-> Bits(1),
               mCKSN |-> Bits(3), mDRXParam |-> Elt(L3DRXParameter), mMobileIdentity |-> Identity,
               mOldRAI |-> Elt(L3RoutingAreaIdentification), mMsRACap |-> Vector(0, 5), mAdditionalIes |-> Trailing])
L3AttachRequestCodec ==
    Both(<< LV("mMsNetworkCapability", L3MSNetworkCapabilityCodec), Spare(1), U("mCKSN", 3), U("mForL3", 1),
            U("mAttachType", 3), V("mDRXParam", L3DRXParameterCodec), MobileIdentityLV("mMobileIdentity"),
            RAIItem("mOldRAI"), LVOctets("mMsRACap"), Trailer >>,
         << N(1), LenV("mMsNetworkCapability", L3MSNetworkCapabilityCodec), N(1), N(2), N(1),
            LenV("mMobileIdentity", L3MobileIdentityCodec), N(6), N(1), Size("mMsRACap", 0), TrailerSize >>)

L3AttachAccept ==
    Msg(\h02, [mAttachResult |-> Bits(4), mForceToStandby |-> Bits(1), mRaUpdateTimer |-> Elt(GprsTimerValue),
               mRadioPrioritySms |-> Bits(4), mRadioPriorityTom8 |-> Bits(4),
               mRAI |-> Elt(L3RoutingAreaIdentification), mPtmsiSignature |-> Maybe(Vector(3, 3)),
               mReadyTimer |-> Maybe(Vector(2, 2)), mPTMSI |-> Maybe(Identity), mAdditionalIes |-> Trailing])
L3AttachAcceptCodec ==
    LET head == << Spare(3), U("mForceToStandby", 1), U("mAttachResult", 4), TimerItem("mRaUpdateTimer"),
                   U("mRadioPrioritySms", 4), U("mRadioPriorityTom8", 4), RAIItem("mRAI") >>
    IN  Codec(head \o << Loop(<< OnceCase(127, \h19, "mPtmsiSignature", PtmsiSignatureItems),
                                 OnceCase(127, \h17, "mReadyTimer", ReadyTimerItems),
                                 OnceCase(127, \h18, "mPTMSI", PTMSIItems) >>, "break", ""), Trailer >>,
              head \o << Opt("mPtmsiSignature", PtmsiSignatureItems), Opt("mReadyTimer", ReadyTimerItems),
                         Opt("mPTMSI", PTMSIItems), Trailer >>,
              << N(3), N(6), Has("mPtmsiSignature", 4), Has("mReadyTimer", 3), PTMSILength, TrailerSize >>)

L3AttachComplete == Msg(\h03, TrailerMembers)
L3AttachCompleteCodec == TrailerBody
L3AttachReject == Msg(\h04, CauseAndTrailer)
L3AttachRejectCodec == CauseAndTrailerBody

L3DetachRequest ==
    Msg(\h05, [mDetachType |-> Bits(3), mPowerOff |-> Bits(1), mForceToStandby |-> Bits(1),
               mPTMSI |-> Maybe(Identity), mCause |-> Maybe(Bits(8)), mAdditionalIes |-> Trailing])
L3DetachRequestCodec ==
    LET head == << Spare(3), U("mForceToStandby", 1), U("mPowerOff", 1), U("mDetachType", 3) >>
        cause == << Const(\h25, 8), U("mCause", 8) >>
    IN  Codec(head \o << Loop(<< Case(127, \h18, "mPTMSI", PTMSIItems), Case(127, \h25, "mCause", cause) >>,
                              "break", ""), Trailer >>,
              head \o << Opt("mPTMSI", PTMSIItems), Opt("mCause", cause), Trailer >>,
              << N(1), PTMSILength, Has("mCause", 2), TrailerSize >>)

L3DetachAccept == Msg(\h06, [mForceToStandby |-> Bits(1)])
L3DetachAcceptCodec == Both(<< Spare(7), U("mForceToStandby", 1) >>, << N(1) >>)

L3RoutingAreaUpdateRequest ==
    Msg(\h08, [mUpdateType |-> Bits(3), mForL3 |-> Bits(1), mCKSN |-> Bits(3),
               mOldRAI |-> Elt(L3RoutingAreaIdentification), mMsRACap |-> Vector(0, 5), mAdditionalIes |-> Trailing])
L3RoutingAreaUpdateRequestCodec ==
    Both(<< Spare(1), U("mCKSN", 3), U("mForL3", 1), U("mUpdateType", 3), RAIItem("mOldRAI"),
            LVOctets("mMsRACap"), Trailer >>,
         << N(1), N(6), N(1), Size("mMsRACap", 0), TrailerSize >>)

\* A PDP context status of another length than two octets is an error here.
L3RoutingAreaUpdateAccept ==
    Msg(\h09, [mForceToStandby |-> Bits(1), mUpdateResult |-> Bits(3), mRaUpdateTimer |-> Elt(GprsTimerValue),
               mRAI |-> Elt(L3RoutingAreaIdentification), mPtmsiSignature |-> Maybe(Vector(3, 3)),
               mPTMSI |-> Maybe(Identity), mReadyTimer |-> Maybe(Vector(2, 2)),
               mPdpContextStatus |-> Maybe(Vector(2, 2)), mAdditionalIes |-> Trailing])
L3RoutingAreaUpdateAcceptCodec ==
    LET head == << Spare(4), U("mUpdateResult", 3), U("mForceToStandby", 1), TimerItem("mRaUpdateTimer"),
                   RAIItem("mRAI") >>
    IN  Codec(head \o << Loop(<< OnceCase(127, \h19, "mPtmsiSignature", PtmsiSignatureItems),
                                 OnceCase(127, \h18, "mPTMSI", PTMSIItems),
                                 OnceCase(127, \h17, "mReadyTimer", ReadyTimerItems),
                                 OnceCase(127, PdpStatusIEI, "mPdpContextStatus", PdpStatusItems) >>, "break", ""),
                         Trailer >>,
              head \o << Opt("mPtmsiSignature", PtmsiSignatureItems), Opt("mPTMSI", PTMSIItems),
                         Opt("mReadyTimer", ReadyTimerItems), Opt("mPdpContextStatus", PdpStatusItems), Trailer >>,
              << N(2), N(6), Has("mPtmsiSignature", 4), PTMSILength, Has("mReadyTimer", 3),
                 Has("mPdpContextStatus", 4), TrailerSize >>)

L3RoutingAreaUpdateComplete == Msg(\h0A, TrailerMembers)
L3RoutingAreaUpdateCompleteCodec == TrailerBody

L3RoutingAreaUpdateReject ==
    Msg(\h0B, [mCause |-> Bits(8), mForceToStandby |-> Bits(1), mAdditionalIes |-> Trailing])
L3RoutingAreaUpdateRejectCodec ==
    Both(<< U("mCause", 8), Spare(7), U("mForceToStandby", 1), Trailer >>, << N(2), TrailerSize >>)

L3ServiceRequest ==
    Msg(\h0C, [mCKSN |-> Bits(3), mServiceType |-> Bits(3), mPTMSI |-> Identity, mAdditionalIes |-> Trailing])
L3ServiceRequestCodec ==
    Both(<< Spare(1), U("mServiceType", 3), Spare(1), U("mCKSN", 3), MobileIdentityLV("mPTMSI"), Trailer >>,
         << N(1), N(1), LenV("mPTMSI", L3MobileIdentityCodec), TrailerSize >>)

\* A PDP context status of another length is kept with the trailing elements.
L3ServiceAccept ==
    Msg(\h0D, [mPdpContextStatus |-> Maybe(Elt(L3PDPContextStatus)), mAdditionalIes |-> Trailing])
L3ServiceAcceptCodec ==
    Both(<< TagOfLength(PdpStatusIEI, 2, "mPdpContextStatus",
                << Const(PdpStatusIEI, 8), Const(2, 8), V("mPdpContextStatus", L3PDPContextStatusCodec) >>), Trailer >>,
         << OptLenV("mPdpContextStatus", L3PDPContextStatusCodec, 2), TrailerSize >>)

L3ServiceReject == Msg(\h0E, CauseAndTrailer)
L3ServiceRejectCodec == CauseAndTrailerBody

\* The identity must be a TMSI.
L3P_TMSIReallocationCommand ==
    Msg(\h10, [mPTMSI |-> Elt([mType |-> Pick(<< 4, 4, 4, 4 >>), mTMSI |-> Bits(32)]),
               mRAI |-> Elt(L3RoutingAreaIdentification), mForceToStandby |-> Bits(1),
               mPtmsiSignature |-> Maybe(Vector(3, 3)), mAdditionalIes |-> Trailing])
L3P_TMSIReallocationCommandCodec ==
    LET tail == << RAIItem("mRAI"), Spare(7), U("mForceToStandby", 1),
                   Tag(127, \h19, "mPtmsiSignature", PtmsiSignatureItems), Trailer >>
    IN  Codec(<< MobileIdentityLV("mPTMSI"), IfIn("mPTMSI", "mType", (0..7) \ {4}, << Reject("InvalidValue") >>) >> \o tail,
              << MobileIdentityLV("mPTMSI") >> \o tail,
              << N(1), LenV("mPTMSI", L3MobileIdentityCodec), N(6), N(1), Has("mPtmsiSignature", 4), TrailerSize >>)

L3P_TMSIReallocationComplete == Msg(\h11, TrailerMembers)
L3P_TMSIReallocationCompleteCodec == TrailerBody

L3AuthenticationAndCipheringRequest ==
    Msg(\h12, [mCipheringAlgorithm |-> Bits(3), mImeisvRequest |-> Bits(1), mForceToStandby |-> Bits(1),
               mACReferenceNumber |-> Bits(4), mRAND |-> Elt(L3AuthRAND), mAdditionalIes |-> Trailing])
L3AuthenticationAndCipheringRequestCodec ==
    Both(<< Spare(2), U("mForceToStandby", 1), U("mImeisvRequest", 1), Spare(1), U("mCipheringAlgorithm", 3),
            Spare(4), U("mACReferenceNumber", 4), IEI7IE(\h21), V("mRAND", L3AuthRANDCodec), Trailer >>,
         << N(2), N(17), TrailerSize >>)

L3AuthenticationAndCipheringResponse ==
    Msg(\h13, [mACReferenceNumber |-> Bits(4), mRES |-> Elt(L3AuthRES), mImeisv |-> Maybe(Identity),
               mAdditionalIes |-> Trailing])
L3AuthenticationAndCipheringResponseCodec ==
    Both(<< Spare(4), U("mACReferenceNumber", 4), IEI7IE(\h22), V("mRES", L3AuthRESCodec),
            Tag(127, \h23, "mImeisv", << Const(\h23, 8), MobileIdentityLV("mImeisv") >>), Trailer >>,
         << N(1), N(5), OptLenV("mImeisv", L3MobileIdentityCodec, 2), TrailerSize >>)

L3AuthenticationAndCipheringReject == Msg(\h14, TrailerMembers)
L3AuthenticationAndCipheringRejectCodec == TrailerBody

L3GMMIdentityRequest == Msg(\h15, [mIdentityType |-> Bits(3), mForceToStandby |-> Bits(1)])
L3GMMIdentityRequestCodec ==
    Both(<< Spare(3), U("mForceToStandby", 1), Exact(0, 1), U("mIdentityType", 3) >>, << N(1) >>)

L3GMMIdentityResponse == Msg(\h16, [mMobileIdentity |-> Identity])
L3GMMIdentityResponseCodec ==
    Both(<< MobileIdentityLV("mMobileIdentity") >>, << N(1), LenV("mMobileIdentity", L3MobileIdentityCodec) >>)

\* The failure parameter is always written, and may be missing when it is read.
L3AuthenticationAndCipheringFailure ==
    Msg(\h1C, [mCause |-> Bits(8), mAuthFailureParam |-> L3AuthFailureParam, mAdditionalIes |-> Trailing])
L3AuthenticationAndCipheringFailureCodec ==
    LET param == << Const(\h30, 8), L3AuthFailureParamItem("mAuthFailureParam") >>
    IN  Codec(<< U("mCause", 8), Tag(127, \h30, "", param), Trailer >>, << U("mCause", 8) >> \o param \o << Trailer >>,
              << N(1), N(2), Size("mAuthFailureParam", 0), TrailerSize >>)

L3GMMStatus == Msg(\h20, CauseMembers)
L3GMMStatusCodec == CauseBody
L3GMMInformation == Msg(\h21, TrailerMembers)
L3GMMInformationCodec == TrailerBody

\* The variant of the family: its alternatives in the order of the declaration.
GMM == <<
    Alternative("L3AttachRequest", L3AttachRequest, L3AttachRequestCodec),
    Alternative("L3AttachAccept", L3AttachAccept, L3AttachAcceptCodec),
    Alternative("L3AttachComplete", L3AttachComplete, L3AttachCompleteCodec),
    Alternative("L3AttachReject", L3AttachReject, L3AttachRejectCodec),
    Alternative("L3DetachRequest", L3DetachRequest, L3DetachRequestCodec),
    Alternative("L3DetachAccept", L3DetachAccept, L3DetachAcceptCodec),
    Alternative("L3RoutingAreaUpdateRequest", L3RoutingAreaUpdateRequest, L3RoutingAreaUpdateRequestCodec),
    Alternative("L3RoutingAreaUpdateAccept", L3RoutingAreaUpdateAccept, L3RoutingAreaUpdateAcceptCodec),
    Alternative("L3RoutingAreaUpdateComplete", L3RoutingAreaUpdateComplete, L3RoutingAreaUpdateCompleteCodec),
    Alternative("L3RoutingAreaUpdateReject", L3RoutingAreaUpdateReject, L3RoutingAreaUpdateRejectCodec),
    Alternative("L3ServiceRequest", L3ServiceRequest, L3ServiceRequestCodec),
    Alternative("L3ServiceAccept", L3ServiceAccept, L3ServiceAcceptCodec),
    Alternative("L3ServiceReject", L3ServiceReject, L3ServiceRejectCodec),
    Alternative("L3P_TMSIReallocationCommand", L3P_TMSIReallocationCommand, L3P_TMSIReallocationCommandCodec),
    Alternative("L3P_TMSIReallocationComplete", L3P_TMSIReallocationComplete, L3P_TMSIReallocationCompleteCodec),
    Alternative("L3AuthenticationAndCipheringRequest", L3AuthenticationAndCipheringRequest, L3AuthenticationAndCipheringRequestCodec),
    Alternative("L3AuthenticationAndCipheringResponse", L3AuthenticationAndCipheringResponse, L3AuthenticationAndCipheringResponseCodec),
    Alternative("L3AuthenticationAndCipheringReject", L3AuthenticationAndCipheringReject, L3AuthenticationAndCipheringRejectCodec),
    Alternative("L3GMMIdentityRequest", L3GMMIdentityRequest, L3GMMIdentityRequestCodec),
    Alternative("L3GMMIdentityResponse", L3GMMIdentityResponse, L3GMMIdentityResponseCodec),
    Alternative("L3AuthenticationAndCipheringFailure", L3AuthenticationAndCipheringFailure, L3AuthenticationAndCipheringFailureCodec),
    Alternative("L3GMMStatus", L3GMMStatus, L3GMMStatusCodec),
    Alternative("L3GMMInformation", L3GMMInformation, L3GMMInformationCodec) >>

\* ---- session management: elements ----
\* IPv4 (\h21) or IPv6 (\h53); without octets the address is assigned dynamically.
L3PDPAddress ==
    [mTypeOrg |-> Pick(<< 1, 1, 1, 1 >>), mTypeNumber |-> Pick(<< \h21, \h53, \h21, \h53 >>),
     mAddress |-> Chosen(<< << >>, << >>, << 192, 168, 1, 100 >>, [i \in 1..16 |-> 15 * i] >>)]
L3PDPAddressCodec ==
    LET typed == << In("mTypeOrg", 8, 0..15), In("mTypeNumber", 8, {\h21, \h53}) >>
    IN  Codec(<< LengthIn(2..255, "TruncatedInput") >> \o typed
                 \o << If("mTypeNumber", {\h21}, << LengthIn({2, 6}, "InvalidValue") >>,
                                                 << LengthIn({2, 18}, "InvalidValue") >>),
                       ToLength("mAddress") >>,
              typed \o << ToLength("mAddress") >>, << N(2), Size("mAddress", 0) >>)

L3QoS ==
    [mDelayClass |-> Bits(3), mReliabilityClass |-> Bits(3), mPrecedenceClass |-> Bits(3),
     mPeakThroughput |-> Bits(4), mMeanThroughput |-> Bits(5), mAdditionalCharacteristics |-> Vector(0, 3)]
L3QoSCodec ==
    LET body == << Exact(0, 2), U("mDelayClass", 3), U("mReliabilityClass", 3), U("mPeakThroughput", 4),
                   Exact(0, 1), U("mPrecedenceClass", 3), Exact(0, 3), U("mMeanThroughput", 5),
                   ToLength("mAdditionalCharacteristics") >>
    IN  Codec(<< LengthIn(3..255, "TruncatedInput") >> \o body, body,
              << N(3), Size("mAdditionalCharacteristics", 0) >>)

\* The octets of the name are not interpreted.
L3AccessPointName == [mValue |-> Vector(0, 4)]
L3AccessPointNameCodec == Both(<< ToLength("mValue") >>, << Size("mValue", 0) >>)
L3ProtocolConfigOptions == [mValue |-> Vector(0, 4)]
L3ProtocolConfigOptionsCodec == Both(<< ToLength("mValue") >>, << Size("mValue", 0) >>)

kSMRequestTypeIdentifier == 10
L3TearDownIndicator == Bits(1)
L3TearDownIndicatorItems(n) == << Const(9, 4), Spare(3), U(n, 1) >>

\* ---- the optional elements ----
PCO == Maybe(Elt(L3ProtocolConfigOptions))
PCOOption == TLV(\h27, "mPCO", L3ProtocolConfigOptionsCodec)
PCOLength == OptLenV("mPCO", L3ProtocolConfigOptionsCodec, 2)
APN == Maybe(Elt(L3AccessPointName))
APNOption == TLV(\h28, "mAPN", L3AccessPointNameCodec)
APNLength == OptLenV("mAPN", L3AccessPointNameCodec, 2)
PDPAddressOption == TLV(\h2B, "mPDPAddress", L3PDPAddressCodec)
PDPAddressLength == OptLenV("mPDPAddress", L3PDPAddressCodec, 2)
Written(o) == Opt(o.n, << Const(o.iei, 8), LV(o.n, o.c) >>)

Nibble(n) == In(n, 8, 0..15)
QoSItem == LV("mQoS", L3QoSCodec)
QoSLength == << N(1), LenV("mQoS", L3QoSCodec) >>
AddressItem == LV("mPDPAddress", L3PDPAddressCodec)
AddressLength == << N(1), LenV("mPDPAddress", L3PDPAddressCodec) >>

\* ---- layouts that several messages have ----
\* QoS and options; with the handle of a context; with its address and the name of its network too.
QoSMembers == [mQoS |-> Elt(L3QoS), mPCO |-> PCO, mAdditionalIes |-> Trailing]
QoSBody ==
    Codec(<< QoSItem, Options(<< >>, << PCOOption >>) >>, << QoSItem, Written(PCOOption), Trailer >>,
          QoSLength \o << PCOLength, TrailerSize >>)

HandleMembers == [mPDPHandle |-> Bits(4)] @@ QoSMembers
HandleBody ==
    Codec(<< Nibble("mPDPHandle") >> \o QoSBody.r, << Nibble("mPDPHandle") >> \o QoSBody.w, << N(1) >> \o QoSBody.len)

AddressMembers == [mPDPAddress |-> Elt(L3PDPAddress), mAPN |-> APN] @@ HandleMembers
AddressBody ==
    Codec(<< Nibble("mPDPHandle"), QoSItem, AddressItem, Options(<< >>, << APNOption, PCOOption >>) >>,
          << Nibble("mPDPHandle"), QoSItem, AddressItem, Written(APNOption), Written(PCOOption), Trailer >>,
          << N(1) >> \o QoSLength \o AddressLength \o << APNLength, PCOLength, TrailerSize >>)

\* ---- messages ----
\* A second request type is kept with the trailing elements.
L3ActivatePDPContextRequest ==
    Msg(\h41, [mNSapi |-> Bits(4), mLLcSapi |-> Bits(4), mQoS |-> Elt(L3QoS), mPDPAddress |-> Elt(L3PDPAddress),
               mAPN |-> APN, mPCO |-> PCO, mRequestType |-> Maybe(Bits(4)), mAdditionalIes |-> Trailing])
L3ActivatePDPContextRequestCodec ==
    LET head == << Nibble("mNSapi"), Nibble("mLLcSapi"), QoSItem, AddressItem >>
    IN  Codec(head \o << Options(<< Half(kSMRequestTypeIdentifier, "mRequestType", 4, "keep") >>, << APNOption, PCOOption >>) >>,
              head \o << Written(APNOption), Written(PCOOption),
                         Opt("mRequestType", << Const(kSMRequestTypeIdentifier, 4), U("mRequestType", 4) >>), Trailer >>,
              << N(2) >> \o QoSLength \o AddressLength \o << APNLength, PCOLength, Has("mRequestType", 1), TrailerSize >>)

L3ActivatePDPContextAccept ==
    Msg(\h42, [mLLcSapi |-> Bits(4), mQoS |-> Elt(L3QoS), mRadioPriority |-> Bits(4),
               mPDPAddress |-> Maybe(Elt(L3PDPAddress)), mPCO |-> PCO, mAdditionalIes |-> Trailing])
L3ActivatePDPContextAcceptCodec ==
    LET head == << Nibble("mLLcSapi"), QoSItem, Nibble("mRadioPriority") >>
    IN  Codec(head \o << Options(<< >>, << PDPAddressOption, PCOOption >>) >>,
              head \o << Written(PDPAddressOption), Written(PCOOption), Trailer >>,
              << N(1) >> \o QoSLength \o << N(1), PDPAddressLength, PCOLength, TrailerSize >>)

L3ActivatePDPContextReject == Msg(\h43, CauseAndTrailer)
L3ActivatePDPContextRejectCodec == CauseAndTrailerBody

\* A second tear down indicator replaces the first.
L3DeactivatePDPContextRequest ==
    Msg(\h46, [mCause |-> Bits(8), mTearDownIndicator |-> Maybe(L3TearDownIndicator), mPCO |-> PCO, mAdditionalIes |-> Trailing])
L3DeactivatePDPContextRequestCodec ==
    Codec(<< U("mCause", 8), Options(<< Half(9, "mTearDownIndicator", 1, "replace") >>, << PCOOption >>) >>,
          << U("mCause", 8), Opt("mTearDownIndicator", L3TearDownIndicatorItems("mTearDownIndicator")),
             Written(PCOOption), Trailer >>,
          << N(1), Has("mTearDownIndicator", 1), PCOLength, TrailerSize >>)

L3DeactivatePDPContextAccept == Msg(\h47, TrailerMembers)
L3DeactivatePDPContextAcceptCodec == TrailerBody

L3ModifyPDPContextRequest == Msg(\h48, HandleMembers)
L3ModifyPDPContextRequestCodec == HandleBody
L3ModifyPDPContextAccept == Msg(\h49, HandleMembers)
L3ModifyPDPContextAcceptCodec == HandleBody
L3ModifyPDPContextRequestMS == Msg(\h4A, HandleMembers)
L3ModifyPDPContextRequestMSCodec == HandleBody
L3ModifyPDPContextAcceptNet == Msg(\h4B, HandleMembers)
L3ModifyPDPContextAcceptNetCodec == HandleBody
L3ActivateMBMSContextAccept == Msg(\h57, HandleMembers)
L3ActivateMBMSContextAcceptCodec == HandleBody

L3RequestPDPContextActivation == Msg(\h44, AddressMembers)
L3RequestPDPContextActivationCodec == AddressBody
L3ActivateSecondaryPDPContextRequest == Msg(\h4D, AddressMembers)
L3ActivateSecondaryPDPContextRequestCodec == AddressBody
L3RequestSecondaryPDPContextActivation == Msg(\h5B, AddressMembers)
L3RequestSecondaryPDPContextActivationCodec == AddressBody

L3ActivateSecondaryPDPContextAccept == Msg(\h4E, [mPDPAddress |-> Maybe(Elt(L3PDPAddress))] @@ HandleMembers)
L3ActivateSecondaryPDPContextAcceptCodec ==
    Codec(<< Nibble("mPDPHandle"), QoSItem, Options(<< >>, << PDPAddressOption, PCOOption >>) >>,
          << Nibble("mPDPHandle"), QoSItem, Written(PDPAddressOption), Written(PCOOption), Trailer >>,
          << N(1) >> \o QoSLength \o << PDPAddressLength, PCOLength, TrailerSize >>)

L3ActivateMBMSContextRequest == Msg(\h56, QoSMembers)
L3ActivateMBMSContextRequestCodec == QoSBody
L3RequestMBMSContextActivation == Msg(\h59, QoSMembers)
L3RequestMBMSContextActivationCodec == QoSBody

L3ModifyPDPContextReject == Msg(\h4C, CauseAndTrailer)
L3ModifyPDPContextRejectCodec == CauseAndTrailerBody
L3SMStatus == Msg(\h55, CauseAndTrailer)
L3SMStatusCodec == CauseAndTrailerBody
L3RequestPDPContextActivationReject == Msg(\h45, CauseAndTrailer)
L3RequestPDPContextActivationRejectCodec == CauseAndTrailerBody
L3ActivateSecondaryPDPContextReject == Msg(\h4F, CauseAndTrailer)
L3ActivateSecondaryPDPContextRejectCodec == CauseAndTrailerBody
L3ActivateMBMSContextReject == Msg(\h58, CauseAndTrailer)
L3ActivateMBMSContextRejectCodec == CauseAndTrailerBody
L3RequestMBMSContextActivationReject == Msg(\h5A, CauseAndTrailer)
L3RequestMBMSContextActivationRejectCodec == CauseAndTrailerBody
L3RequestSecondaryPDPContextActivationReject == Msg(\h5C, CauseAndTrailer)
L3RequestSecondaryPDPContextActivationRejectCodec == CauseAndTrailerBody

L3SMNotification == Msg(\h5D, [mPDPHandle |-> Bits(4), mAdditionalIes |-> Trailing])
L3SMNotificationCodec == Both(<< Nibble("mPDPHandle"), Trailer >>, << N(1), TrailerSize >>)

\* The variant of the family: its alternatives in the order of the declaration.
SM == <<
    Alternative("L3ActivatePDPContextRequest", L3ActivatePDPContextRequest, L3ActivatePDPContextRequestCodec),
    Alternative("L3ActivatePDPContextAccept", L3ActivatePDPContextAccept, L3ActivatePDPContextAcceptCodec),
    Alternative("L3ActivatePDPContextReject", L3ActivatePDPContextReject, L3ActivatePDPContextRejectCodec),
    Alternative("L3DeactivatePDPContextRequest", L3DeactivatePDPContextRequest, L3DeactivatePDPContextRequestCodec),
    Alternative("L3DeactivatePDPContextAccept", L3DeactivatePDPContextAccept, L3DeactivatePDPContextAcceptCodec),
    Alternative("L3ModifyPDPContextRequest", L3ModifyPDPContextRequest, L3ModifyPDPContextRequestCodec),
    Alternative("L3ModifyPDPContextAccept", L3ModifyPDPContextAccept, L3ModifyPDPContextAcceptCodec),
    Alternative("L3ModifyPDPContextReject", L3ModifyPDPContextReject, L3ModifyPDPContextRejectCodec),
    Alternative("L3SMStatus", L3SMStatus, L3SMStatusCodec),
    Alternative("L3RequestPDPContextActivation", L3RequestPDPContextActivation, L3RequestPDPContextActivationCodec),
    Alternative("L3RequestPDPContextActivationReject", L3RequestPDPContextActivationReject, L3RequestPDPContextActivationRejectCodec),
    Alternative("L3ModifyPDPContextRequestMS", L3ModifyPDPContextRequestMS, L3ModifyPDPContextRequestMSCodec),
    Alternative("L3ModifyPDPContextAcceptNet", L3ModifyPDPContextAcceptNet, L3ModifyPDPContextAcceptNetCodec),
    Alternative("L3ActivateSecondaryPDPContextRequest", L3ActivateSecondaryPDPContextRequest, L3ActivateSecondaryPDPContextRequestCodec),
    Alternative("L3ActivateSecondaryPDPContextAccept", L3ActivateSecondaryPDPContextAccept, L3ActivateSecondaryPDPContextAcceptCodec),
    Alternative("L3ActivateSecondaryPDPContextReject", L3ActivateSecondaryPDPContextReject, L3ActivateSecondaryPDPContextRejectCodec),
    Alternative("L3ActivateMBMSContextRequest", L3ActivateMBMSContextRequest, L3ActivateMBMSContextRequestCodec),
    Alternative("L3ActivateMBMSContextAccept", L3ActivateMBMSContextAccept, L3ActivateMBMSContextAcceptCodec),
    Alternative("L3ActivateMBMSContextReject", L3ActivateMBMSContextReject, L3ActivateMBMSContextRejectCodec),
    Alternative("L3RequestMBMSContextActivation", L3RequestMBMSContextActivation, L3RequestMBMSContextActivationCodec),
    Alternative("L3RequestMBMSContextActivationReject", L3RequestMBMSContextActivationReject, L3RequestMBMSContextActivationRejectCodec),
    Alternative("L3RequestSecondaryPDPContextActivation", L3RequestSecondaryPDPContextActivation, L3RequestSecondaryPDPContextActivationCodec),
    Alternative("L3RequestSecondaryPDPContextActivationReject", L3RequestSecondaryPDPContextActivationReject, L3RequestSecondaryPDPContextActivationRejectCodec),
    Alternative("L3SMNotification", L3SMNotification, L3SMNotificationCodec) >>
================================================================================
