------------------------------ MODULE CCMessages ------------------------------
(***************************************************************************)
(* The call control messages (cc/l3ccmessages.h, .cpp) and their elements  *)
(* (cc/l3ccelements.h, .cpp), in the notation of RRMessages.  The messages *)
(* carry a transaction identifier, which travels in the header.            *)
(***************************************************************************)
EXTENDS CommonElements

\* ---- elements ----
L3BearerCapability ==
    [mOctet3 |-> Bits(8), mFirstOctet3a |-> Maybe(Bits(8)), mExtendedOctets |-> WhenSet("mFirstOctet3a", Vector(0, 2))]
L3BearerCapabilityCodec ==
    LET body == << U("mOctet3", 8), IfRoom("mFirstOctet3a", << U("mFirstOctet3a", 8) >>), ToLength("mExtendedOctets") >>
    IN  Codec(<< LengthIn(1..255, "TruncatedInput") >> \o body, body,
              << N(1), Has("mFirstOctet3a", 1), Size("mExtendedOctets", 0) >>)

\* Either vector may be empty, and both.
L3SupportedCodecList ==
    [mGsmCodecs |-> Chosen(<< << >>, << 255, 255 >>, << 7 >>, << 1, 2 >> >>), mUmtsCodecs |-> Vector(0, 2)]
L3SupportedCodecListCodec == Both(<< Special("codecList") >>, << Special("codecList") >>)

\* The digits of a number; type 1 is an international one.
L3BCDDigits == Pick(<< << 0 >>, << 9, 11, 10 >>, << 1, 2, 3, 4 >>, << 5, 4, 3, 2, 1 >> >>)
NumberMembers == [mType |-> Bits(3), mPlan |-> Bits(4), mDigits |-> L3BCDDigits]
NumberCodec ==
    Both(<< Const(1, 1), U("mType", 3), U("mPlan", 4), Special("bcdDigits") >>, << N(1), Special("bcdDigits") >>)
L3CalledPartyBCDNumber == NumberMembers
L3CalledPartyBCDNumberCodec == NumberCodec
L3ConnectedNumber == NumberMembers
L3ConnectedNumberCodec == NumberCodec

\* Octet 3a is there when the first bit says so.
L3CallingPartyBCDNumber ==
    NumberMembers @@ [mNoOctet3a |-> Bits(1), mPresentationIndicator |-> When("mNoOctet3a", {0}, Bits(2)),
                      mScreeningIndicator |-> When("mNoOctet3a", {0}, Bits(2))]
L3CallingPartyBCDNumberCodec ==
    Both(<< U("mNoOctet3a", 1), U("mType", 3), U("mPlan", 4),
            If("mNoOctet3a", {0}, << Const(1, 1), U("mPresentationIndicator", 2), Spare(3), U("mScreeningIndicator", 2) >>,
               << >>), Special("bcdDigits") >>,
         << N(1), Is("mNoOctet3a", {0}, 1), Special("bcdDigits") >>)

\* Only the GSM coding in two octets is taken.
CauseWithLocation(location) ==
    << Exact(0, 1), Exact(3, 2), Spare(1), location, Exact(1, 1), U("mCause", 7) >>
L3CauseElement == [mLocation |-> Bits(4), mCause |-> Bits(7)]
L3CauseElementCodec == Both(CauseWithLocation(U("mLocation", 4)), << N(2) >>)
\* The messages that keep the cause alone write the location Private_Serving_Local.
CauseOnly == CauseWithLocation(Const(1, 4))

L3CallState == Bits(6)
L3CallStateItems(n) == << Const(3, 2), U(n, 6) >>

L3ProgressIndicator == [mLocation |-> Bits(4), mProgress |-> Bits(7)]
L3ProgressIndicatorCodec ==
    Both(<< Const(14, 4), U("mLocation", 4), Const(1, 1), U("mProgress", 7) >>, << N(2) >>)
\* parseTV and writeTV have one octet, which holds four bits of the progress description; the class
\* has wider ones (EndToEndISDN, Queuing), of which writeTV sends the low bits.
EndToEndISDN == \h20
Queuing == \h40
ShortProgress == [mLocation |-> Bits(4), mProgress |-> Pick(<< 0, 8, EndToEndISDN, Queuing >>)]
ShortProgressCodec == Both(<< U("mLocation", 4), U("mProgress", 4) >>, << N(1) >>)

OctetsToLength(n) == Both(<< ToLength(n) >>, << Size(n, 0) >>)
L3SupServFacilityIE == [mData |-> Vector(0, 3)]
L3SupServFacilityIECodec == OctetsToLength("mData")
L3NetworkCCCapabilities == [mCapabilities |-> Vector(0, 2)]
L3NetworkCCCapabilitiesCodec == OctetsToLength("mCapabilities")
L3LowLayerCompatibility == [mData |-> Vector(0, 2)]
L3LowLayerCompatibilityCodec == OctetsToLength("mData")
L3HighLayerCompatibility == [mData |-> Vector(0, 2)]
L3HighLayerCompatibilityCodec == OctetsToLength("mData")
L3UserUser == [mData |-> Vector(0, 3)]
L3UserUserCodec == OctetsToLength("mData")
L3CCCapabilities == [mCapabilities |-> Vector(0, 2)]
L3CCCapabilitiesCodec == OctetsToLength("mCapabilities")

L3SupServVersionIndicator == [mVersion |-> Bits(8)]
L3SupServVersionIndicatorCodec == Both(<< U("mVersion", 8), SkipToLength >>, << N(1) >>)

L3SubAddress == [mItems |-> Pick(<< << >>, << [sel |-> 7, data |-> << 255 >>] >>,
                                    << [sel |-> 2, data |-> << 1, 2 >>], [sel |-> 1, data |-> << 3 >>] >>,
                                    << [sel |-> 0, data |-> << 9, 8, 7 >>] >> >>)]
L3SubAddressCodec == Both(<< Special("subAddress") >>, << Special("subAddress") >>)

L3Signal == Bits(8)
L3KeypadFacility == Bits(8)

L3Priority == [mRequest |-> Bits(1), mPriorityLevel |-> Bits(3)]
L3PriorityCodec == Both(<< Spare(1), U("mRequest", 1), U("mPriorityLevel", 3), Spare(3) >>, << N(1) >>)

L3StreamIdentifier == [mVBS |-> Bits(1), mStreamId |-> Bits(4)]
L3StreamIdentifierCodec == Both(<< Spare(3), U("mVBS", 1), U("mStreamId", 4), SkipToLength >>, << N(1) >>)

\* ---- the loops over tagged elements ----
TLVItems(iei, n, C) == << Const(iei, 8), LV(n, C) >>
TLVCase(iei, n, C) == Case(255, iei, n, TLVItems(iei, n, C))
OptTLV(iei, n, C) == Opt(n, TLVItems(iei, n, C))
\* A codec list is sent when isGsmPresent() or isUmtsPresent().
CodecListTLV == IfFilled("mSupportedCodecs", L3SupportedCodecListCodec, TLVItems(\h40, "mSupportedCodecs", L3SupportedCodecListCodec))
CodecListLength == FilledLenV("mSupportedCodecs", L3SupportedCodecListCodec, 2)
\* Elements that are passed over: the tag alone, a tag and an octet, (by default) a tag and a length.
PassedOver(mask, iei, bits) == Case(mask, iei, "", << Const(iei, 8), Spare(bits) >>)
OneOctet == PassedOver(240, \hD0, 0)

FacilityCase == TLVCase(\h1C, "mFacility", L3SupServFacilityIECodec)
VersionItems == << Const(\h7F, 8), LVNonEmpty("mSSVersion", L3SupServVersionIndicatorCodec) >>
VersionCase == Case(255, \h7F, "", VersionItems)
ProgressItems == << Const(\h1E, 8), V("mProgress", ShortProgressCodec) >>
ProgressCase == Case(255, \h1E, "mProgress", ProgressItems)
UserUserCase == TLVCase(\h7E, "mUserUser", L3UserUserCodec)
StreamCase == TLVCase(\h2D, "mStreamIdentifier", L3StreamIdentifierCodec)

ccCommonMembers == [mFacility |-> Maybe(Elt(L3SupServFacilityIE)), mSSVersion |-> Maybe(Elt(L3SupServVersionIndicator))]
ccCommonParse == Loop(<< FacilityCase, VersionCase >>, "break", "")
ccCommonWrite == << OptTLV(\h1C, "mFacility", L3SupServFacilityIECodec), Opt("mSSVersion", VersionItems) >>
ccCommonLength == << OptLenV("mFacility", L3SupServFacilityIECodec, 2), Has("mSSVersion", 3) >>

WithTI == [mTI |-> Bits(3)]

-------------------------------------------------------------------------------
\* The bearer capability is mandatory: one that was not received is circuit-switched voice, full rate.
VoiceFullRate == [mOctet3 |-> \h0F, mFirstOctet3a |-> \h80]
L3Setup ==
    Msg(\h05, WithTI @@ ccCommonMembers @@
        [mBearerCapability |-> Elt(L3BearerCapability), mCallingParty |-> Maybe(Elt(L3CallingPartyBCDNumber)),
         mCalledParty |-> Maybe(Elt(L3CalledPartyBCDNumber)), mSupportedCodecs |-> Maybe(Elt(L3SupportedCodecList)),
         mSignal |-> Maybe(L3Signal), mSubAddress |-> Maybe(Elt(L3SubAddress)),
         mLowLayerCompat |-> Maybe(Elt(L3LowLayerCompatibility)), mHighLayerCompat |-> Maybe(Elt(L3HighLayerCompatibility)),
         mUserUser |-> Maybe(Elt(L3UserUser)), mCLIRSuppression |-> Maybe(Flag), mCLIRInvocation |-> Maybe(Flag),
         mCCCapabilities |-> Maybe(Elt(L3CCCapabilities)), mStreamIdentifier |-> Maybe(Elt(L3StreamIdentifier))])
SignalItems == << Const(\h34, 8), U("mSignal", 8) >>
L3SetupParse ==
    LET cases == << OneOctet, TLVCase(\h04, "mBearerCapability", L3BearerCapabilityCodec), FacilityCase,
                    PassedOver(255, \h1E, 8), Case(255, \h34, "mSignal", SignalItems),
                    TLVCase(\h5C, "mCallingParty", L3CallingPartyBCDNumberCodec),
                    TLVCase(\h5D, "mSubAddress", L3SubAddressCodec), TLVCase(\h6D, "mSubAddress", L3SubAddressCodec),
                    TLVCase(\h5E, "mCalledParty", L3CalledPartyBCDNumberCodec),
                    TLVCase(\h7C, "mLowLayerCompat", L3LowLayerCompatibilityCodec),
                    TLVCase(\h7D, "mHighLayerCompat", L3HighLayerCompatibilityCodec), UserUserCase, VersionCase,
                    Case(255, \hA1, "mCLIRSuppression", << Const(\hA1, 8) >>),
                    Case(255, \hA2, "mCLIRInvocation", << Const(\hA2, 8) >>),
                    TLVCase(\h15, "mCCCapabilities", L3CCCapabilitiesCodec), StreamCase,
                    TLVCase(\h40, "mSupportedCodecs", L3SupportedCodecListCodec), PassedOver(255, \hA3, 0),
                    PassedOver(255, \h8E, 8), PassedOver(255, \hC1, 8), PassedOver(255, \hC2, 8) >>
    IN  << Loop(cases, "skip", ""), Default("mBearerCapability", VoiceFullRate) >>
L3SetupWrite ==
    << OptTLV(\h04, "mBearerCapability", L3BearerCapabilityCodec),
       OptTLV(\h5C, "mCallingParty", L3CallingPartyBCDNumberCodec),
       OptTLV(\h5E, "mCalledParty", L3CalledPartyBCDNumberCodec),
       CodecListTLV, Opt("mSignal", SignalItems),
       OptTLV(\h5D, "mSubAddress", L3SubAddressCodec),
       OptTLV(\h7C, "mLowLayerCompat", L3LowLayerCompatibilityCodec),
       OptTLV(\h7D, "mHighLayerCompat", L3HighLayerCompatibilityCodec),
       OptTLV(\h7E, "mUserUser", L3UserUserCodec), Opt("mCLIRSuppression", << Const(\hA1, 8) >>),
       Opt("mCLIRInvocation", << Const(\hA2, 8) >>), OptTLV(\h15, "mCCCapabilities", L3CCCapabilitiesCodec),
       OptTLV(\h2D, "mStreamIdentifier", L3StreamIdentifierCodec) >> \o ccCommonWrite
L3SetupLength ==
    << OptLenV("mBearerCapability", L3BearerCapabilityCodec, 2),
       OptLenV("mCalledParty", L3CalledPartyBCDNumberCodec, 2),
       OptLenV("mCallingParty", L3CallingPartyBCDNumberCodec, 2),
       CodecListLength, Has("mSignal", 2),
       OptLenV("mSubAddress", L3SubAddressCodec, 2),
       OptLenV("mLowLayerCompat", L3LowLayerCompatibilityCodec, 2),
       OptLenV("mHighLayerCompat", L3HighLayerCompatibilityCodec, 2),
       OptLenV("mUserUser", L3UserUserCodec, 2), Has("mCLIRSuppression", 1), Has("mCLIRInvocation", 1),
       OptLenV("mCCCapabilities", L3CCCapabilitiesCodec, 2), Has("mStreamIdentifier", 3) >> \o ccCommonLength
L3SetupCodec == Codec(L3SetupParse, L3SetupWrite, L3SetupLength)

\* Messages with nothing but the header.
L3EmergencySetup == Msg(\h0E, WithTI)
L3EmergencySetupCodec == EmptyBody
L3ConnectAcknowledge == Msg(\h0F, WithTI)
L3ConnectAcknowledgeCodec == EmptyBody
L3StopDTMF == Msg(\h31, WithTI)
L3StopDTMFCodec == EmptyBody
L3StopDTMFAcknowledge == Msg(\h32, WithTI)
L3StopDTMFAcknowledgeCodec == EmptyBody
L3Hold == Msg(\h18, WithTI)
L3HoldCodec == EmptyBody

\* A bearer capability is written, but passed over when it is received; so is a facility.
L3CallProceeding ==
    Msg(\h02, WithTI @@ [mBearerCapability |-> Maybe(Elt(L3BearerCapability)), mProgress |-> Maybe(Elt(ShortProgress)),
                         mPriority |-> Maybe(Elt(L3Priority)), mNetworkCCCapabilities |-> Maybe(Elt(L3NetworkCCCapabilities))])
L3CallProceedingCodec ==
    LET priority == << Const(\h88, 8), V("mPriority", L3PriorityCodec) >>
    IN  Codec(<< Loop(<< OneOctet, PassedOver(255, \h0D, 4), ProgressCase, Case(255, \h88, "mPriority", priority),
                         TLVCase(\h2F, "mNetworkCCCapabilities", L3NetworkCCCapabilitiesCodec) >>, "skip", "") >>,
              << OptTLV(\h04, "mBearerCapability", L3BearerCapabilityCodec), Opt("mProgress", ProgressItems),
                 Opt("mPriority", priority), OptTLV(\h2F, "mNetworkCCCapabilities", L3NetworkCCCapabilitiesCodec) >>,
              << OptLenV("mBearerCapability", L3BearerCapabilityCodec, 2), Has("mProgress", 2), Has("mPriority", 2),
                 OptLenV("mNetworkCCCapabilities", L3NetworkCCCapabilitiesCodec, 2) >>)

\* The optional elements are taken in this order; the first one out of order ends the message.
L3Alerting ==
    Msg(\h01, WithTI @@ ccCommonMembers @@ [mProgress |-> Maybe(Elt(ShortProgress)), mUserUser |-> Maybe(Elt(L3UserUser))])
L3AlertingCodec ==
    Codec(<< ccCommonParse, Loop(<< ProgressCase >>, "break", ""), ccCommonParse, Loop(<< UserUserCase >>, "break", "") >>,
          << Opt("mProgress", ProgressItems) >> \o ccCommonWrite \o << OptTLV(\h7E, "mUserUser", L3UserUserCodec) >>,
          << Has("mProgress", 2), OptLenV("mUserUser", L3UserUserCodec, 2) >> \o ccCommonLength)

L3Connect ==
    Msg(\h07, WithTI @@ [mProgress |-> Maybe(Elt(ShortProgress)), mConnectedNumber |-> Maybe(Elt(L3ConnectedNumber)),
                         mConnectedSubAddress |-> Maybe(Elt(L3SubAddress)), mUserUser |-> Maybe(Elt(L3UserUser)),
                         mStreamIdentifier |-> Maybe(Elt(L3StreamIdentifier))])
L3ConnectCodec ==
    Codec(<< Loop(<< OneOctet, ProgressCase, TLVCase(\h9C, "mConnectedNumber", L3ConnectedNumberCodec),
                     TLVCase(\h9B, "mConnectedSubAddress", L3SubAddressCodec), UserUserCase, StreamCase,
                     PassedOver(255, \h8E, 8) >>, "skip", "") >>,
          << Opt("mProgress", ProgressItems), OptTLV(\h9C, "mConnectedNumber", L3ConnectedNumberCodec),
             OptTLV(\h9B, "mConnectedSubAddress", L3SubAddressCodec), OptTLV(\h7E, "mUserUser", L3UserUserCodec),
             OptTLV(\h2D, "mStreamIdentifier", L3StreamIdentifierCodec) >>,
          << Has("mProgress", 2), OptLenV("mConnectedNumber", L3ConnectedNumberCodec, 2),
             OptLenV("mConnectedSubAddress", L3SubAddressCodec, 2), OptLenV("mUserUser", L3UserUserCodec, 2),
             Has("mStreamIdentifier", 3) >>)

\* The cause is read as two octets whatever its length says.
L3CallConfirmed ==
    Msg(\h08, WithTI @@ [mBearerCapability |-> Maybe(Elt(L3BearerCapability)), mCause |-> Maybe(Elt(L3CauseElement)),
                         mSupportedCodecs |-> Maybe(Elt(L3SupportedCodecList)), mUserUser |-> Maybe(Elt(L3UserUser))])
L3CallConfirmedCodec ==
    LET cause == << Const(\h08, 8), Const(2, 8), V("mCause", L3CauseElementCodec) >>
    IN  Codec(<< Loop(<< OneOctet, Case(255, \h08, "mCause", cause),
                         TLVCase(\h40, "mSupportedCodecs", L3SupportedCodecListCodec),
                         TLVCase(\h04, "mBearerCapability", L3BearerCapabilityCodec), PassedOver(255, \h1E, 8),
                         UserUserCase >>, "skip", "") >>,
              << OptTLV(\h04, "mBearerCapability", L3BearerCapabilityCodec), Opt("mCause", cause),
                 CodecListTLV, OptTLV(\h7E, "mUserUser", L3UserUserCodec) >>,
              << OptLenV("mBearerCapability", L3BearerCapabilityCodec, 2), Has("mCause", 4),
                 CodecListLength, OptLenV("mUserUser", L3UserUserCodec, 2) >>)

\* A mandatory element of at least two octets of which only those count.
AtLeastTwo(items) == << LVFlat(2, items) >>
L3Disconnect == Msg(\h25, WithTI @@ L3CauseElement)
L3DisconnectCodec == Both(AtLeastTwo(CauseWithLocation(U("mLocation", 4))), << N(3) >>)

CallCause == [mCause |-> Bits(7)]
ReleaseMembers == WithTI @@ ccCommonMembers @@ [mCause |-> Maybe(Bits(7))]
ReleaseBody ==
    LET cause == << Const(\h08, 8), Const(2, 8) >> \o CauseOnly
    IN  Codec(<< Loop(<< Case(255, \h08, "mCause", cause) >>, "break", ""), ccCommonParse >>,
              << Opt("mCause", cause) >> \o ccCommonWrite, << Has("mCause", 4) >> \o ccCommonLength)
L3Release == Msg(\h2D, ReleaseMembers)
L3ReleaseCodec == ReleaseBody
L3ReleaseComplete == Msg(\h2A, ReleaseMembers)
L3ReleaseCompleteCodec == ReleaseBody

L3CCStatus == Msg(\h3D, WithTI @@ CallCause @@ [mCallState |-> L3CallState])
L3CCStatusCodec == Both(AtLeastTwo(CauseOnly) \o L3CallStateItems("mCallState"), << N(4) >>)

\* The tag is not looked at.
KeyMembers == WithTI @@ [mKey |-> L3KeypadFacility]
KeyBody == Both(<< Const(\h2C, 8), U("mKey", 8) >>, << N(2) >>)
L3StartDTMF == Msg(\h35, KeyMembers)
L3StartDTMFCodec == KeyBody
L3StartDTMFAcknowledge == Msg(\h36, KeyMembers)
L3StartDTMFAcknowledgeCodec == KeyBody

\* The length of the cause is not looked at.
RejectBody == Both(<< Const(2, 8) >> \o CauseOnly, << N(3) >>)
L3StartDTMFReject == Msg(\h37, WithTI @@ CallCause)
L3StartDTMFRejectCodec == RejectBody
L3HoldReject == Msg(\h1A, WithTI @@ CallCause)
L3HoldRejectCodec == RejectBody

L3Progress == Msg(\h03, WithTI @@ [mProgress |-> Elt(L3ProgressIndicator)])
L3ProgressCodec == Both(AtLeastTwo(<< V("mProgress", L3ProgressIndicatorCodec) >>), << N(3) >>)

L3Facility == Msg(\h3A, WithTI @@ [mFacilityBody |-> Vector(0, 3)])
L3FacilityCodec == OpaqueBody("mFacilityBody")

L3CCNotify == Msg(\h3E, WithTI @@ CauseMembers)
L3CCNotifyCodec == CauseBody

\* The variant of the family: its alternatives in the order of the declaration.
CCM == <<
    Alternative("L3Setup", L3Setup, L3SetupCodec),
    Alternative("L3EmergencySetup", L3EmergencySetup, L3EmergencySetupCodec),
    Alternative("L3CallProceeding", L3CallProceeding, L3CallProceedingCodec),
    Alternative("L3Alerting", L3Alerting, L3AlertingCodec),
    Alternative("L3Connect", L3Connect, L3ConnectCodec),
    Alternative("L3ConnectAcknowledge", L3ConnectAcknowledge, L3ConnectAcknowledgeCodec),
    Alternative("L3CallConfirmed", L3CallConfirmed, L3CallConfirmedCodec),
    Alternative("L3Disconnect", L3Disconnect, L3DisconnectCodec),
    Alternative("L3Release", L3Release, L3ReleaseCodec),
    Alternative("L3ReleaseComplete", L3ReleaseComplete, L3ReleaseCompleteCodec),
    Alternative("L3StartDTMF", L3StartDTMF, L3StartDTMFCodec),
    Alternative("L3StopDTMF", L3StopDTMF, L3StopDTMFCodec),
    Alternative("L3StopDTMFAcknowledge", L3StopDTMFAcknowledge, L3StopDTMFAcknowledgeCodec),
    Alternative("L3StartDTMFAcknowledge", L3StartDTMFAcknowledge, L3StartDTMFAcknowledgeCodec),
    Alternative("L3StartDTMFReject", L3StartDTMFReject, L3StartDTMFRejectCodec),
    Alternative("L3Hold", L3Hold, L3HoldCodec),
    Alternative("L3HoldReject", L3HoldReject, L3HoldRejectCodec),
    Alternative("L3CCStatus", L3CCStatus, L3CCStatusCodec),
    Alternative("L3Progress", L3Progress, L3ProgressCodec),
    Alternative("L3Facility", L3Facility, L3FacilityCodec),
    Alternative("L3CCNotify", L3CCNotify, L3CCNotifyCodec) >>

===============================================================================
