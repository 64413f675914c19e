------------------------------ MODULE RRMessages ------------------------------
(***************************************************************************)
(* The radio resource messages (rr/l3rrmessages.h, rr/l3rrmessages.cpp).   *)
(* L3X gives the message type and the members of class L3X, L3XCodec its   *)
(* parse(), write() and bodyLength().  A member with a presence flag in    *)
(* the class is there exactly when the flag is set.                        *)
(***************************************************************************)
EXTENDS SystemInformation

\* channelNeededType: the two-bit code of the channel a paged mobile shall ask for, and back.
channelNeededType == [code \in 0..3 |-> << "AnyDCCHType", "SDCCHType", "TCHFType", "AnyTCHType" >>[code + 1]]
channelNeededCode == [type \in {channelNeededType[c] : c \in 0..3} |-> CHOOSE c \in 0..3 : channelNeededType[c] = type]
ChannelNeeded == Pick(<< "AnyDCCHType", "AnyTCHType", "SDCCHType", "TCHFType" >>)
ChannelsNeeded == << Conv("mChannelsNeeded1", 2, channelNeededType, channelNeededCode),
                     Conv("mChannelsNeeded0", 2, channelNeededType, channelNeededCode) >>
PagingMembers == [mChannelsNeeded0 |-> ChannelNeeded, mChannelsNeeded1 |-> ChannelNeeded, mPageMode |-> Elt(L3PageMode),
                  mAdditionalIes |-> Trailing]
PagingHead == Append(ChannelsNeeded, V("mPageMode", L3PageModeCodec))
OptionalIdentity(n) == Tag(127, \h17, n, << Const(\h17, 8), MobileIdentityLV(n) >>)

L3PagingRequestType1 ==
    Msg(\h21, PagingMembers @@ [mMobileID0 |-> Elt(L3MobileIdentity), mMobileID1 |-> Maybe(Elt(L3MobileIdentity))])
L3PagingRequestType1Codec ==
    Both(PagingHead \o << MobileIdentityLV("mMobileID0"), OptionalIdentity("mMobileID1"), Trailer >>,
         << N(2), LenV("mMobileID0", L3MobileIdentityCodec), OptLenV("mMobileID1", L3MobileIdentityCodec, 2), TrailerSize >>)

L3PagingRequestType2 ==
    Msg(\h22, PagingMembers @@ [mTMSI0 |-> Bits(32), mTMSI1 |-> Bits(32), mThirdIdentity |-> Maybe(Elt(L3MobileIdentity))])
L3PagingRequestType2Codec ==
    Both(PagingHead \o << U("mTMSI0", 32), U("mTMSI1", 32), OptionalIdentity("mThirdIdentity"), Trailer >>,
         << N(9), OptLenV("mThirdIdentity", L3MobileIdentityCodec, 2), TrailerSize >>)

L3PagingRequestType3 ==
    Msg(\h24, PagingMembers @@ [mTMSI0 |-> Bits(32), mTMSI1 |-> Bits(32), mTMSI2 |-> Bits(32), mTMSI3 |-> Bits(32)])
L3PagingRequestType3Codec ==
    Both(PagingHead \o << U("mTMSI0", 32), U("mTMSI1", 32), U("mTMSI2", 32), U("mTMSI3", 32), Trailer >>,
         << N(17), TrailerSize >>)

L3PagingResponse ==
    Msg(\h27, [mCKSN |-> Bits(4), mClassmark |-> Elt(L3MobileStationClassmark2), mMobileID |-> Elt(L3MobileIdentity),
               mAdditionalUpdateParameter |-> Maybe(Bits(8)),
               mAdditionalIes |-> WhenSet("mAdditionalUpdateParameter", Trailing)])
L3PagingResponseCodec ==
    LET head == << Spare(4), U("mCKSN", 4), LV("mClassmark", L3MobileStationClassmark2Codec),
                   MobileIdentityLV("mMobileID") >>
        aup == U("mAdditionalUpdateParameter", 8)
    IN  Codec(head \o << Opt("mAdditionalUpdateParameter", << aup, Trailer >>) >>,
              head \o << Opt("mAdditionalUpdateParameter", << aup >>), Trailer >>,
              << N(3), LenV("mClassmark", L3MobileStationClassmark2Codec), LenV("mMobileID", L3MobileIdentityCodec),
                 Has("mAdditionalUpdateParameter", 1), TrailerSize >>)

L3ChannelRelease ==
    Msg(\h0D, [mCause |-> Bits(8), mGprsResumptionBit |-> Maybe(Bits(1)), mAdditionalIes |-> Trailing])
L3ChannelReleaseCodec ==
    Both(<< U("mCause", 8),
            Tag(240, \hC0, "mGprsResumptionBit", << Const(\hC, 4), Spare(3), U("mGprsResumptionBit", 1) >>), Trailer >>,
         << N(1), Has("mGprsResumptionBit", 1), TrailerSize >>)

\* Messages that carry a cause and nothing else, or a cause and trailing elements.
L3RRStatus == Msg(\h12, CauseMembers)
L3RRStatusCodec == CauseBody
L3AssignmentComplete == Msg(\h29, CauseMembers)
L3AssignmentCompleteCodec == CauseBody
L3AssignmentFailure == Msg(\h2F, CauseMembers)
L3AssignmentFailureCodec == CauseBody
L3ConfigurationChangeReject == Msg(\h33, CauseMembers)
L3ConfigurationChangeRejectCodec == CauseBody
L3UplinkRelease == Msg(\h0E, CauseMembers)
L3UplinkReleaseCodec == CauseBody
L3DTMAssignmentFailure == Msg(\h48, CauseMembers)
L3DTMAssignmentFailureCodec == CauseBody
L3HandoverComplete == Msg(\h2C, CauseAndTrailer)
L3HandoverCompleteCodec == CauseAndTrailerBody
L3HandoverFailure == Msg(\h28, CauseAndTrailer)
L3HandoverFailureCodec == CauseAndTrailerBody

\* isAMR(): the channel mode is speech version 3; then a multirate configuration belongs to it, the
\* default one when the message has none.
AMR == 3
MultiRateOf(mode) ==
    << IfIn(mode, "mMode", {AMR},
            << Tag(127, 3, "mMultiRate", << Const(3, 8), Const(2, 8), V("mMultiRate", L3MultiRateConfigurationCodec) >>),
               Default("mMultiRate", [mOptions |-> 0, mAmrCodecSet |-> \h80]) >>) >>
WriteMultiRate == << Opt("mMultiRate", << Const(3, 8), LV("mMultiRate", L3MultiRateConfigurationCodec) >>) >>
L3AssignmentCommand ==
    Msg(\h2E, [mChannel |-> Elt(L3ChannelDescription), mPowerCommand |-> Elt(L3PowerCommand),
               mMode1 |-> Maybe(Elt(L3ChannelMode)),
               mMultiRate |-> WhenIn("mMode1", "mMode", {AMR}, Elt(L3MultiRateConfiguration)),
               mAdditionalIes |-> Trailing])
L3AssignmentCommandCodec ==
    LET head == << V("mChannel", L3ChannelDescriptionCodec), V("mPowerCommand", L3PowerCommandCodec),
                   Tag(255, \h63, "mMode1", << Const(\h63, 8), V("mMode1", L3ChannelModeCodec) >>) >>
    IN  Codec(head \o MultiRateOf("mMode1") \o << Trailer >>, head \o WriteMultiRate \o << Trailer >>,
              << N(4), Has("mMode1", 2), IsIn("mMode1", "mMode", {AMR}, 4), TrailerSize >>)

L3ChannelModeModify ==
    Msg(\h10, [mDescription |-> Elt(L3ChannelDescription), mMode |-> Elt(L3ChannelMode),
               mMultiRate |-> WhenIn("mMode", "mMode", {AMR}, Elt(L3MultiRateConfiguration))])
L3ChannelModeModifyCodec ==
    LET head == << V("mDescription", L3ChannelDescriptionCodec), V("mMode", L3ChannelModeCodec) >>
    IN  Codec(head \o MultiRateOf("mMode"), head \o WriteMultiRate, << N(4), IsIn("mMode", "mMode", {AMR}, 4) >>)

L3ChannelModeModifyAcknowledge ==
    Msg(\h17, [mDescription |-> Elt(L3ChannelDescription), mMode |-> Elt(L3ChannelMode)])
L3ChannelModeModifyAcknowledgeCodec ==
    Both(<< V("mDescription", L3ChannelDescriptionCodec), V("mMode", L3ChannelModeCodec) >>, << N(4) >>)

L3ClassmarkEnquiry == Msg(\h13, NoMembers)
L3ClassmarkEnquiryCodec == EmptyBody

L3ClassmarkChange ==
    Msg(\h16, [mClassmark |-> Elt(L3MobileStationClassmark2), mAdditionalClassmark |-> Maybe(Elt(L3MobileStationClassmark3))])
L3ClassmarkChangeCodec ==
    Both(<< LV("mClassmark", L3MobileStationClassmark2Codec),
            Tag(127, \h20, "mAdditionalClassmark", << V("mAdditionalClassmark", L3MobileStationClassmark3Codec) >>) >>,
         << N(1), LenV("mClassmark", L3MobileStationClassmark2Codec),
            OptLenV("mAdditionalClassmark", L3MobileStationClassmark3Codec, 2) >>)

L3MeasurementReport == Msg(\h15, [mMeasurementResults |-> Elt(L3MeasurementResults), mAdditionalIes |-> Trailing])
L3MeasurementReportCodec ==
    Both(<< V("mMeasurementResults", L3MeasurementResultsCodec), Align, Trailer >>,
         << LenV("mMeasurementResults", Measure(<< Ceil(<< N(26), PerOne("mNCELL", 17) >>) >>)), TrailerSize >>)

L3CipheringModeCommand ==
    Msg(\h35, [mCipheringModeResponse |-> Elt(L3CipheringModeResponse), mCipheringModeSetting |-> L3CipheringModeSetting])
L3CipheringModeCommandCodec ==
    Both(<< V("mCipheringModeResponse", L3CipheringModeResponseCodec),
            L3CipheringModeSettingItem("mCipheringModeSetting") >>, << N(1) >>)

L3CipheringModeComplete == Msg(\h32, [mAdditionalIes |-> Trailing])
L3CipheringModeCompleteCodec == OpaqueBody("mAdditionalIes")

L3GPRSSuspensionRequest ==
    Msg(\h34, [mTLLI |-> Bits(32), mRaId |-> Vector(6, 6), mSuspensionCause |-> Bits(8), mServiceSupport |-> Maybe(Bits(8))])
L3GPRSSuspensionRequestCodec ==
    Both(<< U("mTLLI", 32), Octets("mRaId", 6), U("mSuspensionCause", 8),
            Tag(255, 1, "mServiceSupport", << Const(1, 8), U("mServiceSupport", 8) >>) >>,
         << N(11), Has("mServiceSupport", 2) >>)

L3ApplicationInformation ==
    Msg(\h38, [mCR |-> Bits(1), mFirstSegment |-> Bits(1), mLastSegment |-> Bits(1), mProtocolIdentifier |-> Bits(4),
               mData |-> Vector(0, 3)])
L3ApplicationInformationCodec ==
    Both(<< Spare(1), U("mCR", 1), U("mFirstSegment", 1), U("mLastSegment", 1), U("mProtocolIdentifier", 4),
            LVOctets("mData") >>, << N(2), Size("mData", 0) >>)

-------------------------------------------------------------------------------
\* ---- immediate assignment ----
StartTime == [t1 |-> Bits(5), t3 |-> Bits(6), t2 |-> Bits(5)]
StartTimeCodec == Both(<< U("t1", 5), U("t3", 6), U("t2", 5) >>, << N(2) >>)
StartingTime == Tag(255, \h7C, "mStartTime", << Const(\h7C, 8), V("mStartTime", StartTimeCodec) >>)
AssignmentMembers ==
    [mDedicatedModeOrTBF |-> Elt(L3DedicatedModeOrTBF), mPageMode |-> Elt(L3PageMode),
     mRequestReference |-> Elt(L3RequestReference), mTimingAdvance |-> Elt(L3TimingAdvance),
     mStartTime |-> Maybe(Elt(StartTime))]

\* bodyLength() counts two octets for the two nibbles at the start, and the length octet of the mobile
\* allocation only when there is one: exact for an empty allocation, an octet too many for any other.
L3ImmediateAssignment ==
    Msg(\h3F, AssignmentMembers @@ [mChannelDescription |-> Elt(L3ChannelDescription), mMobileAllocation |-> Vector(0, 2),
                                    mAdditionalIes |-> Trailing])
L3ImmediateAssignmentCodec ==
    LET head == << V("mDedicatedModeOrTBF", L3DedicatedModeOrTBFCodec), V("mPageMode", L3PageModeCodec),
                   V("mChannelDescription", L3ChannelDescriptionCodec), V("mRequestReference", L3RequestReferenceCodec),
                   V("mTimingAdvance", L3TimingAdvanceCodec) >>
        body == << LVOctets("mMobileAllocation"), StartingTime, Trailer >>
    IN  Codec(head \o << Need("InvalidValue") >> \o body, head \o body,
              << N(9), Size("mMobileAllocation", 1), Has("mStartTime", 3), TrailerSize >>)

L3ImmediateAssignmentExtended ==
    Msg(\h39, AssignmentMembers @@ [mChannelDescription |-> Elt(L3ChannelDescription), mMobileAllocation |-> Vector(0, 2),
                                    mAdditionalChannel |-> Maybe(Elt(L3AdditionalChannelDescription))])
L3ImmediateAssignmentExtendedCodec ==
    LET head == << V("mDedicatedModeOrTBF", L3DedicatedModeOrTBFCodec), V("mPageMode", L3PageModeCodec),
                   V("mRequestReference", L3RequestReferenceCodec), V("mChannelDescription", L3ChannelDescriptionCodec),
                   V("mTimingAdvance", L3TimingAdvanceCodec) >>
        body == << StartingTime, Opt("mAdditionalChannel", << V("mAdditionalChannel", L3AdditionalChannelDescriptionCodec) >>) >>
    IN  Codec(head \o << IfMore(<< LVOctets("mMobileAllocation") >>) >> \o body,
              head \o << LVOctets("mMobileAllocation") >> \o body,
              << N(9), Size("mMobileAllocation", 1), Has("mStartTime", 3), Has("mAdditionalChannel", 3) >>)

\* A reference and its wait indication: two parallel vectors in the class, of four entries on the wire.
Rejected == [mRequestReference |-> Elt(L3RequestReference), mWaitIndication |-> Bits(8)]
L3ImmediateAssignmentReject ==
    Msg(\h3A, [mFeatureIndicator |-> Bits(4), mPageMode |-> Bits(2), mRejected |-> ListOf(Rejected, 4, 4),
               mAdditionalIes |-> Trailing])
L3ImmediateAssignmentRejectCodec ==
    Both(<< U("mFeatureIndicator", 4), In("mPageMode", 4, 0..3),
            Padded("mRejected", 4, Both(<< V("mRequestReference", L3RequestReferenceCodec), U("mWaitIndication", 8) >>, << >>)),
            Trailer >>, << N(17), TrailerSize >>)

L3AdditionalAssignment ==
    Msg(\h3B, [mAdditionalChannel |-> Elt(L3AdditionalChannelDescription), mPowerCommand |-> Maybe(Elt(L3PowerCommand))])
L3AdditionalAssignmentCodec ==
    Both(<< V("mAdditionalChannel", L3AdditionalChannelDescriptionCodec),
            Opt("mPowerCommand", << V("mPowerCommand", L3PowerCommandCodec) >>) >>, << N(3), Has("mPowerCommand", 1) >>)

-------------------------------------------------------------------------------
\* ---- handover, access bursts, configuration ----
L3PhysicalInformation == Msg(\h2D, [mTA |-> Elt(L3TimingAdvance)])
L3PhysicalInformationCodec == Both(<< V("mTA", L3TimingAdvanceCodec) >>, << N(1) >>)

L3HandoverCommand ==
    Msg(\h2B, [mCellDescription |-> Elt(L3CellDescription), mChannelDescriptionAfter |-> Elt(L3ChannelDescription2),
               mHandoverReference |-> Elt(L3HandoverReference), mPowerCommandAccessType |-> Elt(L3PowerCommandAndAccessType),
               mSynchronizationIndication |-> Elt(L3SynchronizationIndication), mAdditionalIes |-> Trailing])
L3HandoverCommandCodec ==
    Both(<< V("mCellDescription", L3CellDescriptionCodec), V("mChannelDescriptionAfter", L3ChannelDescription2Codec),
            V("mHandoverReference", L3HandoverReferenceCodec), V("mPowerCommandAccessType", L3PowerCommandAndAccessTypeCodec),
            V("mSynchronizationIndication", L3SynchronizationIndicationCodec), Trailer >>, << N(8), TrailerSize >>)

\* The two access bursts have no header: the parser tells them by their length.
L3ChannelRequest == Msg(\h181, [mRequestReference |-> Bits(8)])
L3ChannelRequestCodec == Both(<< U("mRequestReference", 8) >>, << N(1) >>)
L3HandoverAccess == Msg(\h182, [mHandoverNumber |-> Bits(27)])
L3HandoverAccessCodec == Both(<< U("mHandoverNumber", 27), Exact(0, 5) >>, << N(4) >>)

\* bodyLength() does not count the tag of the channel description.
L3ConfigurationChangeCommand ==
    Msg(\h30, [mChanDesc |-> Maybe(Elt(L3ChannelDescription)), mPowerCmd |-> Maybe(Elt(L3PowerCommand))])
L3ConfigurationChangeCommandCodec ==
    LET channel == << Const(\h64, 8), V("mChanDesc", L3ChannelDescriptionCodec) >>
        power == << Const(\h65, 8), V("mPowerCmd", L3PowerCommandCodec) >>
    IN  Codec(<< Loop(<< Case(255, \h64, "mChanDesc", channel), Case(255, \h65, "mPowerCmd", power) >>, "break", "") >>,
              << Opt("mChanDesc", channel), Opt("mPowerCmd", power) >>, << Has("mChanDesc", 3), Has("mPowerCmd", 2) >>)

L3PartialRelease == Msg(\h0A, [mChanDesc |-> Elt(L3ChannelDescription)])
L3PartialReleaseCodec == Both(<< V("mChanDesc", L3ChannelDescriptionCodec) >>, << N(3) >>)

L3ExtendedMeasurementReport == Msg(\h36, [mMeasurementResults |-> Elt(L3MeasurementResults)])
L3ExtendedMeasurementReportCodec == Both(<< V("mMeasurementResults", L3MeasurementResultsCodec) >>, << N(16) >>)

L3FrequencyRedefinition ==
    Msg(\h14, [mCellChannelDescription |-> Elt(L3CellChannelDescription), mRACHControlParameters |-> Elt(L3RACHControlParameters)])
L3FrequencyRedefinitionCodec ==
    Both(<< V("mCellChannelDescription", L3CellChannelDescriptionCodec), RACHControl("mRACHControlParameters") >>, << N(19) >>)

L3VGCSUplinkGrant == Msg(\h09, [mRequestReference |-> Elt(L3RequestReference), mTimingAdvance |-> Elt(L3TimingAdvance)])
L3VGCSUplinkGrantCodec ==
    Both(<< V("mRequestReference", L3RequestReferenceCodec), V("mTimingAdvance", L3TimingAdvanceCodec) >>, << N(4) >>)

L3UplinkBusy == Msg(\h2A, [mAdditionalIes |-> Trailing])
L3UplinkBusyCodec == OpaqueBody("mAdditionalIes")

L3TalkerIndication ==
    Msg(\h11, [mClassmark2 |-> Elt(L3MobileStationClassmark2), mMobileId |-> Elt(L3MobileIdentity), mCksn |-> Maybe(Bits(4))])
L3TalkerIndicationCodec ==
    LET head == << LV("mClassmark2", L3MobileStationClassmark2Codec), MobileIdentityLV("mMobileId") >>
        cksn == << U("mCksn", 4), Spare(4) >>
    IN  Codec(head \o << TakenTag(\h0B, "mCksn", cksn) >>, head \o << Opt("mCksn", << Const(\h0B, 8) >> \o cksn) >>,
              << N(2), LenV("mClassmark2", L3MobileStationClassmark2Codec), LenV("mMobileId", L3MobileIdentityCodec),
                 Has("mCksn", 2) >>)

L3PriorityUplinkRequest ==
    Msg(\h66, [mEstCause |-> Bits(8), mToken |-> Vector(4, 4), mReducedGcr |-> Vector(4, 4), mMobileId |-> Elt(L3MobileIdentity)])
L3PriorityUplinkRequestCodec ==
    Both(<< U("mEstCause", 8), Octets("mToken", 4), Octets("mReducedGcr", 4), MobileIdentityLV("mMobileId") >>,
         << N(10), LenV("mMobileId", L3MobileIdentityCodec) >>)

L3DataIndication == Msg(\h67, [mTMSI |-> Bits(32), mApplicationData |-> Vector(9, 9), mDataId |-> Bits(8)])
L3DataIndicationCodec == Both(<< U("mTMSI", 32), Octets("mApplicationData", 9), U("mDataId", 8) >>, << N(14) >>)
L3DataIndication2 ==
    Msg(\h68, [mTMSI |-> Bits(32), mReducedGcr |-> Vector(4, 4), mApplicationData |-> Vector(9, 9), mDataId |-> Bits(8)])
L3DataIndication2Codec ==
    Both(<< U("mTMSI", 32), Octets("mReducedGcr", 4), Octets("mApplicationData", 9), U("mDataId", 8) >>, << N(18) >>)

L3PacketAssignment == Msg(\h4B, [mChanDesc |-> Elt(L3ChannelDescription), mTA |-> Elt(L3TimingAdvance)])
L3PacketAssignmentCodec == Both(<< V("mChanDesc", L3ChannelDescriptionCodec), V("mTA", L3TimingAdvanceCodec) >>, << N(4) >>)

\* Messages whose body is kept as it is.
Opaque(n) == n :> Vector(0, 3)
L3ExtendedMeasurementOrder == Msg(\h37, Opaque("mData"))
L3ExtendedMeasurementOrderCodec == OpaqueBody("mData")
L3NotificationNCH == Msg(\h20, Opaque("mData"))
L3NotificationNCHCodec == OpaqueBody("mData")
L3NotificationResponse == Msg(\h26, Opaque("mData"))
L3NotificationResponseCodec == OpaqueBody("mData")
L3ImmediatePacketAssignment == Msg(\h69, Opaque("mBody"))
L3ImmediatePacketAssignmentCodec == OpaqueBody("mBody")
L3UTRANClassmarkChange == Msg(\h60, Opaque("mClassmark"))
L3UTRANClassmarkChangeCodec == OpaqueBody("mClassmark")
L3CDMA2000ClassmarkChange == Msg(\h62, Opaque("mClassmark"))
L3CDMA2000ClassmarkChangeCodec == OpaqueBody("mClassmark")
L3IntersysToUTRANHOCommand == Msg(\h63, Opaque("mData"))
L3IntersysToUTRANHOCommandCodec == OpaqueBody("mData")
L3IntersysToCDMA2000HOCommand == Msg(\h64, Opaque("mData"))
L3IntersysToCDMA2000HOCommandCodec == OpaqueBody("mData")
L3GERANIUClassmarkChange == Msg(\h65, Opaque("mClassmark"))
L3GERANIUClassmarkChangeCodec == OpaqueBody("mClassmark")
L3EnhancedMeasurementRepUL == Msg(\h104, Opaque("mData"))
L3EnhancedMeasurementRepULCodec == OpaqueBody("mData")
L3MeasurementInfoDL == Msg(\h105, Opaque("mData"))
L3MeasurementInfoDLCodec == OpaqueBody("mData")
L3SystemInformationType2quater == Msg(\h07, Opaque("mBody"))
L3SystemInformationType2quaterCodec == OpaqueBody("mBody")

\* Messages without a body.
L3ConfigurationChangeAcknowledge == Msg(\h31, NoMembers)
L3ConfigurationChangeAcknowledgeCodec == EmptyBody
L3PartialReleaseComplete == Msg(\h0F, NoMembers)
L3PartialReleaseCompleteCodec == EmptyBody
L3DTMReject == Msg(\h49, NoMembers)
L3DTMRejectCodec == EmptyBody
L3DTMRequest == Msg(\h4A, NoMembers)
L3DTMRequestCodec == EmptyBody
L3DTMAssignmentCommand == Msg(\h4C, NoMembers)
L3DTMAssignmentCommandCodec == EmptyBody
L3DTMInformation == Msg(\h4D, NoMembers)
L3DTMInformationCodec == EmptyBody
L3PacketInformation == Msg(\h4E, NoMembers)
L3PacketInformationCodec == EmptyBody
L3SystemInformationType15 == Msg(\h43, NoMembers)
L3SystemInformationType15Codec == EmptyBody
L3SystemInformationType13alt == Msg(\h44, NoMembers)
L3SystemInformationType13altCodec == EmptyBody
L3SystemInformationType2n == Msg(\h45, NoMembers)
L3SystemInformationType2nCodec == EmptyBody
L3SystemInformationType21 == Msg(\h46, NoMembers)
L3SystemInformationType21Codec == EmptyBody
L3SystemInformationType22 == Msg(\h47, NoMembers)
L3SystemInformationType22Codec == EmptyBody
L3SystemInformationType23 == Msg(\h4F, NoMembers)
L3SystemInformationType23Codec == EmptyBody
L3NotificationFACCH == Msg(\h101, NoMembers)
L3NotificationFACCHCodec == EmptyBody
L3UplinkFree == Msg(\h102, NoMembers)
L3UplinkFreeCodec == EmptyBody
L3VBSVGCSRecon == Msg(\h106, NoMembers)
L3VBSVGCSReconCodec == EmptyBody
L3VBSVGCSRecon2 == Msg(\h107, NoMembers)
L3VBSVGCSRecon2Codec == EmptyBody
L3VGCSAddInfo == Msg(\h108, NoMembers)
L3VGCSAddInfoCodec == EmptyBody
L3VGCSMSInfo == Msg(\h109, NoMembers)
L3VGCSMSInfoCodec == EmptyBody
L3VGCSSNeighCellInfo == Msg(\h10C, NoMembers)
L3VGCSSNeighCellInfoCodec == EmptyBody
L3NotifyAppData == Msg(\h10D, NoMembers)
L3NotifyAppDataCodec == EmptyBody

\* The alternatives of the variant, in its order.
RRM == <<
    Alternative("L3PagingRequestType1", L3PagingRequestType1, L3PagingRequestType1Codec),
    Alternative("L3PagingRequestType2", L3PagingRequestType2, L3PagingRequestType2Codec),
    Alternative("L3PagingRequestType3", L3PagingRequestType3, L3PagingRequestType3Codec),
    Alternative("L3PagingResponse", L3PagingResponse, L3PagingResponseCodec),
    Alternative("L3ClassmarkChange", L3ClassmarkChange, L3ClassmarkChangeCodec),
    Alternative("L3ClassmarkEnquiry", L3ClassmarkEnquiry, L3ClassmarkEnquiryCodec),
    Alternative("L3MeasurementReport", L3MeasurementReport, L3MeasurementReportCodec),
    Alternative("L3ChannelRelease", L3ChannelRelease, L3ChannelReleaseCodec),
    Alternative("L3RRStatus", L3RRStatus, L3RRStatusCodec),
    Alternative("L3AssignmentCommand", L3AssignmentCommand, L3AssignmentCommandCodec),
    Alternative("L3AssignmentComplete", L3AssignmentComplete, L3AssignmentCompleteCodec),
    Alternative("L3AssignmentFailure", L3AssignmentFailure, L3AssignmentFailureCodec),
    Alternative("L3ImmediateAssignment", L3ImmediateAssignment, L3ImmediateAssignmentCodec),
    Alternative("L3ImmediateAssignmentExtended", L3ImmediateAssignmentExtended, L3ImmediateAssignmentExtendedCodec),
    Alternative("L3ImmediateAssignmentReject", L3ImmediateAssignmentReject, L3ImmediateAssignmentRejectCodec),
    Alternative("L3AdditionalAssignment", L3AdditionalAssignment, L3AdditionalAssignmentCodec),
    Alternative("L3HandoverCommand", L3HandoverCommand, L3HandoverCommandCodec),
    Alternative("L3HandoverComplete", L3HandoverComplete, L3HandoverCompleteCodec),
    Alternative("L3HandoverFailure", L3HandoverFailure, L3HandoverFailureCodec),
    Alternative("L3PhysicalInformation", L3PhysicalInformation, L3PhysicalInformationCodec),
    Alternative("L3CipheringModeCommand", L3CipheringModeCommand, L3CipheringModeCommandCodec),
    Alternative("L3CipheringModeComplete", L3CipheringModeComplete, L3CipheringModeCompleteCodec),
    Alternative("L3ChannelModeModify", L3ChannelModeModify, L3ChannelModeModifyCodec),
    Alternative("L3ChannelModeModifyAcknowledge", L3ChannelModeModifyAcknowledge, L3ChannelModeModifyAcknowledgeCodec),
    Alternative("L3GPRSSuspensionRequest", L3GPRSSuspensionRequest, L3GPRSSuspensionRequestCodec),
    Alternative("L3ApplicationInformation", L3ApplicationInformation, L3ApplicationInformationCodec),
    Alternative("L3ChannelRequest", L3ChannelRequest, L3ChannelRequestCodec),
    Alternative("L3HandoverAccess", L3HandoverAccess, L3HandoverAccessCodec),
    Alternative("L3SystemInformationType1", L3SystemInformationType1, L3SystemInformationType1Codec),
    Alternative("L3SystemInformationType2", L3SystemInformationType2, L3SystemInformationType2Codec),
    Alternative("L3SystemInformationType2bis", L3SystemInformationType2bis, L3SystemInformationType2bisCodec),
    Alternative("L3SystemInformationType2ter", L3SystemInformationType2ter, L3SystemInformationType2terCodec),
    Alternative("L3SystemInformationType3", L3SystemInformationType3, L3SystemInformationType3Codec),
    Alternative("L3SystemInformationType4", L3SystemInformationType4, L3SystemInformationType4Codec),
    Alternative("L3SystemInformationType5", L3SystemInformationType5, L3SystemInformationType5Codec),
    Alternative("L3SystemInformationType5bis", L3SystemInformationType5bis, L3SystemInformationType5bisCodec),
    Alternative("L3SystemInformationType5ter", L3SystemInformationType5ter, L3SystemInformationType5terCodec),
    Alternative("L3SystemInformationType6", L3SystemInformationType6, L3SystemInformationType6Codec),
    Alternative("L3SystemInformationType7", L3SystemInformationType7, L3SystemInformationType7Codec),
    Alternative("L3SystemInformationType8", L3SystemInformationType8, L3SystemInformationType8Codec),
    Alternative("L3SystemInformationType9", L3SystemInformationType9, L3SystemInformationType9Codec),
    Alternative("L3SystemInformationType13", L3SystemInformationType13, L3SystemInformationType13Codec),
    Alternative("L3SystemInformationType16", L3SystemInformationType16, L3SystemInformationType16Codec),
    Alternative("L3SystemInformationType17", L3SystemInformationType17, L3SystemInformationType17Codec),
    Alternative("L3ConfigurationChangeCommand", L3ConfigurationChangeCommand, L3ConfigurationChangeCommandCodec),
    Alternative("L3ConfigurationChangeAcknowledge", L3ConfigurationChangeAcknowledge, L3ConfigurationChangeAcknowledgeCodec),
    Alternative("L3ConfigurationChangeReject", L3ConfigurationChangeReject, L3ConfigurationChangeRejectCodec),
    Alternative("L3PartialRelease", L3PartialRelease, L3PartialReleaseCodec),
    Alternative("L3PartialReleaseComplete", L3PartialReleaseComplete, L3PartialReleaseCompleteCodec),
    Alternative("L3ExtendedMeasurementReport", L3ExtendedMeasurementReport, L3ExtendedMeasurementReportCodec),
    Alternative("L3ExtendedMeasurementOrder", L3ExtendedMeasurementOrder, L3ExtendedMeasurementOrderCodec),
    Alternative("L3FrequencyRedefinition", L3FrequencyRedefinition, L3FrequencyRedefinitionCodec),
    Alternative("L3NotificationNCH", L3NotificationNCH, L3NotificationNCHCodec),
    Alternative("L3NotificationResponse", L3NotificationResponse, L3NotificationResponseCodec),
    Alternative("L3VGCSUplinkGrant", L3VGCSUplinkGrant, L3VGCSUplinkGrantCodec),
    Alternative("L3UplinkRelease", L3UplinkRelease, L3UplinkReleaseCodec),
    Alternative("L3UplinkBusy", L3UplinkBusy, L3UplinkBusyCodec),
    Alternative("L3TalkerIndication", L3TalkerIndication, L3TalkerIndicationCodec),
    Alternative("L3PriorityUplinkRequest", L3PriorityUplinkRequest, L3PriorityUplinkRequestCodec),
    Alternative("L3DataIndication", L3DataIndication, L3DataIndicationCodec),
    Alternative("L3DataIndication2", L3DataIndication2, L3DataIndication2Codec),
    Alternative("L3DTMAssignmentFailure", L3DTMAssignmentFailure, L3DTMAssignmentFailureCodec),
    Alternative("L3DTMReject", L3DTMReject, L3DTMRejectCodec),
    Alternative("L3DTMRequest", L3DTMRequest, L3DTMRequestCodec),
    Alternative("L3PacketAssignment", L3PacketAssignment, L3PacketAssignmentCodec),
    Alternative("L3ImmediatePacketAssignment", L3ImmediatePacketAssignment, L3ImmediatePacketAssignmentCodec),
    Alternative("L3DTMAssignmentCommand", L3DTMAssignmentCommand, L3DTMAssignmentCommandCodec),
    Alternative("L3DTMInformation", L3DTMInformation, L3DTMInformationCodec),
    Alternative("L3PacketInformation", L3PacketInformation, L3PacketInformationCodec),
    Alternative("L3UTRANClassmarkChange", L3UTRANClassmarkChange, L3UTRANClassmarkChangeCodec),
    Alternative("L3CDMA2000ClassmarkChange", L3CDMA2000ClassmarkChange, L3CDMA2000ClassmarkChangeCodec),
    Alternative("L3IntersysToUTRANHOCommand", L3IntersysToUTRANHOCommand, L3IntersysToUTRANHOCommandCodec),
    Alternative("L3IntersysToCDMA2000HOCommand", L3IntersysToCDMA2000HOCommand, L3IntersysToCDMA2000HOCommandCodec),
    Alternative("L3GERANIUClassmarkChange", L3GERANIUClassmarkChange, L3GERANIUClassmarkChangeCodec),
    Alternative("L3SystemInformationType14", L3SystemInformationType14, L3SystemInformationType14Codec),
    Alternative("L3SystemInformationType15", L3SystemInformationType15, L3SystemInformationType15Codec),
    Alternative("L3SystemInformationType18", L3SystemInformationType18, L3SystemInformationType18Codec),
    Alternative("L3SystemInformationType19", L3SystemInformationType19, L3SystemInformationType19Codec),
    Alternative("L3SystemInformationType20", L3SystemInformationType20, L3SystemInformationType20Codec),
    Alternative("L3SystemInformationType13alt", L3SystemInformationType13alt, L3SystemInformationType13altCodec),
    Alternative("L3SystemInformationType2n", L3SystemInformationType2n, L3SystemInformationType2nCodec),
    Alternative("L3SystemInformationType21", L3SystemInformationType21, L3SystemInformationType21Codec),
    Alternative("L3SystemInformationType22", L3SystemInformationType22, L3SystemInformationType22Codec),
    Alternative("L3SystemInformationType23", L3SystemInformationType23, L3SystemInformationType23Codec),
    Alternative("L3SystemInformationType10", L3SystemInformationType10, L3SystemInformationType10Codec),
    Alternative("L3SystemInformationType10bis", L3SystemInformationType10bis, L3SystemInformationType10bisCodec),
    Alternative("L3SystemInformationType10ter", L3SystemInformationType10ter, L3SystemInformationType10terCodec),
    Alternative("L3NotificationFACCH", L3NotificationFACCH, L3NotificationFACCHCodec),
    Alternative("L3UplinkFree", L3UplinkFree, L3UplinkFreeCodec),
    Alternative("L3EnhancedMeasurementRepUL", L3EnhancedMeasurementRepUL, L3EnhancedMeasurementRepULCodec),
    Alternative("L3MeasurementInfoDL", L3MeasurementInfoDL, L3MeasurementInfoDLCodec),
    Alternative("L3VBSVGCSRecon", L3VBSVGCSRecon, L3VBSVGCSReconCodec),
    Alternative("L3VBSVGCSRecon2", L3VBSVGCSRecon2, L3VBSVGCSRecon2Codec),
    Alternative("L3VGCSAddInfo", L3VGCSAddInfo, L3VGCSAddInfoCodec),
    Alternative("L3VGCSMSInfo", L3VGCSMSInfo, L3VGCSMSInfoCodec),
    Alternative("L3VGCSSNeighCellInfo", L3VGCSSNeighCellInfo, L3VGCSSNeighCellInfoCodec),
    Alternative("L3NotifyAppData", L3NotifyAppData, L3NotifyAppDataCodec),
    Alternative("L3SystemInformationType2quater", L3SystemInformationType2quater, L3SystemInformationType2quaterCodec) >>
===============================================================================
