------------------------------ MODULE MMMessages ------------------------------
(***************************************************************************)
(* The mobility management messages (mm/l3mmmessages.h, .cpp) and their    *)
(* elements (mm/l3mmelements.h, .cpp), in the notation of RRMessages.      *)
(***************************************************************************)
EXTENDS CommonElements

\* ---- elements ----
\* TypeCode has values of more than the four bits a request carries, as MobileTerminatedCall (100)
\* and LocationUpdateRequest (105): write() sends their low bits.
L3CMServiceType == Pick(<< 1, 11, 100, 105 >>)

\* The name as GSM characters; mCI is written, in 16 bits, when it is not zero.
L3NetworkName ==
    [mAlphabet |-> Pick(<< "7BIT", "7BIT", "UCS2", "7BIT" >>),
     mName |-> Pick(<< << 65 >>, << 68, 64, 122, 32, 48, 57, 71 >>, << 7, 99 >>, << 66, 84, 83, 45, 71, 83, 77, 49 >> >>),
     mCI |-> Maybe(Pick(<< 1, 65535, 300, 2 >>))]
L3NetworkNameCodec == Both(<< Special("networkName") >>, << Special("networkName") >>)

\* Two decimal digits, the units first; the time zone with its sign in bit 8 of the member and in
\* bit 4 of the octet.
SwappedDigits(n) == Conv(n, 8, [v \in 0..255 |-> v \div 16 + 10 * (v % 16)],
                            [y \in 0..165 |-> (y % 10) * 16 + y \div 10])
TimezoneDigits(n) == Conv(n, 8, [v \in 0..255 |-> v \div 16 + 10 * (v % 8) + 128 * ((v \div 8) % 2)],
                             [t \in 0..255 |-> ((t % 128) % 10) * 16 + (t \div 128) * 8 + (((t % 128) \div 10) % 8)])
L3TimeZoneAndTime ==
    [mYear |-> Pick(<< 0, 99, 26, 7 >>), mMonth |-> Pick(<< 1, 12, 9, 10 >>), mDay |-> Pick(<< 1, 31, 28, 9 >>),
     mHour |-> Pick(<< 0, 23, 19, 8 >>), mMinute |-> Pick(<< 0, 59, 5, 40 >>), mSecond |-> Pick(<< 0, 59, 32, 6 >>),
     mTimezone |-> Pick(<< 0, 207, 8, 150 >>)]
L3TimeZoneAndTimeCodec ==
    Both(<< SwappedDigits("mYear"), SwappedDigits("mMonth"), SwappedDigits("mDay"), SwappedDigits("mHour"),
            SwappedDigits("mMinute"), SwappedDigits("mSecond"), TimezoneDigits("mTimezone") >>, << N(7) >>)

\* parseLVMI, parseTLVMI and parseTLVLAI with their writers; the IEI is compared without its top bit.
TLVMI(n, iei) == Tag(127, iei, n, << Const(iei, 8), MobileIdentityLV(n) >>)
TLVLAI(n, iei) == Tag(127, iei, n, << Const(iei, 8), Const(5, 8), V(n, L3LocationAreaIdentityCodec) >>)
Classmark2LV == LV("mClassmark", L3MobileStationClassmark2Codec)

\* ---- messages ----
L3IMSIDetachIndication ==
    Msg(\h01, [mClassmark |-> Elt(L3MobileStationClassmark1), mMobileIdentity |-> Identity])
L3IMSIDetachIndicationCodec ==
    Both(<< V("mClassmark", L3MobileStationClassmark1Codec), MobileIdentityLV("mMobileIdentity") >>,
         << N(2), LenV("mMobileIdentity", L3MobileIdentityCodec) >>)

L3LocationUpdatingAccept ==
    Msg(\h02, [mLAI |-> Elt(L3LocationAreaIdentity), mFollowOnProceed |-> Maybe(Flag),
               mMobileIdentity |-> Maybe(Identity)])
L3LocationUpdatingAcceptCodec ==
    Both(<< V("mLAI", L3LocationAreaIdentityCodec), TLVMI("mMobileIdentity", \h17),
            Tag(255, \hA1, "mFollowOnProceed", << Const(\hA1, 8) >>) >>,
         << N(5), OptLenV("mMobileIdentity", L3MobileIdentityCodec, 2), Has("mFollowOnProceed", 1) >>)

L3LocationUpdatingReject == Msg(\h04, CauseMembers)
L3LocationUpdatingRejectCodec == CauseBody
L3CMServiceReject == Msg(\h22, CauseMembers)
L3CMServiceRejectCodec == CauseBody
L3MMStatus == Msg(\h31, CauseMembers)
L3MMStatusCodec == CauseBody

L3LocationUpdatingRequest ==
    Msg(\h08, [mUpdateType |-> Bits(2), mFollowOnRequest |-> Bits(1), mCKSN |-> Bits(3),
               mClassmark |-> Elt(L3MobileStationClassmark1), mMobileIdentity |-> Identity,
               mLAI |-> Elt(L3LocationAreaIdentity), mAdditionalIes |-> Trailing])
L3LocationUpdatingRequestCodec ==
    Both(<< Spare(1), U("mCKSN", 3), U("mFollowOnRequest", 1), Spare(1), U("mUpdateType", 2),
            V("mLAI", L3LocationAreaIdentityCodec), V("mClassmark", L3MobileStationClassmark1Codec),
            MobileIdentityLV("mMobileIdentity"), Trailer >>,
         << N(8), LenV("mMobileIdentity", L3MobileIdentityCodec), TrailerSize >>)

L3AuthenticationReject == Msg(\h11, NoMembers)
L3AuthenticationRejectCodec == EmptyBody
L3CMServiceAccept == Msg(\h21, NoMembers)
L3CMServiceAcceptCodec == EmptyBody
L3CMServiceAbort == Msg(\h23, NoMembers)
L3CMServiceAbortCodec == EmptyBody
L3MMAbort == Msg(\h29, NoMembers)
L3MMAbortCodec == EmptyBody
L3TMSIReallocationComplete == Msg(\h1B, NoMembers)
L3TMSIReallocationCompleteCodec == EmptyBody

\* The authentication failure parameter must have sixteen octets.
L3AuthenticationFailure ==
    Msg(\h1C, [mCause |-> Bits(8), mAUTS |-> Maybe(Vector(16, 16)), mAdditionalIes |-> Trailing])
L3AuthenticationFailureCodec ==
    Both(<< U("mCause", 8), Tag(127, \h22, "mAUTS", << Const(\h22, 8), Exact(16, 8), Octets("mAUTS", 16) >>), Trailer >>,
         << N(1), Has("mAUTS", 18), TrailerSize >>)

L3AuthenticationRequest == Msg(\h12, [mCKSN |-> Bits(3), mRAND |-> Vector(16, 16), mAdditionalIes |-> Trailing])
L3AuthenticationRequestCodec ==
    Both(<< Spare(5), U("mCKSN", 3), Octets("mRAND", 16), Trailer >>, << N(17), TrailerSize >>)

L3AuthenticationResponse == Msg(\h14, [mSRES |-> Bits(32), mAdditionalIes |-> Trailing])
L3AuthenticationResponseCodec == Both(<< U("mSRES", 32), Trailer >>, << N(4), TrailerSize >>)

L3CMServiceRequest ==
    Msg(\h24, [mClassmark |-> Elt(L3MobileStationClassmark2), mMobileIdentity |-> Identity,
               mServiceType |-> L3CMServiceType, mCKSN |-> Bits(3), mAdditionalIes |-> Trailing])
L3CMServiceRequestCodec ==
    Both(<< Spare(1), U("mCKSN", 3), U("mServiceType", 4), Classmark2LV, MobileIdentityLV("mMobileIdentity"), Trailer >>,
         << N(3), LenV("mClassmark", L3MobileStationClassmark2Codec),
            LenV("mMobileIdentity", L3MobileIdentityCodec), TrailerSize >>)

L3CMServicePrompt == Msg(\h25, [mPD |-> Bits(4), mSAPI |-> Bits(2)])
L3CMServicePromptCodec == Both(<< Spare(1), U("mSAPI", 2), Spare(1), U("mPD", 4) >>, << N(1) >>)

\* A short name of length one, that is, none, is not sent; the time must be there.
L3MMInformation == Msg(\h32, [mShortName |-> Maybe(Elt(L3NetworkName)), mTime |-> Elt(L3TimeZoneAndTime)])
L3MMInformationCodec ==
    Both(<< Tag(127, \h45, "mShortName", << Const(\h45, 8), LV("mShortName", L3NetworkNameCodec) >>),
            ExactIE(\h47), V("mTime", L3TimeZoneAndTimeCodec) >>,
         << OptLenV("mShortName", L3NetworkNameCodec, 2), N(8) >>)

L3IdentityRequest == Msg(\h18, [mType |-> Bits(4)])
L3IdentityRequestCodec == Both(<< Spare(4), U("mType", 4) >>, << N(1) >>)

L3IdentityResponse == Msg(\h19, [mMobileID |-> Identity])
L3IdentityResponseCodec == Both(<< MobileIdentityLV("mMobileID") >>, << N(1), LenV("mMobileID", L3MobileIdentityCodec) >>)

L3TMSIReallocationCommand == Msg(\h1A, [mLAI |-> Elt(L3LocationAreaIdentity), mTMSI |-> Identity])
L3TMSIReallocationCommandCodec ==
    Both(<< V("mLAI", L3LocationAreaIdentityCodec), MobileIdentityLV("mTMSI") >>, << N(6), LenV("mTMSI", L3MobileIdentityCodec) >>)

L3CMReestablishmentRequest ==
    Msg(\h28, [mCKSN |-> Bits(3), mClassmark |-> Elt(L3MobileStationClassmark2), mMobileID |-> Identity,
               mLAI |-> Maybe(Elt(L3LocationAreaIdentity))])
L3CMReestablishmentRequestCodec ==
    Both(<< Spare(5), U("mCKSN", 3), Classmark2LV, MobileIdentityLV("mMobileID"), TLVLAI("mLAI", \h13) >>,
         << N(3), LenV("mClassmark", L3MobileStationClassmark2Codec), LenV("mMobileID", L3MobileIdentityCodec),
            Has("mLAI", 7) >>)

\* The variant of the family: its alternatives in the order of the declaration.
MMM == <<
    Alternative("L3IMSIDetachIndication", L3IMSIDetachIndication, L3IMSIDetachIndicationCodec),
    Alternative("L3CMServiceAccept", L3CMServiceAccept, L3CMServiceAcceptCodec),
    Alternative("L3CMServiceReject", L3CMServiceReject, L3CMServiceRejectCodec),
    Alternative("L3CMServiceAbort", L3CMServiceAbort, L3CMServiceAbortCodec),
    Alternative("L3CMServiceRequest", L3CMServiceRequest, L3CMServiceRequestCodec),
    Alternative("L3CMReestablishmentRequest", L3CMReestablishmentRequest, L3CMReestablishmentRequestCodec),
    Alternative("L3IdentityResponse", L3IdentityResponse, L3IdentityResponseCodec),
    Alternative("L3IdentityRequest", L3IdentityRequest, L3IdentityRequestCodec),
    Alternative("L3MMInformation", L3MMInformation, L3MMInformationCodec),
    Alternative("L3LocationUpdatingAccept", L3LocationUpdatingAccept, L3LocationUpdatingAcceptCodec),
    Alternative("L3LocationUpdatingReject", L3LocationUpdatingReject, L3LocationUpdatingRejectCodec),
    Alternative("L3LocationUpdatingRequest", L3LocationUpdatingRequest, L3LocationUpdatingRequestCodec),
    Alternative("L3TMSIReallocationCommand", L3TMSIReallocationCommand, L3TMSIReallocationCommandCodec),
    Alternative("L3TMSIReallocationComplete", L3TMSIReallocationComplete, L3TMSIReallocationCompleteCodec),
    Alternative("L3MMStatus", L3MMStatus, L3MMStatusCodec),
    Alternative("L3AuthenticationRequest", L3AuthenticationRequest, L3AuthenticationRequestCodec),
    Alternative("L3AuthenticationResponse", L3AuthenticationResponse, L3AuthenticationResponseCodec),
    Alternative("L3AuthenticationReject", L3AuthenticationReject, L3AuthenticationRejectCodec),
    Alternative("L3AuthenticationFailure", L3AuthenticationFailure, L3AuthenticationFailureCodec),
    Alternative("L3CMServicePrompt", L3CMServicePrompt, L3CMServicePromptCodec),
    Alternative("L3MMAbort", L3MMAbort, L3MMAbortCodec) >>
===============================================================================
