---------------------------- MODULE ServiceMessages ----------------------------
(***************************************************************************)
(* The families of few messages: supplementary services (ss/), broadcast   *)
(* and group call control (bcc/, gcc/), location services (ls/), the three *)
(* discriminators whose messages carry any message type (pdss1/,           *)
(* extended/, testproc/), and the short message service (sms/): the        *)
(* messages of the CP layer, which have a layer 3 header, and the RP       *)
(* messages and TP elements they carry, which a caller parses by their     *)
(* class; in the notation of RRMessages.                                   *)
(***************************************************************************)
EXTENDS CCMessages

\* ---- supplementary services ----
L3SupServFacilityMessage == Msg(\h3A, WithTI @@ [mFacility |-> Vector(0, 4)])
L3SupServFacilityMessageCodec == Both(<< IfMore(<< LVOctets("mFacility") >>) >>, << Size("mFacility", 0), N(1) >>)

\* The facility must be there; a version is its tag, an ignored length and one octet.
L3SupServRegisterMessage == Msg(\h3B, WithTI @@ [mFacility |-> Vector(0, 4), mVersionIndicator |-> Maybe(Bits(8))])
\* Fault: what follows the facility is taken for the version, whatever its tag.
L3SupServRegisterMessageCodec ==
    Both(<< Attempt("InvalidIE", << IEI7IE(\h1C), LVOctets("mFacility") >>),
            Tag(255, \h7F, "mVersionIndicator", << Const(\h7F, 8), Const(1, 8), U("mVersionIndicator", 8) >>) >>,
         << N(2), Size("mFacility", 0), Has("mVersionIndicator", 3) >>)

L3SupServReleaseCompleteMessage == Msg(\h2A, WithTI @@ [mFacility |-> Vector(0, 4), mCause |-> Maybe(Elt(L3CauseElement))])
L3SupServReleaseCompleteMessageCodec ==
    LET facility == << Const(\h1C, 8), LVOctets("mFacility") >>
        cause == << Const(\h08, 8), Const(2, 8), V("mCause", L3CauseElementCodec) >>
    IN  Codec(<< Loop(<< Case(127, \h08, "mCause", cause), Case(127, \h1C, "", facility) >>, "octet", "") >>,
              << Opt("mFacility", facility), Opt("mCause", cause) >>,
              << Size("mFacility", 2), Has("mCause", 4) >>)

\* A body that is kept as it is, with a transaction identifier.
BodyMembers == WithTI @@ [mBody |-> Vector(0, 4)]

\* ---- broadcast call control ----
L3BCCSetup == Msg(\h00, BodyMembers)
L3BCCSetupCodec == OpaqueBody("mBody")
L3BCCProceeding == Msg(\h01, BodyMembers)
L3BCCProceedingCodec == OpaqueBody("mBody")
L3BCCConnect == Msg(\h05, BodyMembers)
L3BCCConnectCodec == OpaqueBody("mBody")
L3BCCDisconnect == Msg(\h06, BodyMembers)
L3BCCDisconnectCodec == OpaqueBody("mBody")
L3BCCRelease == Msg(\h07, BodyMembers)
L3BCCReleaseCodec == OpaqueBody("mBody")
L3BCCReleaseComplete == Msg(\h0A, BodyMembers)
L3BCCReleaseCompleteCodec == OpaqueBody("mBody")
L3BCCCallConfirmed == Msg(\h04, WithTI)
L3BCCCallConfirmedCodec == EmptyBody
L3BCCConnectAcknowledge == Msg(\h09, WithTI)
L3BCCConnectAcknowledgeCodec == EmptyBody

\* ---- group call control ----
L3GCCSetup == Msg(\h00, BodyMembers)
L3GCCSetupCodec == OpaqueBody("mBody")
L3GCCAcknowledge == Msg(\h02, BodyMembers)
L3GCCAcknowledgeCodec == OpaqueBody("mBody")
L3GCCProceeding == Msg(\h01, BodyMembers)
L3GCCProceedingCodec == OpaqueBody("mBody")
L3GCCConnect == Msg(\h05, BodyMembers)
L3GCCConnectCodec == OpaqueBody("mBody")
L3GCCDisconnect == Msg(\h06, BodyMembers)
L3GCCDisconnectCodec == OpaqueBody("mBody")
L3GCCRelease == Msg(\h07, BodyMembers)
L3GCCReleaseCodec == OpaqueBody("mBody")
L3GCCReleaseComplete == Msg(\h0A, BodyMembers)
L3GCCReleaseCompleteCodec == OpaqueBody("mBody")
L3GCCCallConfirmed == Msg(\h03, WithTI)
L3GCCCallConfirmedCodec == EmptyBody

\* ---- location services ----
L3LocationServiceRequest == Msg(\h01, [mBody |-> Vector(0, 4)])
\* Fault: bodyLength() reserves the four octets every request of the tests has.
FaultLocationServiceRequestCodec == Both(<< Rest("mBody") >>, << Has("mBody", 4) >>)
L3LocationServiceRequestCodec == OpaqueBody("mBody")
L3LocationServiceProviderMessage == Msg(\h02, [mBody |-> Vector(0, 4)])
L3LocationServiceProviderMessageCodec == OpaqueBody("mBody")

\* ---- discriminators with any message type ----
AnyTypeMembers == [mMti |-> Bits(8), mBody |-> Vector(0, 4)]
L3PDSS1Message == Msg(0, AnyTypeMembers)
L3PDSS1MessageCodec == OpaqueBody("mBody")
L3ExtendedMessage == Msg(0, AnyTypeMembers)
L3ExtendedMessageCodec == OpaqueBody("mBody")
L3TestProcedureMessage == Msg(0, AnyTypeMembers)
L3TestProcedureMessageCodec == OpaqueBody("mBody")

\* The variants of the families.
SSM == <<
    Alternative("L3SupServFacilityMessage", L3SupServFacilityMessage, L3SupServFacilityMessageCodec),
    Alternative("L3SupServRegisterMessage", L3SupServRegisterMessage, L3SupServRegisterMessageCodec),
    Alternative("L3SupServReleaseCompleteMessage", L3SupServReleaseCompleteMessage, L3SupServReleaseCompleteMessageCodec) >>
BCCM == <<
    Alternative("L3BCCSetup", L3BCCSetup, L3BCCSetupCodec),
    Alternative("L3BCCProceeding", L3BCCProceeding, L3BCCProceedingCodec),
    Alternative("L3BCCConnect", L3BCCConnect, L3BCCConnectCodec),
    Alternative("L3BCCDisconnect", L3BCCDisconnect, L3BCCDisconnectCodec),
    Alternative("L3BCCRelease", L3BCCRelease, L3BCCReleaseCodec),
    Alternative("L3BCCReleaseComplete", L3BCCReleaseComplete, L3BCCReleaseCompleteCodec),
    Alternative("L3BCCCallConfirmed", L3BCCCallConfirmed, L3BCCCallConfirmedCodec),
    Alternative("L3BCCConnectAcknowledge", L3BCCConnectAcknowledge, L3BCCConnectAcknowledgeCodec) >>
GCCM == <<
    Alternative("L3GCCSetup", L3GCCSetup, L3GCCSetupCodec),
    Alternative("L3GCCAcknowledge", L3GCCAcknowledge, L3GCCAcknowledgeCodec),
    Alternative("L3GCCProceeding", L3GCCProceeding, L3GCCProceedingCodec),
    Alternative("L3GCCConnect", L3GCCConnect, L3GCCConnectCodec),
    Alternative("L3GCCDisconnect", L3GCCDisconnect, L3GCCDisconnectCodec),
    Alternative("L3GCCRelease", L3GCCRelease, L3GCCReleaseCodec),
    Alternative("L3GCCReleaseComplete", L3GCCReleaseComplete, L3GCCReleaseCompleteCodec),
    Alternative("L3GCCCallConfirmed", L3GCCCallConfirmed, L3GCCCallConfirmedCodec) >>
LSM == <<
    Alternative("L3LocationServiceRequest", L3LocationServiceRequest, L3LocationServiceRequestCodec),
    Alternative("L3LocationServiceProviderMessage", L3LocationServiceProviderMessage, L3LocationServiceProviderMessageCodec) >>
PDSS1M == << Alternative("L3PDSS1Message", L3PDSS1Message, L3PDSS1MessageCodec) >>
EXTENDEDM == << Alternative("L3ExtendedMessage", L3ExtendedMessage, L3ExtendedMessageCodec) >>
TESTPROC == << Alternative("L3TestProcedureMessage", L3TestProcedureMessage, L3TestProcedureMessageCodec) >>

\* ---- short messages ----
\* ---- TP elements ----
\* Numbers, not the swapped digits of the standard.
TPSCTimeStamp ==
    [year |-> Bits(8), month |-> Bits(8), day |-> Bits(8), hour |-> Bits(8), minute |-> Bits(8),
     second |-> Bits(8), timezone |-> Bits(8)]
TPSCTimeStampCodec ==
    Both(<< U("year", 8), U("month", 8), U("day", 8), U("hour", 8), U("minute", 8), U("second", 8),
            U("timezone", 8) >>, << N(7) >>)

\* An address without digits is its length octet and nothing else.
L3TPAddress ==
    [mLength |-> Pick(<< 0, 5, 4, 1 >>), mTon |-> When("mLength", 1..255, Bits(3)),
     mNpi |-> When("mLength", 1..255, Bits(4)),
     mDigits |-> When("mLength", 1..255, Pick(<< << >>, << 4, 9, 1, 7, 0 >>, << 1, 2, 3, 4 >>, << 8 >> >>))]
L3TPAddressCodec ==
    Both(<< U("mLength", 8),
            If("mLength", {0}, << >>, << Const(1, 1), U("mTon", 3), U("mNpi", 4), Special("tpDigits") >>) >>,
         << N(1), Is("mLength", 1..255, 1), Ceil(<< Value("mLength", 4) >>) >>)

Address(n) == V(n, L3TPAddressCodec)
AddressLen(n) == LenV(n, L3TPAddressCodec)
TimeStamp == V("mScts", TPSCTimeStampCodec)

\* mUdl counts septets in the default alphabet and octets in the others.
UserDataMembers ==
    [mPid |-> Bits(8), mDcs |-> Pick(<< 0, 4, 8, \hF1 >>), mUdl |-> Pick(<< 0, 3, 4, 5 >>),
     mUserData |-> Chosen(<< << >>, << 1, 128, 255 >>, << 4, 16, 4, 17 >>, << 200, 50, 155, 253, 6 >> >>)]

L3TPDeliver ==
    Msg(0, [mMms |-> Bits(1), mSri |-> Bits(1), mUdhi |-> Bits(1), mRp |-> Bits(1),
            mOriginatingAddress |-> Elt(L3TPAddress), mScts |-> Elt(TPSCTimeStamp)] @@ UserDataMembers)
L3TPDeliverCodec ==
    Both(<< U("mRp", 1), U("mUdhi", 1), U("mSri", 1), Spare(2), U("mMms", 1), Exact(0, 2),
            Address("mOriginatingAddress"), U("mPid", 8), U("mDcs", 8), TimeStamp, U("mUdl", 8), Special("userData") >>,
         << N(1), AddressLen("mOriginatingAddress"), N(2), Has("mScts", 7), N(1), Size("mUserData", 0) >>)

\* The validity period has one, seven or ten octets, by its format.
L3TPSubmit ==
    Msg(1, [mRd |-> Bits(1), mVpf |-> Pick(<< 0, 1, 2, 3 >>), mSrr |-> Bits(1), mUdhi |-> Bits(1), mRp |-> Bits(1),
            mMr |-> Bits(8), mDestinationAddress |-> Elt(L3TPAddress),
            mValidityPeriod |-> Chosen(<< << >>, << 167 >>, [i \in 1..7 |-> i], [i \in 1..10 |-> 25 * i] >>)]
           @@ UserDataMembers)
L3TPSubmitCodec ==
    Both(<< U("mRp", 1), U("mUdhi", 1), U("mSrr", 1), U("mVpf", 2), U("mRd", 1), Exact(1, 2), U("mMr", 8),
            Address("mDestinationAddress"), U("mPid", 8), U("mDcs", 8),
            If("mVpf", {1}, << Octets("mValidityPeriod", 1) >>, << >>),
            If("mVpf", {2}, << Octets("mValidityPeriod", 7) >>, << >>),
            If("mVpf", {3}, << Octets("mValidityPeriod", 10) >>, << >>),
            U("mUdl", 8), Special("userData") >>,
         << N(2), AddressLen("mDestinationAddress"), N(2), Size("mValidityPeriod", 0), N(1), Size("mUserData", 0) >>)

L3TPStatusReport ==
    Msg(2, [mMr |-> Bits(8), mDestinationAddress |-> Elt(L3TPAddress), mPid |-> Bits(8), mDcs |-> Bits(8),
            mScts |-> Elt(TPSCTimeStamp), mSts |-> Bits(8)])
L3TPStatusReportCodec ==
    Both(<< Spare(6), Exact(2, 2), U("mMr", 8), Address("mDestinationAddress"), U("mPid", 8), U("mDcs", 8), TimeStamp,
            U("mSts", 8) >>,
         << N(2), AddressLen("mDestinationAddress"), N(2), Has("mScts", 7), N(1) >>)

\* The address is never read and the class has no way to set it.
L3TPCommand == Msg(2, [mMr |-> Bits(8), mPid |-> Bits(8), mDcs |-> Bits(8), mCmd |-> Bits(8)])
L3TPCommandCodec ==
    Both(<< Spare(6), Exact(2, 2), U("mMr", 8), U("mPid", 8), U("mDcs", 8), U("mCmd", 8) >>, << N(5) >>)

TPDU == <<
    Alternative("L3TPDeliver", L3TPDeliver, L3TPDeliverCodec),
    Alternative("L3TPSubmit", L3TPSubmit, L3TPSubmitCodec),
    Alternative("L3TPStatusReport", L3TPStatusReport, L3TPStatusReportCodec),
    Alternative("L3TPCommand", L3TPCommand, L3TPCommandCodec) >>

\* ---- RP messages ----
RPHeader == << In("mRpMti", 8, 0..7), U("mMessageRef", 8) >>
RPMembers == [mRpMti |-> Bits(3), mMessageRef |-> Bits(8)]

\* An address that is not there is sent as one without digits, and read back as not there.
SomeAddress ==
    Elt([L3TPAddress EXCEPT !.mLength = Pick(<< 3, 5, 4, 1 >>),
         !.mDigits = Pick(<< << 0, 0, 0 >>, << 4, 9, 1, 7, 0 >>, << 1, 2, 3, 4 >>, << 8 >> >>)])
ReadAddress(n) == << Address(n), IfIn(n, "mLength", {0}, << Drop(n) >>) >>
L3RPData ==
    Msg(0, RPMembers @@ [mOriginatorAddress |-> Maybe(SomeAddress), mDestinationAddress |-> Maybe(SomeAddress),
                         mUserData |-> Vector(0, 4)])
L3RPDataCodec ==
    Codec(RPHeader \o ReadAddress("mOriginatorAddress") \o ReadAddress("mDestinationAddress") \o << LVLenient("mUserData") >>,
          RPHeader \o << Address("mOriginatorAddress"), Address("mDestinationAddress"), LVLenient("mUserData") >>,
          << N(2), AddressLen("mOriginatorAddress"), AddressLen("mDestinationAddress"), N(1), Size("mUserData", 0) >>)

L3RPAck == Msg(2, RPMembers)
L3RPAckCodec == Both(RPHeader, << N(2) >>)

\* A cause of length zero leaves the member as it was constructed.
L3RPError == Msg(4, RPMembers @@ [mCause |-> Pick(<< 0, 9, 5, 2 >>)])
L3RPErrorCodec ==
    Codec(RPHeader \o << U("causeLen", 8), If("causeLen", {0}, << Default("mCause", 0) >>, << Spare(1), U("mCause", 7) >>),
                         Drop("causeLen") >>,
          RPHeader \o << Const(1, 8), U("mCause", 8) >>, << N(4) >>)

L3RPSMMA == Msg(6, RPMembers)
L3RPSMMACodec == Both(RPHeader, << N(2) >>)

RPDU == <<
    Alternative("L3RPData", L3RPData, L3RPDataCodec),
    Alternative("L3RPAck", L3RPAck, L3RPAckCodec),
    Alternative("L3RPError", L3RPError, L3RPErrorCodec),
    Alternative("L3RPSMMA", L3RPSMMA, L3RPSMMACodec) >>

\* ---- CP messages ----
\* The payload: no more octets are taken than there are.
RpduMembers == [mRpdu |-> Vector(0, 5)]
RpduBody == Both(<< LVLenient("mRpdu") >>, << N(1), Size("mRpdu", 0) >>)
L3CPData == Msg(\h01, RpduMembers)
L3CPDataCodec == RpduBody
L3CPSMT == Msg(\h13, RpduMembers)
L3CPSMTCodec == RpduBody
L3CPAck == Msg(\h04, NoMembers)
L3CPAckCodec == EmptyBody

L3CPErr == Msg(\h10, [mCause |-> Pick(<< 0, 9, 5, 2 >>)])
L3CPErrCodec == Codec(<< Spare(1), U("mCause", 7) >>, << U("mCause", 8) >>, << N(1) >>)

\* A reference is expected when bit 2 of the message type says so.
HasReference == {v \in 0..255 : (v \div 2) % 2 = 1}
L3CPStatus ==
    Msg(\h12, [mTpOi |-> Bits(8), mMti |-> Pick(<< 0, 255, 21, 6 >>), mMessageRef |-> When("mMti", HasReference, Bits(8))])
L3CPStatusCodec ==
    Codec(<< U("mTpOi", 8), U("mMti", 8), If("mMti", HasReference, << U("mMessageRef", 8) >>, << >>) >>,
          << U("mTpOi", 8), U("mMti", 8), Opt("mMessageRef", << U("mMessageRef", 8) >>) >>,
          << N(2), Has("mMessageRef", 1) >>)

\* The variant of the family: its alternatives in the order of the declaration.
SMS == <<
    Alternative("L3CPData", L3CPData, L3CPDataCodec),
    Alternative("L3CPAck", L3CPAck, L3CPAckCodec),
    Alternative("L3CPErr", L3CPErr, L3CPErrCodec),
    Alternative("L3CPStatus", L3CPStatus, L3CPStatusCodec),
    Alternative("L3CPSMT", L3CPSMT, L3CPSMTCodec) >>
================================================================================
