---------------------------- MODULE CommonElements ----------------------------
(***************************************************************************)
(* The information elements shared by the message families                 *)
(* (common/l3common.h, common/l3common.cpp).  L3X is what an object of the *)
(* class can hold, L3XCodec its parse(), write() and lengthV().            *)
(*                                                                         *)
(* First, the objects the builders and constructors of the message and     *)
(* element classes can make.  A class is the record of its members with    *)
(* what each can hold; an object is a function on the members that have a  *)
(* value.  Every class is sampled in the same four ways: all values at     *)
(* their least and all vectors shortest, all values at their greatest, and *)
(* two mixed patterns that differ from member to member, so that a swapped *)
(* or a shifted member shows.                                              *)
(***************************************************************************)
EXTENDS L3Codec, TLC

Fills == << "low", "high", "mixed", "other" >>

\* ---- what a member can hold ----
Bits(w) == [t |-> "bits", w |-> w]
\* One value per fill, for enumerations and other members with few legal values.
Pick(values) == [t |-> "pick", values |-> values]
\* The same for a vector, which may be empty.
Chosen(values) == [t |-> "chosen", values |-> values]
\* A member of the rest octets: zero is the value it has when it was never set.
Sparse(w) == [t |-> "sparse", w |-> w]
\* A flag: there or not.
Flag == Pick([i \in 1..4 |-> << >>])
Elt(fields) == [t |-> "elt", fields |-> fields]
Vector(lo, hi) == [t |-> "vector", lo |-> lo, hi |-> hi]
BitVector(count) == [t |-> "bitvector", count |-> count]
ListOf(fields, lo, hi) == [t |-> "list", fields |-> fields, lo |-> lo, hi |-> hi]
\* A vector of trailing octets kept as they are (mAdditionalIes and the like).
Trailing == [t |-> "trailing"]
\* A member with a presence flag or a std::optional.
Maybe(type) == [t |-> "maybe", of |-> type]
\* A member that exists for certain values of another (of an element's) member.
When(n, S, type) == [t |-> "when", n |-> n, s |-> S, of |-> type]
WhenIn(e, n, S, type) == [t |-> "whenin", e |-> e, n |-> n, s |-> S, of |-> type]
WhenSet(n, type) == [t |-> "whenset", n |-> n, of |-> type]

\* A message class: its MTI and its members; with its name and its codec, an alternative of the
\* variant of its family.
Msg(mti, fields) == [mti |-> mti, fields |-> fields]
NoMembers == << >>
Alternative(name, msg, codec) == [name |-> name, mti |-> msg.mti, fields |-> msg.fields, codec |-> codec]

-------------------------------------------------------------------------------
FillNo(fill) == CHOOSE i \in 1..4 : Fills[i] = fill

\* A number for every member of a class.
RECURSIVE Numbered(_, _)
Numbered(S, k) ==
    IF S = {} THEN << >>
    ELSE LET x == CHOOSE x \in S : TRUE IN (x :> k) @@ Numbered(S \ {x}, k + 1)

Pattern(w, fill, k) ==
    CASE fill = "low" -> 0
      [] fill = "high" -> 2^w - 1
      [] fill = "mixed" -> (37 * k + 21) % 2^w
      [] fill = "other" -> (2^w - 1) - ((29 * k + 2) % 2^w)

WidePattern(w, fill, k) ==
    [i \in 1..w |-> CASE fill = "low" -> 0
                      [] fill = "high" -> 1
                      [] fill = "mixed" -> (i + k) % 2
                      [] fill = "other" -> ((i * i + k) % 5) % 2]

TrailingSample == [low |-> << >>, high |-> << 255, 1, 51 >>, mixed |-> << 85, 1, 51 >>, other |-> << 0, 0 >>]

Optional(type) == type.t = "maybe"
OptionalMembers(fields) == {n \in DOMAIN fields : Optional(fields[n])}

RECURSIVE Sample(_, _, _)
RECURSIVE Object(_, _, _, _)

\* A value of a type that is always there; << >> stands for an empty vector.
Sample(type, fill, k) ==
    CASE type.t \in {"bits", "sparse"} ->
            IF type.w > 30 THEN WidePattern(type.w, fill, k) ELSE Pattern(type.w, fill, k)
      [] type.t \in {"pick", "chosen"} -> type.values[FillNo(fill)]
      [] type.t = "elt" -> Object(type.fields, OptionalMembers(type.fields), fill, k)
      [] type.t = "vector" ->
            [i \in 1..(IF fill = "low" THEN type.lo ELSE type.hi) |-> Pattern(8, fill, k + 3 * i)]
      [] type.t = "list" ->
            [i \in 1..(IF fill = "low" THEN type.lo ELSE type.hi) |->
                Object(type.fields, OptionalMembers(type.fields), fill, k + i)]
      [] type.t = "trailing" -> TrailingSample[fill]

\* Whether member n of an object has a value, given the members chosen to be present.
Object(fields, present, fill, k) ==
    LET no == Numbered(DOMAIN fields, k)
        plain(n) == Sample(fields[n], fill, no[n])
        has(type, n) ==
            CASE type.t = "sparse" -> Sample(type, fill, no[n]) # 0
              [] type.t \in {"vector", "trailing", "list", "chosen"} -> Sample(type, fill, no[n]) # << >>
              [] OTHER -> TRUE
        in(n) ==
            LET type == fields[n]
            IN  CASE type.t = "maybe" -> n \in present
                  [] type.t = "when" -> plain(type.n) \in type.s /\ has(type.of, n)
                  [] type.t = "whenset" -> type.n \in present /\ has(type.of, n)
                  [] type.t = "whenin" ->
                        LET e == fields[type.e]
                            o == Sample(IF Optional(e) THEN e.of ELSE e, fill, no[type.e])
                        IN  (Optional(e) => type.e \in present) /\ o[type.n] \in type.s /\ has(type.of, n)
                  [] OTHER -> has(type, n)
        value(n) ==
            LET type == fields[n]
            IN  CASE type.t = "bitvector" -> WidePattern(plain(type.count), fill, no[n])
                  [] type.t \in {"maybe", "when", "whenin", "whenset"} ->
                        IF type.of.t = "bitvector"
                        THEN WidePattern(Sample(LET c == fields[type.of.count]
                                                IN  IF c.t \in {"maybe", "when"} THEN c.of ELSE c,
                                                fill, no[type.of.count]), fill, no[n])
                        ELSE Sample(type.of, fill, no[n])
                  [] OTHER -> plain(n)
    IN  [n \in {x \in DOMAIN fields : in(x)} |-> value(n)]

\* ---- the elements ----

L3CellIdentity == [mID |-> Bits(16)]
L3CellIdentityCodec == Both(<< U("mID", 16) >>, << N(2) >>)

\* The digits of MCC and MNC, the first has index 0; a third MNC digit of 15 is none.
L3LocationAreaIdentity ==
    [mMCC0 |-> Pick(<< 0, 9, 2, 5 >>), mMCC1 |-> Pick(<< 0, 9, 6, 0 >>), mMCC2 |-> Pick(<< 0, 9, 2, 1 >>),
     mMNC0 |-> Pick(<< 0, 9, 0, 4 >>), mMNC1 |-> Pick(<< 0, 9, 7, 3 >>), mMNC2 |-> Pick(<< 0, 9, 15, 8 >>),
     mLAC |-> Bits(16)]
L3LocationAreaIdentityCodec ==
    Both(<< U("mMCC1", 4), U("mMCC0", 4), U("mMNC2", 4), U("mMCC2", 4), U("mMNC1", 4), U("mMNC0", 4),
            U("mLAC", 16) >>, << N(5) >>)

\* None, an IMSI with an odd number of digits, a TMSI, an IMEISV with an even number.
L3MobileIdentity ==
    [mType |-> Pick(<< 0, 1, 4, 3 >>),
     mTMSI |-> When("mType", {4}, Bits(32)),
     mDigits |-> When("mType", {1, 2, 3}, Pick(<< << >>, << 9, 1, 2, 3, 0 >>, << >>, << 1, 2, 3, 4 >> >>))]
L3MobileIdentityCodec ==
    Both(<< Special("mobileIdentity") >>, << Special("mobileIdentity") >>)

MobileIdentityLV(n) == LV(n, L3MobileIdentityCodec)
Identity == Elt(L3MobileIdentity)

\* Messages that carry a cause and nothing else.
CauseMembers == [mCause |-> Bits(8)]
CauseBody == Both(<< U("mCause", 8) >>, << N(1) >>)

\* Messages that are a list of optional elements kept as they are, or a cause and such a list.
TrailerMembers == [mAdditionalIes |-> Trailing]
TrailerBody == Both(<< Trailer >>, << TrailerSize >>)
CauseAndTrailer == [mCause |-> Bits(8), mAdditionalIes |-> Trailing]
CauseAndTrailerBody == Both(<< U("mCause", 8), Trailer >>, << N(1), TrailerSize >>)

L3MobileStationClassmark1 ==
    [mRevisionLevel |-> Bits(2), mES_IND |-> Bits(1), mA5_1 |-> Bits(1), mRFPowerCapability |-> Bits(3)]
L3MobileStationClassmark1Codec ==
    Both(<< Spare(1), U("mRevisionLevel", 2), U("mES_IND", 1), U("mA5_1", 1),
            U("mRFPowerCapability", 3) >>, << N(1) >>)

L3MobileStationClassmark2 ==
    [mRevisionLevel |-> Bits(2), mES_IND |-> Bits(1), mA5_1 |-> Bits(1), mRFPowerCapability |-> Bits(3),
     mPSCapability |-> Bits(1), mSSScreenIndicator |-> Bits(2), mSMCapability |-> Bits(1), mVBS |-> Bits(1),
     mVGCS |-> Bits(1), mFC |-> Bits(1), mCM3 |-> Bits(1), mLCSVACapability |-> Bits(1), mUcs2 |-> Bits(1),
     mSoLSA |-> Bits(1), mCMSF |-> Bits(1), mA5_3 |-> Bits(1), mA5_2 |-> Bits(1), mExtended |-> Vector(0, 4)]
L3MobileStationClassmark2Codec ==
    LET body == << Spare(1), U("mRevisionLevel", 2), U("mES_IND", 1), U("mA5_1", 1), U("mRFPowerCapability", 3),
                   Spare(1), U("mPSCapability", 1), U("mSSScreenIndicator", 2), U("mSMCapability", 1),
                   U("mVBS", 1), U("mVGCS", 1), U("mFC", 1), U("mCM3", 1), Spare(1), U("mLCSVACapability", 1),
                   U("mUcs2", 1), U("mSoLSA", 1), U("mCMSF", 1), U("mA5_3", 1), U("mA5_2", 1),
                   ToLength("mExtended") >>
    IN  Codec(<< LengthIn(3..7, "InvalidValue") >> \o body, body, << N(3), Size("mExtended", 0) >>)

L3MobileStationClassmark3 == [mRaw |-> Vector(1, 3)]
L3MobileStationClassmark3Codec ==
    Codec(<< IEI7(32), In("mLength", 8, 1..32), CountedOctets("mRaw", "mLength"), Drop("mLength") >>,
          << Const(32, 8), LVOctets("mRaw") >>, << Size("mRaw", 0) >>)

L3CipheringKeySequenceNumber == [mCIValue |-> Bits(4)]
L3CipheringKeySequenceNumberCodec == Both(<< U("mCIValue", 4) >>, << N(0) >>)

\* The sixteen octets are kept as they came; FrequencyList models the list they stand for.
L3CellChannelDescription == [mRaw |-> Vector(16, 16)]
L3CellChannelDescriptionCodec == Both(<< Octets("mRaw", 16) >>, << N(16) >>)

L3NeighbourCellDescription == [mARfcn |-> Bits(10), mBSIC |-> Bits(6)]
L3NeighbourCellDescriptionCodec == Both(<< U("mARfcn", 10), U("mBSIC", 6) >>, << N(2) >>)

L3ControlChannelDescription ==
    [mMSC_R99 |-> Bits(1), mATT |-> Bits(1), mBS_AG_BLKS_RES |-> Bits(3), mCCCH_CONF |-> Bits(3),
     mSI22IND |-> Bits(1), mCBQ3 |-> Bits(2), mBS_PA_MFRMS |-> Bits(3), mT3212 |-> Bits(8)]
L3ControlChannelDescriptionCodec ==
    Both(<< U("mMSC_R99", 1), U("mATT", 1), U("mBS_AG_BLKS_RES", 3), U("mCCCH_CONF", 3), U("mSI22IND", 1),
            U("mCBQ3", 2), Spare(2), U("mBS_PA_MFRMS", 3), U("mT3212", 8) >>, << N(3) >>)

ChannelMembers ==
    [mTypeAndOffset |-> Bits(5), mTN |-> Bits(3), mTSC |-> Bits(3), mHFlag |-> Bits(1),
     mMAIO |-> When("mHFlag", {1}, Bits(6)), mHSN |-> When("mHFlag", {1}, Bits(6)),
     mARFCN |-> When("mHFlag", {0}, Bits(12))]
ChannelCodec ==
    Both(<< U("mTypeAndOffset", 5), U("mTN", 3), U("mTSC", 3), U("mHFlag", 1),
            If("mHFlag", {1}, << U("mMAIO", 6), U("mHSN", 6) >>, << U("mARFCN", 12) >>) >>, << N(3) >>)
L3ChannelDescription == ChannelMembers
L3ChannelDescriptionCodec == ChannelCodec
L3ChannelDescription2 == ChannelMembers
L3ChannelDescription2Codec == ChannelCodec
L3AdditionalChannelDescription == ChannelMembers
L3AdditionalChannelDescriptionCodec == ChannelCodec

L3PowerCommand == [mCommand |-> Bits(5)]
L3PowerCommandCodec == Both(<< Exact(0, 3), U("mCommand", 5) >>, << N(1) >>)

L3PowerCommandAndAccessType == [maTC |-> Bits(1), mePcMode |-> Bits(1), mfPcEp |-> Bits(1), mCommand |-> Bits(5)]
L3PowerCommandAndAccessTypeCodec ==
    Both(<< U("maTC", 1), U("mePcMode", 1), U("mfPcEp", 1), U("mCommand", 5) >>, << N(1) >>)

\* SignallingOnly, SpeechV1, SpeechV2, SpeechV3; the last is AMR.
L3ChannelMode == [mMode |-> Pick(<< 0, 3, 1, 2 >>)]
L3ChannelModeCodec == Both(<< U("mMode", 8) >>, << N(1) >>)

L3TimingAdvance == [mTimingAdvance |-> Pick(<< 0, 219, 63, 128 >>)]
L3TimingAdvanceCodec == Both(<< In("mTimingAdvance", 8, 0..219) >>, << N(1) >>)

L3CellDescription == [mARFCN |-> Bits(10), mNCC |-> Bits(3), mBCC |-> Bits(3)]
L3CellDescriptionCodec ==
    Both(<< Part("mARFCN", 9, 8), U("mNCC", 3), U("mBCC", 3), Part("mARFCN", 7, 0) >>, << N(2) >>)

L3HandoverReference == [mValue |-> Bits(8)]
L3HandoverReferenceCodec == Both(<< U("mValue", 8) >>, << N(1) >>)

\* Ciphering off, or on with an algorithm numbered from 1; one wire field of four bits.
CipherOff == [mCiphering |-> 0, mAlgorithm |-> 0]
CipherOn(a) == [mCiphering |-> 1, mAlgorithm |-> a]
L3CipheringModeSetting == Pick(<< CipherOff, CipherOn(8), CipherOn(1), CipherOn(3) >>)
L3CipheringModeSettingItem(n) ==
    Conv(n, 4, [v \in 0..15 |-> IF v % 2 = 1 THEN CipherOn((v \div 2) + 1) ELSE CipherOff],
         [o \in {CipherOff} \union {CipherOn(a) : a \in 1..8} |->
            IF o.mCiphering = 1 THEN 2 * (o.mAlgorithm - 1) + 1 ELSE 0])

L3CipheringModeResponse == [mIncludeIMEISV |-> Bits(1)]
L3CipheringModeResponseCodec == Both(<< Spare(3), U("mIncludeIMEISV", 1) >>, << N(0) >>)

L3SynchronizationIndication == [mNCI |-> Bits(1), mROT |-> Bits(1), mSI |-> Bits(2)]
L3SynchronizationIndicationCodec ==
    Both(<< Const(13, 4), U("mNCI", 1), U("mROT", 1), U("mSI", 2) >>, << N(1) >>)

L3NCCPermitted == [mPermitted |-> Bits(8)]
L3NCCPermittedCodec == Both(<< U("mPermitted", 8) >>, << N(1) >>)

L3PageMode == [mPageMode |-> Bits(2)]
L3PageModeCodec == Both(<< In("mPageMode", 4, 0..3) >>, << N(0) >>)

L3RequestReference == [mRA |-> Bits(8), mT1p |-> Bits(5), mT3 |-> Bits(6), mT2 |-> Bits(5)]
L3RequestReferenceCodec == Both(<< U("mRA", 8), U("mT1p", 5), U("mT3", 6), U("mT2", 5) >>, << N(3) >>)

CellOptions(dtx) == [mPWRC |-> Bits(1), mDTX |-> Bits(dtx), mRADIO_LINK_TIMEOUT |-> Bits(4)]
L3CellOptionsBCCH == CellOptions(2)
L3CellOptionsBCCHCodec == Both(<< Spare(1), U("mPWRC", 1), U("mDTX", 2), U("mRADIO_LINK_TIMEOUT", 4) >>, << N(1) >>)

L3CellOptionsSACCH == CellOptions(3)
L3CellOptionsSACCHCodec ==
    Both(<< Part("mDTX", 2, 2), U("mPWRC", 1), Part("mDTX", 1, 0), U("mRADIO_LINK_TIMEOUT", 4) >>, << N(1) >>)

L3CellSelectionParameters ==
    [mCELL_RESELECT_HYSTERESIS |-> Bits(3), mMS_TXPWR_MAX_CCH |-> Bits(5), mACS |-> Bits(1), mNECI |-> Bits(1),
     mRXLEV_ACCESS_MIN |-> Bits(6)]
L3CellSelectionParametersCodec ==
    Both(<< U("mCELL_RESELECT_HYSTERESIS", 3), U("mMS_TXPWR_MAX_CCH", 5), U("mACS", 1), U("mNECI", 1),
            U("mRXLEV_ACCESS_MIN", 6) >>, << N(2) >>)

L3RACHControlParameters ==
    [mMaxRetrans |-> Bits(2), mTxInteger |-> Bits(4), mCellBarAccess |-> Bits(1), mRE |-> Bits(1), mAC |-> Bits(16)]
L3RACHControlParametersCodec ==
    Both(<< U("mMaxRetrans", 2), U("mTxInteger", 4), U("mCellBarAccess", 1), U("mRE", 1),
            Part("mAC", 7, 0), Part("mAC", 15, 8) >>, << N(3) >>)

\* A neighbour cell of the measurement results (three parallel arrays in the class).
NeighbourMeasurement == [mRXLEV_NCELL |-> Bits(6), mBCCH_FREQ_NCELL |-> Bits(5), mBSIC_NCELL |-> Bits(6)]
L3MeasurementResults ==
    [mBA_USED |-> Bits(1), mDTX_USED |-> Bits(1), mRXLEV_FULL_SERVING_CELL |-> Bits(6), mMEAS_VALID |-> Bits(1),
     mRXLEV_SUB_SERVING_CELL |-> Bits(6), mRXQUAL_FULL_SERVING_CELL |-> Bits(3),
     mRXQUAL_SUB_SERVING_CELL |-> Bits(3), mNO_NCELL |-> Pick(<< 0, 7, 6, 6 >>),
     mNCELL |-> ListOf(NeighbourMeasurement, 0, 6)]
L3MeasurementResultsCodec ==
    Both(<< U("mBA_USED", 1), U("mDTX_USED", 1), U("mRXLEV_FULL_SERVING_CELL", 6), Spare(1), U("mMEAS_VALID", 1),
            U("mRXLEV_SUB_SERVING_CELL", 6), Spare(1), U("mRXQUAL_FULL_SERVING_CELL", 3),
            U("mRXQUAL_SUB_SERVING_CELL", 3), U("mNO_NCELL", 3),
            Counted("mNCELL", "mNO_NCELL", 6,
                    Both(<< U("mRXLEV_NCELL", 6), U("mBCCH_FREQ_NCELL", 5), U("mBSIC_NCELL", 6) >>, << >>)) >>,
         << N(16) >>)

L3MultiRateConfiguration == [mOptions |-> Bits(8), mAmrCodecSet |-> Bits(8)]
L3MultiRateConfigurationCodec == Both(<< U("mOptions", 8), U("mAmrCodecSet", 8) >>, << N(2) >>)

L3MobileAllocation == [mData |-> Vector(0, 3)]
L3MobileAllocationCodec == Both(<< ToLength("mData") >>, << Size("mData", 0) >>)

L3DedicatedModeOrTBF == [mTMA |-> Bits(1), mDownlink |-> Bits(1), mDMOrTBF |-> Bits(1)]
L3DedicatedModeOrTBFCodec ==
    Both(<< Spare(1), U("mTMA", 1), U("mDownlink", 1), U("mDMOrTBF", 1) >>, << N(0) >>)

-------------------------------------------------------------------------------
\* The optional groups of the rest octets of SI 3 and SI 4.  mIuModePresent is set when the bit was
\* read and never looked at, so it is left out.
SelectionGroup == << U("mSelPresent", 1), If("mSelPresent", {1},
                     << U("mCBQ", 1), U("mCRO", 6), U("mTO", 3), U("mPT", 5) >>, << >>),
                     U("mPwrOffsetPresent", 1), If("mPwrOffsetPresent", {1}, << U("mPowerOffset", 2) >>, << >>) >>
GprsGroup == << U("mHaveGPRS", 1), If("mHaveGPRS", {1}, << U("mRA_COLOUR", 3), U("mSi13Position", 1) >>, << >>) >>
SelectionMembers ==
    [mSelPresent |-> Sparse(1), mCBQ |-> When("mSelPresent", {1}, Sparse(1)),
     mCRO |-> When("mSelPresent", {1}, Sparse(6)), mTO |-> When("mSelPresent", {1}, Sparse(3)),
     mPT |-> When("mSelPresent", {1}, Sparse(5)), mPwrOffsetPresent |-> Sparse(1),
     mPowerOffset |-> When("mPwrOffsetPresent", {1}, Sparse(2)), mHaveGPRS |-> Sparse(1),
     mRA_COLOUR |-> When("mHaveGPRS", {1}, Sparse(3)), mSi13Position |-> When("mHaveGPRS", {1}, Sparse(1))]

L3SI3RestOctets ==
    SelectionMembers @@
    [mOpaqueTail |-> Trailing, mSi2terInd |-> Sparse(1), mEarlyCmInd |-> Sparse(1), mSchedWherePresent |-> Sparse(1),
     mWhere |-> When("mSchedWherePresent", {1}, Sparse(3)), mUmtsEarlyCmInd |-> Sparse(1),
     mSi2quaterPresent |-> Sparse(1), mSi2quaterInd |-> When("mSi2quaterPresent", {1}, Sparse(1)),
     mIuModeInd |-> When("mHaveGPRS", {0}, Sparse(1)), mSi21Present |-> When("mSchedWherePresent", {0}, Sparse(1))]
L3SI3RestOctetsCodec ==
    LET record == SelectionGroup \o
                  << U("mSi2terInd", 1), U("mEarlyCmInd", 1), U("mSchedWherePresent", 1),
                     If("mSchedWherePresent", {1}, << U("mWhere", 3) >>, << >>) >> \o GprsGroup \o
                  << U("mUmtsEarlyCmInd", 1), U("mSi2quaterPresent", 1),
                     If("mSi2quaterPresent", {1}, << U("mSi2quaterInd", 1) >>, << >>),
                     If("mHaveGPRS", {1}, << >>, << U("mIuModeInd", 1) >>),
                     If("mSchedWherePresent", {1}, << >>,
                        << U("mSi21Present", 1), If("mSi21Present", {1}, << U("mSi21Pos", 1) >>, << >>) >>) >>
        bits == << N(10), Is("mSelPresent", {1}, 15), Is("mPwrOffsetPresent", {1}, 2),
                   Is("mSchedWherePresent", {1}, 2), Is("mHaveGPRS", {1}, 3), Is("mSi2quaterPresent", {1}, 1),
                   Is("mSi21Present", {1}, 1) >>
    IN  Codec(<< RestOctets(record) >>, << RestOctets(Append(record, PadPattern)) >>,
              << RestLength(<< Ceil(bits), Size("mOpaqueTail", 0) >>, << Ceil(bits) >>) >>)

L3SIType4RestOctets ==
    SelectionMembers @@ [mRestSPresent |-> Sparse(1), mRestS |-> When("mRestSPresent", {1}, Vector(0, 2)),
                         mOpaqueTail |-> When("mRestSPresent", {0}, Trailing)]
L3SIType4RestOctetsCodec ==
    LET groups == SelectionGroup \o GprsGroup \o << U("mRestSPresent", 1) >>
        bits == << N(4), Is("mSelPresent", {1}, 15), Is("mPwrOffsetPresent", {1}, 2), Is("mHaveGPRS", {1}, 4) >>
    IN  Codec(<< RestOctets(groups \o << If("mRestSPresent", {1}, << Align, AtMost("mRestS", 99) >>, << >>) >>) >>,
              << IfAny(<< RestOctets(groups \o << PadPattern, Rest("mRestS") >>) >>) >>,
              << RestLength(<< Ceil(bits), Size("mRestS", 0), Size("mOpaqueTail", 0) >>, << >>) >>)

L3GPRSCellOptions ==
    [mNMO |-> Bits(2), mT3168 |-> Bits(3), mT3192 |-> Bits(3), mDRX_TIMER_MAX |-> Bits(3),
     mACCESS_BURST_TYPE |-> Bits(1), mCONTROL_ACK_TYPE |-> Bits(1), mBS_VC_MAX |-> Bits(4),
     mPanPresence |-> Bits(1), mPanDec |-> When("mPanPresence", {1}, Bits(3)),
     mPanInc |-> When("mPanPresence", {1}, Bits(3)), mPanMax |-> When("mPanPresence", {1}, Bits(3)),
     mExtInfoPresence |-> Bits(1), mExtInfoLength |-> When("mExtInfoPresence", {1}, Bits(6)),
     mExtInfo |-> When("mExtInfoPresence", {1}, BitVector("mExtInfoLength"))]
L3GPRSCellOptionsCodec ==
    Both(<< U("mNMO", 2), U("mT3168", 3), U("mT3192", 3), U("mDRX_TIMER_MAX", 3), U("mACCESS_BURST_TYPE", 1),
            U("mCONTROL_ACK_TYPE", 1), U("mBS_VC_MAX", 4), U("mPanPresence", 1),
            If("mPanPresence", {1}, << U("mPanDec", 3), U("mPanInc", 3), U("mPanMax", 3) >>, << >>),
            U("mExtInfoPresence", 1),
            If("mExtInfoPresence", {1},
               << U("mExtInfoLength", 6), CountedBits("mExtInfo", "mExtInfoLength") >>, << >>) >>,
         << N(19), Is("mPanPresence", {1}, 9), Is("mExtInfoPresence", {1}, 6), Value("mExtInfoLength", 1) >>)

L3GprsMobileAllocation ==
    [mHsn |-> Bits(6), mRflNumberListPresent |-> Bits(1),
     mRflNumbers |-> When("mRflNumberListPresent", {1}, Pick(<< << >>, << 15 >>, << 1, 2, 3 >>, << 4, 0 >> >>)),
     mMaPresent |-> Bits(1), mMaLength |-> When("mMaPresent", {0}, Bits(6)),
     mMaBitmap |-> When("mMaPresent", {0}, BitVector("mMaLength"))]
L3GprsMobileAllocationCodec ==
    Both(<< U("mHsn", 6), U("mRflNumberListPresent", 1),
            If("mRflNumberListPresent", {1}, << Special("rflNumbers") >>, << >>), U("mMaPresent", 1),
            If("mMaPresent", {0}, << U("mMaLength", 6), CountedBits("mMaBitmap", "mMaLength") >>, << >>) >>,
         << N(8), PerOne("mRflNumbers", 5), Is("mMaPresent", {0}, 6), Value("mMaLength", 1) >>)

L3GPRSSI13PowerControlParameters ==
    [mALPHA |-> Bits(4), mTAvgW |-> Bits(5), mTAvgT |-> Bits(5), mPcMeasChan |-> Bits(1), mNAvgI |-> Bits(4)]
L3GPRSSI13PowerControlParametersCodec ==
    Both(<< U("mALPHA", 4), U("mTAvgW", 5), U("mTAvgT", 5), U("mPcMeasChan", 1), U("mNAvgI", 4) >>, << N(19) >>)

L3SI13RestOctets ==
    [mPresence |-> Bits(1), mBcchChangeMark |-> Bits(3), mSiChangeField |-> Bits(4), mPresence2 |-> Bits(1),
     mSi13ChangeMark |-> When("mPresence2", {1}, Bits(2)),
     mGprsMa |-> When("mPresence2", {1}, Elt(L3GprsMobileAllocation)), mRAC |-> Bits(8),
     mSPGC_CCCH_SUP |-> Bits(1), mPRIORITY_ACCESS_THR |-> Bits(3), mNETWORK_CONTROL_ORDER |-> Bits(2),
     mCellOptions |-> Elt(L3GPRSCellOptions), mPowerControlParameters |-> Elt(L3GPRSSI13PowerControlParameters)]
L3SI13RestOctetsCodec ==
    Both(<< U("mPresence", 1), U("mBcchChangeMark", 3), U("mSiChangeField", 4), U("mPresence2", 1),
            If("mPresence2", {1}, << U("mSi13ChangeMark", 2), V("mGprsMa", L3GprsMobileAllocationCodec) >>, << >>),
            Spare(1), U("mRAC", 8), U("mSPGC_CCCH_SUP", 1), U("mPRIORITY_ACCESS_THR", 3),
            U("mNETWORK_CONTROL_ORDER", 2), V("mCellOptions", L3GPRSCellOptionsCodec),
            V("mPowerControlParameters", L3GPRSSI13PowerControlParametersCodec), PadPattern >>,
         << Ceil(<< N(24), Is("mPresence2", {1}, 2), OptLenV("mGprsMa", L3GprsMobileAllocationCodec, 0),
                    LenV("mCellOptions", L3GPRSCellOptionsCodec),
                    LenV("mPowerControlParameters", L3GPRSSI13PowerControlParametersCodec) >>) >>)
===============================================================================
