--------------------------- MODULE SystemInformation ---------------------------
(***************************************************************************)
(* The system information messages of the radio resource family            *)
(* (rr/l3rrmessages.h, rr/l3rrmessages.cpp).  L3X gives the message type   *)
(* and the members of class L3X, L3XCodec its parse(), write() and         *)
(* bodyLength(); a member with a presence flag in the class is there       *)
(* exactly when the flag is set.                                           *)
(***************************************************************************)
EXTENDS CommonElements

FrequencyList == [mBCCHFrequencyList |-> Elt(L3CellChannelDescription)]
FrequencyListV == V("mBCCHFrequencyList", L3CellChannelDescriptionCodec)
RACHControl(n) == V(n, L3RACHControlParametersCodec)

L3SystemInformationType1 ==
    Msg(\h19, [mCellChannelDescription |-> Elt(L3CellChannelDescription),
               mRACHControlParameters |-> Elt(L3RACHControlParameters), mRestOctet |-> Maybe(Bits(8))])
L3SystemInformationType1Codec ==
    Both(<< V("mCellChannelDescription", L3CellChannelDescriptionCodec), RACHControl("mRACHControlParameters"),
            Opt("mRestOctet", << U("mRestOctet", 8) >>) >>, << N(19), Has("mRestOctet", 1) >>)

L3SystemInformationType2 ==
    Msg(\h1A, FrequencyList @@ [mNCCPermitted |-> Elt(L3NCCPermitted), mRACHControlParameters |-> Elt(L3RACHControlParameters)])
L3SystemInformationType2Codec ==
    Both(<< FrequencyListV, V("mNCCPermitted", L3NCCPermittedCodec), RACHControl("mRACHControlParameters") >>, << N(20) >>)

L3SystemInformationType2bis ==
    Msg(\h02, FrequencyList @@ [mRACHControlParameters |-> Elt(L3RACHControlParameters), mRestOctets |-> Vector(0, 1)])
L3SystemInformationType2bisCodec ==
    Both(<< FrequencyListV, RACHControl("mRACHControlParameters"), AtMost("mRestOctets", 1) >>,
         << N(19), Size("mRestOctets", 0) >>)

L3SystemInformationType2ter == Msg(\h03, FrequencyList @@ [mRestOctets |-> Vector(0, 4)])
L3SystemInformationType2terCodec ==
    Both(<< FrequencyListV, AtMost("mRestOctets", 4) >>, << N(16), Size("mRestOctets", 0) >>)

L3SystemInformationType3 ==
    Msg(\h1B, [mCI |-> Elt(L3CellIdentity), mLAI |-> Elt(L3LocationAreaIdentity),
               mControlChannelDescription |-> Elt(L3ControlChannelDescription), mCellOptions |-> Elt(L3CellOptionsBCCH),
               mCellSelectionParameters |-> Elt(L3CellSelectionParameters),
               mRACHControlParameters |-> Elt(L3RACHControlParameters), mRestOctets |-> Elt(L3SI3RestOctets)])
L3SystemInformationType3Codec ==
    Both(<< V("mCI", L3CellIdentityCodec), V("mLAI", L3LocationAreaIdentityCodec),
            V("mControlChannelDescription", L3ControlChannelDescriptionCodec), V("mCellOptions", L3CellOptionsBCCHCodec),
            V("mCellSelectionParameters", L3CellSelectionParametersCodec), RACHControl("mRACHControlParameters"),
            V("mRestOctets", L3SI3RestOctetsCodec) >>, << N(16), LenV("mRestOctets", L3SI3RestOctetsCodec) >>)

L3SystemInformationType4 ==
    Msg(\h1C, [mLAI |-> Elt(L3LocationAreaIdentity), mCellSelectionParameters |-> Elt(L3CellSelectionParameters),
               mRACHControlParameters |-> Elt(L3RACHControlParameters),
               mCBCHChannelDescription |-> Maybe(Elt(L3ChannelDescription)),
               mCbchMobileAlloc |-> Maybe(Elt(L3MobileAllocation)), mRestOctets |-> Elt(L3SIType4RestOctets)])
L3SystemInformationType4Codec ==
    LET head == << V("mLAI", L3LocationAreaIdentityCodec), V("mCellSelectionParameters", L3CellSelectionParametersCodec),
                   RACHControl("mRACHControlParameters"),
                   Tag(255, \h64, "mCBCHChannelDescription",
                       << Const(\h64, 8), V("mCBCHChannelDescription", L3ChannelDescriptionCodec) >>) >>
        alloc == Tag(255, \h72, "mCbchMobileAlloc", << Const(\h72, 8), LV("mCbchMobileAlloc", L3MobileAllocationCodec) >>)
        rest == V("mRestOctets", L3SIType4RestOctetsCodec)
    IN  Codec(head \o << IfSet("mCBCHChannelDescription", << alloc >>), rest >>, head \o << alloc, rest >>,
              << N(10), Has("mCBCHChannelDescription", 4), OptLenV("mCbchMobileAlloc", L3MobileAllocationCodec, 2),
                 LenV("mRestOctets", L3SIType4RestOctetsCodec) >>)

FrequencyListOnly == Both(<< FrequencyListV >>, << N(16) >>)
L3SystemInformationType5 == Msg(\h1D, FrequencyList)
L3SystemInformationType5Codec == FrequencyListOnly
L3SystemInformationType5bis == Msg(\h05, FrequencyList)
L3SystemInformationType5bisCodec == FrequencyListOnly
L3SystemInformationType5ter == Msg(\h06, FrequencyList)
L3SystemInformationType5terCodec == FrequencyListOnly

L3SystemInformationType6 ==
    Msg(\h1E, [mCI |-> Elt(L3CellIdentity), mLAI |-> Elt(L3LocationAreaIdentity), mCellOptions |-> Elt(L3CellOptionsSACCH),
               mNCCPermitted |-> Elt(L3NCCPermitted), mAdditionalIes |-> Trailing])
L3SystemInformationType6Codec ==
    Both(<< V("mCI", L3CellIdentityCodec), V("mLAI", L3LocationAreaIdentityCodec),
            V("mCellOptions", L3CellOptionsSACCHCodec), V("mNCCPermitted", L3NCCPermittedCodec), Trailer >>,
         << N(9), TrailerSize >>)

\* Types 7, 8, 17, 18, 19 and 20: RACH control and neighbour cells, each behind its tag.
NeighbourMembers == [mRACHControl |-> Elt(L3RACHControlParameters),
                     mCellChannelDescriptions |-> ListOf(L3NeighbourCellDescription, 0, 2)]
NeighbourItems == << RACHControl("mRACHControl"), Each("mCellChannelDescriptions", \h21, L3NeighbourCellDescriptionCodec) >>
NeighbourBody == Both(NeighbourItems, << N(3), PerOne("mCellChannelDescriptions", 3) >>)
L3SystemInformationType7 == Msg(\h1F, NeighbourMembers)
L3SystemInformationType7Codec == NeighbourBody
L3SystemInformationType8 == Msg(\h18, NeighbourMembers @@ [mNCCPermitted |-> Elt(L3NCCPermitted)])
L3SystemInformationType8Codec ==
    Both(<< V("mNCCPermitted", L3NCCPermittedCodec) >> \o NeighbourItems, << N(4), PerOne("mCellChannelDescriptions", 3) >>)
L3SystemInformationType17 == Msg(\h3E, NeighbourMembers)
L3SystemInformationType17Codec == NeighbourBody
L3SystemInformationType18 == Msg(\h40, NeighbourMembers)
L3SystemInformationType18Codec == NeighbourBody
L3SystemInformationType19 == Msg(\h41, NeighbourMembers)
L3SystemInformationType19Codec == NeighbourBody
L3SystemInformationType20 == Msg(\h42, NeighbourMembers)
L3SystemInformationType20Codec == NeighbourBody

CellMembers == [mCI |-> Elt(L3CellIdentity), mCellSelectionParameters |-> Elt(L3CellSelectionParameters)]
CellItems == << V("mCI", L3CellIdentityCodec), V("mCellSelectionParameters", L3CellSelectionParametersCodec) >>
CellBody == Both(Append(CellItems, V("mCellOptions", L3CellOptionsBCCHCodec)), << N(5) >>)
L3SystemInformationType9 == Msg(\h04, CellMembers @@ [mCellOptions |-> Elt(L3CellOptionsBCCH)])
L3SystemInformationType9Codec == CellBody
L3SystemInformationType16 == Msg(\h3D, CellMembers @@ [mCellOptions |-> Elt(L3CellOptionsBCCH)])
L3SystemInformationType16Codec == CellBody
L3SystemInformationType14 == Msg(\h01, CellMembers)
L3SystemInformationType14Codec == Both(Append(CellItems, Spare(8)), << N(5) >>)

L3SystemInformationType13 == Msg(\h00, [mRestOctets |-> Elt(L3SI13RestOctets)])
L3SystemInformationType13Codec == Both(<< V("mRestOctets", L3SI13RestOctetsCodec) >>, << LenV("mRestOctets", L3SI13RestOctetsCodec) >>)

\* The three types sent on the SACCH with the short header.
SI10Members == [mCI |-> Elt(L3CellIdentity), mLAI |-> Elt(L3LocationAreaIdentity), mCellOptions |-> Elt(L3CellOptionsBCCH),
                mCellSelectionParameters |-> Elt(L3CellSelectionParameters), mAdditionalIes |-> Trailing]
SI10Body == Both(<< V("mCI", L3CellIdentityCodec), V("mLAI", L3LocationAreaIdentityCodec),
                    V("mCellOptions", L3CellOptionsBCCHCodec),
                    V("mCellSelectionParameters", L3CellSelectionParametersCodec), Trailer >>, << N(10), TrailerSize >>)
L3SystemInformationType10 == Msg(\h100, SI10Members)
L3SystemInformationType10Codec == SI10Body
L3SystemInformationType10bis == Msg(\h10A, SI10Members)
L3SystemInformationType10bisCodec == SI10Body
L3SystemInformationType10ter == Msg(\h10B, SI10Members)
L3SystemInformationType10terCodec == SI10Body
===============================================================================
