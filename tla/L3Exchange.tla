------------------------------ MODULE L3Exchange ------------------------------
(***************************************************************************)
(* One layer 3 message from a sender that builds it to a receiver that     *)
(* parses it and to a second receiver the first one passes it on to, as an *)
(* application on this library does.  On its way the frame may lose its    *)
(* last octets or gain an element that the receiver does not know, or one  *)
(* with nothing in it that it knows.                                       *)
(***************************************************************************)
EXTENDS RRMessages, MMMessages, GPRSMessages, ServiceMessages

-------------------------------------------------------------------------------
(***************************************************************************)
(* parseL3() and writeL3() (parser.cpp) with the layer 3 header            *)
(* (l3header.cpp): the message a frame is taken for, and the frame made of *)
(* a message.  A message is the name of its class and its object.          *)
(***************************************************************************)
\* L3PD
GroupCallControl == 0
BroadcastCallControl == 1
CallControl == 3
MobilityManagement == 5
RadioResource == 6
GPRSMobilityManagement == 8
ShortMessages == 9
GPRSSessionManagement == 10
SupplementaryServices == 11
LocationServices == 12
PacketDomainSS1 == 13
ExtendedPD == 14
TestProcedure == 15
\* Not discriminators: the RP messages and TP elements, which have no layer 3 header and whose
\* class the caller knows.
RPLayer == 16
TPLayer == 17
Headerless == {RPLayer, TPLayer}

\* The variant of each protocol discriminator.
Variants == (RadioResource :> RRM) @@ (MobilityManagement :> MMM) @@ (CallControl :> CCM)
            @@ (GPRSMobilityManagement :> GMM) @@ (GPRSSessionManagement :> SM) @@ (ShortMessages :> SMS)
            @@ (SupplementaryServices :> SSM) @@ (BroadcastCallControl :> BCCM) @@ (GroupCallControl :> GCCM)
            @@ (LocationServices :> LSM) @@ (PacketDomainSS1 :> PDSS1M) @@ (ExtendedPD :> EXTENDEDM)
            @@ (TestProcedure :> TESTPROC) @@ (RPLayer :> RPDU) @@ (TPLayer :> TPDU)

\* Discriminators whose messages carry a transaction identifier / six bits of message type.
TIDialogs == {3, 11, 1, 0}
SixBitTypes == TIDialogs \union {5}
Reserved == {2, 4, 7}
\* Discriminators with one class for every message type.
AnyType == {PacketDomainSS1, ExtendedPD, TestProcedure}
kRRTifShortBase == 256

isNoHeaderShort(mti) == mti >= \h181

\* makeParseTable: the first alternative with a message type gets its slot; the access bursts none.
RECURSIVE makeParseTable(_, _)
makeParseTable(pd, alts) ==
    IF alts = << >> THEN << >>
    ELSE (IF isNoHeaderShort(Head(alts).mti) THEN << >> ELSE (<< pd, Head(alts).mti >> :> Head(alts)))
         @@ makeParseTable(pd, Tail(alts))

ParseTable ==
    makeParseTable(RadioResource, RRM) @@ makeParseTable(MobilityManagement, MMM)
    @@ makeParseTable(CallControl, CCM) @@ makeParseTable(GPRSMobilityManagement, GMM)
    @@ makeParseTable(GPRSSessionManagement, SM) @@ makeParseTable(ShortMessages, SMS)
    @@ makeParseTable(SupplementaryServices, SSM) @@ makeParseTable(BroadcastCallControl, BCCM)
    @@ makeParseTable(GroupCallControl, GCCM) @@ makeParseTable(LocationServices, LSM)

\* The classes by their name.
RECURSIVE ByName(_)
ByName(alts) == IF alts = << >> THEN << >> ELSE (Head(alts).name :> Head(alts)) @@ ByName(Tail(alts))

AltNamed == ByName(RRM) @@ ByName(MMM) @@ ByName(CCM) @@ ByName(GMM) @@ ByName(SM) @@ ByName(SMS) @@ ByName(SSM)
            @@ ByName(BCCM) @@ ByName(GCCM) @@ ByName(LSM) @@ ByName(PDSS1M) @@ ByName(EXTENDEDM)
            @@ ByName(TESTPROC) @@ ByName(RPDU) @@ ByName(TPDU)

-------------------------------------------------------------------------------
Rejects(code) == [err |-> code, name |-> "", m |-> << >>, left |-> 0]

\* parseL3Header on the first two octets.
parseL3Header(octet0, octet1) ==
    LET pd == octet0 % 16
        tif == (octet0 \div 16) % 2
    IN  [pd |-> pd, ti |-> octet0 \div 32,
         mti |-> CASE pd \in SixBitTypes -> octet1 % 64
                   [] pd = RadioResource /\ tif = 1 -> kRRTifShortBase + (octet1 % 32)
                   [] pd = 9 -> octet1 % 32
                   [] OTHER -> octet1]

NoHeader == [pd |-> RadioResource, ti |-> 0, mti |-> 0]

\* parseInto: the class's parse() on the body (r is where it leaves the reader), with the
\* transaction identifier or the message type from the header.
Parsed(alt, hdr, r) ==
    IF r.err # "" THEN Rejects(r.err)
    ELSE [err |-> "", name |-> alt.name, left |-> remainingBits(r),
          m |-> CASE "mTI" \in DOMAIN alt.fields -> ("mTI" :> hdr.ti) @@ r.m
                  [] hdr.pd \in AnyType -> ("mMti" :> hdr.mti) @@ r.m
                  [] OTHER -> r.m]

ParseAs(alt, bits, hdr) == Parsed(alt, hdr, ReadAll(alt.codec.r, Reader(bits)))

\* parseStandardBody, behind the header.
ParseBody(hdr, body) ==
    CASE hdr.pd \in Reserved -> Rejects("InvalidPD")
      [] hdr.pd \notin Reserved \union AnyType /\ << hdr.pd, hdr.mti >> \notin DOMAIN ParseTable -> Rejects("InvalidMTI")
      [] OTHER -> ParseAs(IF hdr.pd \in AnyType THEN Variants[hdr.pd][1] ELSE ParseTable[<< hdr.pd, hdr.mti >>],
                          body, hdr)

ParseStandard(wire) ==
    IF Len(wire) < 16 THEN Rejects("TruncatedInput")
    ELSE ParseBody(parseL3Header(NumberOf(SubSeq(wire, 1, 8)), NumberOf(SubSeq(wire, 9, 16))),
                   SubSeq(wire, 17, Len(wire)))

\* parseL3, given what the frame is as a message with a header and as an access burst (of one octet a
\* channel request, of four a handover access).  Four octets are a handover access unless a standard
\* message takes all of them (and even then for BCC and GCC); any longer frame has a header.
ParsedFrame(wire, requireFullConsumption, standard, access) ==
    CASE wire = << >> -> Rejects("TruncatedInput")
      [] Len(wire) = 8 -> access
      [] /\ Len(wire) = 32 /\ access.err = ""
         /\ (standard.err = "" /\ standard.left = 0) => NumberOf(SubSeq(wire, 5, 8)) \in {0, 1} -> access
      [] OTHER -> IF standard.err = "" /\ requireFullConsumption /\ standard.left # 0
                  THEN Rejects("LengthMismatch") ELSE standard

parseL3(wire, requireFullConsumption) ==
    ParsedFrame(wire, requireFullConsumption, ParseStandard(wire),
                ParseAs(AltNamed[IF Len(wire) = 8 THEN "L3ChannelRequest" ELSE "L3HandoverAccess"], wire, NoHeader))

-------------------------------------------------------------------------------
\* encodeL3Header
encodeL3Header(pd, mti, ti) ==
    LET short == pd = RadioResource /\ mti \in kRRTifShortBase..(kRRTifShortBase + 15)
        type == IF short THEN mti % 32 ELSE IF pd \in SixBitTypes THEN mti % 64 ELSE mti % 256
    IN  writeField(writeField(<< >>, (ti % 8) * 32 + (IF short THEN 16 ELSE 0) + pd, 8), type, 8)

\* The bits write() hands to the writer, and the octets bodyLength() reserves for them.
BodyBits(alt, m) == WriteAll(alt.codec.w, m, << >>)
bodyLength(alt, m) == LengthOf(alt.codec.len, m)

\* writeL3
writeL3(pd, alt, m) ==
    LET mti == IF pd \in AnyType THEN m.mMti ELSE alt.mti
        body == InBuffer(BodyBits(alt, m), bodyLength(alt, m))
    IN  IF isNoHeaderShort(alt.mti) \/ pd \in Headerless THEN body ELSE encodeL3Header(pd, mti, Get(m, "mTI")) \o body

-------------------------------------------------------------------------------
CONSTANT PDs    \* the protocol discriminators whose messages are exchanged

VARIABLES
    pd,         \* of the message that is sent
    name,       \* its class
    sent,       \* the object the sender built
    stage,      \* "built", "wire", "parsed", "forwarded", "again", "rejected"
    harm,       \* what happened to the frame: "none", "cut", "extended", "codecs"
    wire,       \* the frame, as bits
    got,        \* the result of the first receiver's parseL3()
    again       \* the result of the second receiver's

vars == << pd, name, sent, stage, harm, wire, got, again >>

Nothing == Rejects("")

Alt == AltNamed[name]

\* parseL3(), or the class's parse() where the caller picks the class.
Decode(alt, bits) == IF pd \in Headerless THEN ParseAs(alt, bits, NoHeader) ELSE parseL3(bits, FALSE)

\* Which optional members the sender may set: none, all, one of them, all but one.
PresenceSets(fields) ==
    LET O == OptionalMembers(fields)
    IN  {{}, O} \union {{x} : x \in O} \union {O \ {x} : x \in O}

Init ==
    /\ pd \in PDs
    /\ \E i \in DOMAIN Variants[pd] :
        LET alt == Variants[pd][i]
        IN  /\ name = alt.name
            /\ \E f \in DOMAIN Fills, P \in PresenceSets(alt.fields) :
                sent = Object(alt.fields, P, Fills[f], i)
    /\ stage = "built" /\ harm = "none" /\ wire = << >> /\ got = Nothing /\ again = Nothing

Write ==
    /\ stage = "built"
    /\ wire' = writeL3(pd, Alt, sent)
    /\ stage' = "wire"
    /\ UNCHANGED << pd, name, sent, harm, got, again >>

\* Octets are lost at the end.
Cut ==
    /\ stage = "wire" /\ harm = "none" /\ OptionalMembers(Alt.fields) \subseteq DOMAIN sent
    /\ \E k \in 1..((Len(wire) \div 8) - 1) : wire' = SubSeq(wire, 1, 8 * k)
    /\ harm' = "cut"
    /\ UNCHANGED << pd, name, sent, stage, got, again >>

\* An element of a later release follows: a tag no message here uses, a length and that many octets.
Unknown == BitsOfOctets(<< \h7A, 2, 1, 2 >>)
Extend ==
    /\ stage = "wire" /\ harm = "none"
    /\ wire' = wire \o Unknown
    /\ harm' = "extended"
    /\ UNCHANGED << pd, name, sent, stage, got, again >>

\* A codec list follows, of a system this receiver does not know.
ForeignCodecs == BitsOfOctets(<< \h40, 2, 3, 0 >>)
AddCodecs ==
    /\ stage = "wire" /\ harm = "none"
    /\ name \in {"L3Setup", "L3CallConfirmed"} /\ "mSupportedCodecs" \notin DOMAIN sent
    /\ wire' = wire \o ForeignCodecs
    /\ harm' = "codecs"
    /\ UNCHANGED << pd, name, sent, stage, got, again >>

Parse ==
    /\ stage = "wire"
    /\ got' = Decode(Alt, wire)
    /\ stage' = IF got'.err = "" THEN "parsed" ELSE "rejected"
    /\ UNCHANGED << pd, name, sent, harm, wire, again >>

\* The received message is written and parsed once more.
Forward ==
    /\ stage = "parsed" /\ \E i \in DOMAIN Variants[pd] : Variants[pd][i].name = got.name
    /\ wire' = writeL3(pd, AltNamed[got.name], got.m)
    /\ stage' = "forwarded"
    /\ UNCHANGED << pd, name, sent, harm, got, again >>

ParseAgain ==
    /\ stage = "forwarded"
    /\ again' = Decode(AltNamed[got.name], wire)
    /\ stage' = "again"
    /\ UNCHANGED << pd, name, sent, harm, wire, got >>

Next == Write \/ Cut \/ Extend \/ AddCodecs \/ Parse \/ Forward \/ ParseAgain

Spec == Init /\ [][Next]_vars
-------------------------------------------------------------------------------
Received == stage \in {"parsed", "rejected"}

\* Where the code does not carry an object over the air, each by itself:
\*   - bodyLength() of the two immediate assignments counts the length octet of a mobile allocation
\*     twice, so an octet of zeroes follows, which is read as a trailing element;
\*   - that of the configuration change leaves out the tag of the channel description, so the
\*     writer runs out of space;
\*   - the mobile allocation of system information 4 is read behind a channel description only;
\*   - the bearer capability of a call proceeding is written but not read;
\*   - a reject with fewer than four references is filled up with its last one;
\*   - readTLVHeader() keeps the tag of an unknown session management element without its top bit.
NotCarried(n, o) ==
    \/ n \in {"L3ImmediateAssignment", "L3ImmediateAssignmentExtended"} /\ "mMobileAllocation" \in DOMAIN o
    \/ n = "L3ConfigurationChangeCommand" /\ "mChanDesc" \in DOMAIN o
    \/ n = "L3SystemInformationType4" /\ "mCbchMobileAlloc" \in DOMAIN o /\ "mCBCHChannelDescription" \notin DOMAIN o
    \/ n = "L3CallProceeding" /\ "mBearerCapability" \in DOMAIN o
    \/ n = "L3ImmediateAssignmentReject" /\ Len(o.mRejected) < 4
    \/ pd = GPRSSessionManagement /\ "mAdditionalIes" \in DOMAIN o /\ o.mAdditionalIes[1] >= 128

\* What a frame can hold of an object: the short progress description and the type of a service
\* request are cut to four bits (writeTV, L3CMServiceRequest::write), so EndToEndISDN arrives as
\* Unspecified and a mobile terminated call as a short message; a supported codec list without
\* codecs is not sent.
Carried(n, o) ==
    LET kept == IF Set(o, "mSupportedCodecs") /\ o.mSupportedCodecs = << >>
                THEN [x \in DOMAIN o \ {"mSupportedCodecs"} |-> o[x]] ELSE o
    IN  CASE n \in {"L3CallProceeding", "L3Alerting", "L3Connect"} /\ Set(o, "mProgress") ->
               [kept EXCEPT !.mProgress.mProgress = @ % 16]
          [] n = "L3CMServiceRequest" -> [kept EXCEPT !.mServiceType = @ % 16]
          [] OTHER -> kept

\* Frames of one and of four octets are told apart from messages with a header by their length.
AccessBurst == name \in {"L3ChannelRequest", "L3HandoverAccess"}
LengthDecides == Len(wire) \in {8, 32}

\* Messages of a fixed length, which the results in them need not fill.
FixedLength == {"L3ExtendedMeasurementReport"}

\* Members that a message without the element has as well, at the value they are constructed with.
Defaulted == {"mMultiRate", "mBearerCapability"}

\* a has no more than b: no member of another value, and vectors that are the start of b's.
RECURSIVE PartOf(_, _, _)
PartOf(fields, a, b) ==
    /\ \A n \in DOMAIN a \ DOMAIN b : fields[n].t = "trailing"
    /\ \A n \in DOMAIN a \intersect DOMAIN b :
        LET t == IF fields[n].t \in {"maybe", "when", "whenin", "whenset"} THEN fields[n].of ELSE fields[n]
        IN  \/ a[n] = b[n]
            \/ t.t = "trailing" \/ n \in Defaulted
            \/ t.t \in {"vector", "list", "chosen"} /\ IsPrefix(a[n], b[n])
            \/ t.t = "elt" /\ PartOf(t.fields, a[n], b[n])


\* A message that was received, even a damaged one, is passed on unchanged: what parse() keeps is
\* what write() sends, the trailing elements included.  Only a codec list that holds no codec of a
\* known system is not passed on.
ForwardIsStable ==
    (stage = "again" /\ ~NotCarried(got.name, got.m)) =>
        (again.err = "" /\ again.name = got.name /\ again.m = Carried(got.name, got.m))

\* A frame that lost its last octets is rejected, or yields the same message with less in it: never
\* another class and never a member with a value that was not on the air.
CutIsNoticed ==
    (stage = "parsed" /\ harm = "cut" /\ ~LengthDecides /\ ~AccessBurst) =>
        (got.name = name /\ PartOf(Alt.fields, got.m, Carried(name, sent)))
===============================================================================
