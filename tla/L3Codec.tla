-------------------------------- MODULE L3Codec --------------------------------
(***************************************************************************)
(* How the parse(), write() and bodyLength() of a message or an element    *)
(* are put down.  Each of the hand-written C++ bodies is straight-line code *)
(* over the bit reader and writer with a few recurring shapes (a field, a  *)
(* nested element, an optional element behind its tag, a loop over tagged  *)
(* elements, an opaque tail); a codec is the sequence of those shapes for  *)
(* reading, the one for writing, and the terms of the length.  Members are *)
(* named as in the class; a std::optional without a value, a presence flag *)
(* that is false with the member it guards, and an empty vector are members *)
(* that are not in the domain of the object.                               *)
(***************************************************************************)
EXTENDS Integers, Sequences, SequencesExt, FiniteSets, TLC

(***************************************************************************)
(* The bit-level reader and writer every layer 3 message and information   *)
(* element goes through (bitreader.h, bitwriter.h).  A buffer is a sequence *)
(* of bits, most significant first.  A field of at most 30 bits has a      *)
(* natural number as its value; a wider one (TMSI, RAND words) keeps the   *)
(* tuple of its bits, because the model checker's integers have 32 bits.   *)
(***************************************************************************)
MaxNumber == 30

BitsOf(v, w) == [i \in 1..w |-> (v \div 2^(w - i)) % 2]

RECURSIVE NumberOf(_)
NumberOf(bits) ==
    IF bits = << >> THEN 0 ELSE 2 * NumberOf(Front(bits)) + bits[Len(bits)]

\* The octets of a bit sequence; a last partial octet does not count.
OctetsOf(bits) == [i \in 1..(Len(bits) \div 8) |-> NumberOf(SubSeq(bits, 8 * i - 7, 8 * i))]

BitsOfOctets(octets) ==
    [i \in 1..(8 * Len(octets)) |-> (octets[((i - 1) \div 8) + 1] \div 2^(7 - ((i - 1) % 8))) % 2]

-------------------------------------------------------------------------------
(***************************************************************************)
(* BitReader: the buffer, the position, the number of bits.  `m' collects  *)
(* the members of the object being parsed, `err' the error that stopped    *)
(* it, `base' and `len' the start and the length in octets handed to an    *)
(* element parsed by length, `soft' that a field which does not fit is     *)
(* passed over without an error.                                           *)
(***************************************************************************)
Reader(bits) == [in |-> bits, pos |-> 0, end |-> Len(bits), m |-> << >>,
                 err |-> "", base |-> 0, len |-> 0, soft |-> FALSE]

Fail(s, code) == [s EXCEPT !.err = code]

remainingBits(s) == s.end - s.pos

hasMore(s) == s.pos < s.end

\* The value of the next w bits, which are there.
NextBits(s, w) ==
    LET bits == SubSeq(s.in, s.pos + 1, s.pos + w)
    IN  IF w > MaxNumber THEN bits ELSE NumberOf(bits)

Advance(s, w) == [s EXCEPT !.pos = @ + w]

Put(s, n, v) == [s EXCEPT !.m = (n :> v) @@ @]

\* Fault: the bits past the end count as zero, as they do in peekField.
FaultReadField(s, n, w) ==
    IF s.pos + w > s.end THEN [Put(s, n, IF w > MaxNumber THEN [i \in 1..w |-> 0] ELSE 0) EXCEPT !.pos = s.end]
    ELSE Advance(Put(s, n, NextBits(s, w)), w)
\* readField: the whole field or an error, never part of one.
readField(s, n, w) ==
    IF s.pos + w > s.end THEN Fail(s, "TruncatedInput")
    ELSE Advance(Put(s, n, NextBits(s, w)), w)

\* A field that is read and dropped.
skipField(s, w) == IF s.pos + w > s.end THEN Fail(s, "TruncatedInput") ELSE Advance(s, w)

\* peekField: the bits that are missing at the end count as zero.
peekField(s, w) ==
    LET k == IF s.pos + w > s.end THEN s.end - s.pos ELSE w
    IN  NextBits(s, k) * 2^(w - k)

alignToOctet(s) ==
    LET up == s.pos + ((8 - (s.pos % 8)) % 8)
    IN  [s EXCEPT !.pos = IF up > s.end THEN s.end ELSE up]

\* readBytes: the check counts octets of the buffer, a last partial one included.
readBytes(s, n, count) ==
    IF (s.pos \div 8) + count > (s.end + 7) \div 8 \/ (s.pos % 8 # 0 /\ s.pos + 8 * count > s.end)
    THEN IF count = 0 THEN s ELSE Fail(s, "TruncatedInput")
    ELSE IF count = 0 THEN s
    ELSE Advance(Put(s, n, OctetsOf(SubSeq(s.in, s.pos + 1, s.pos + 8 * count))), 8 * count)

-------------------------------------------------------------------------------
(***************************************************************************)
(* BitWriter: the bits written so far.  The buffer has a fixed length, and *)
(* a bit that does not fit is dropped without an error.                    *)
(***************************************************************************)
\* writeField: the low w bits of the value (writer.writeField masks by shifting).
writeField(out, v, w) == out \o (IF w > MaxNumber THEN v ELSE BitsOf(v, w))

writeBytes(out, octets) == out \o BitsOfOctets(octets)

alignWriter(out) == out \o [i \in 1..((8 - (Len(out) % 8)) % 8) |-> 0]

\* What a buffer of `octets' octets, zero at first, holds after `out' was written to it.
InBuffer(out, octets) ==
    [i \in 1..(8 * octets) |-> IF i <= Len(out) THEN out[i] ELSE 0]

(***************************************************************************)
(* The information elements whose parse() and write() are not made of the  *)
(* shapes of L3Codec.  Each reads with the reader above, given the length  *)
(* it was declared with, and writes an object, a function on the members   *)
(* that have a value.                                                      *)
(***************************************************************************)
Set(o, n) == n \in DOMAIN o
Get(o, n) == IF Set(o, n) THEN o[n] ELSE 0
GetSeq(o, n) == IF Set(o, n) THEN o[n] ELSE << >>
Least(a, b) == IF a < b THEN a ELSE b

\* The octets of the declared length that are left.
Room(s) == s.len - ((s.pos - s.base) \div 8)

(***************************************************************************)
(* L3MobileIdentity: type 0 none, 1 IMSI, 2 IMEI, 3 IMEISV, 4 TMSI.  The   *)
(* digits of a declared length of zero run to the end of the input, because *)
(* `lengthBytes - 1' wraps, and end in an error.                           *)
(***************************************************************************)
MaxDigits == 20
readMobileIdentity(s) ==
    LET r == skipField(s, 8)
        first == NextBits(s, 4)
        odd == NextBits(Advance(s, 4), 1) = 1
        type == NextBits(Advance(s, 5), 3)
        octets == OctetsOf(SubSeq(s.in, r.pos + 1, r.pos + 8 * (s.len - 1)))
        add(digits, octet) == IF Len(digits) + 2 < MaxDigits
                              THEN digits \o << octet % 16, octet \div 16 >> ELSE digits
        digits == FoldLeft(add, IF first < 10 THEN << first >> ELSE << >>, octets)
    IN  CASE r.err # "" -> r
          [] type = 4 -> readField(Put(r, "mType", 4), "mTMSI", 32)
          [] type \in 1..3 ->
                IF s.len = 0 \/ r.pos + 8 * (s.len - 1) > s.end THEN Fail(s, "TruncatedInput")
                ELSE LET kept == IF odd \/ digits = << >> THEN digits ELSE Front(digits)
                         t == Advance(Put(r, "mType", type), 8 * (s.len - 1))
                     IN  IF kept = << >> THEN t ELSE Put(t, "mDigits", kept)
          [] OTHER -> Put(r, "mType", 0)

writeMobileIdentity(o, out) ==
    LET digits == GetSeq(o, "mDigits")
        pair(i) == << IF i + 1 <= Len(digits) THEN digits[i + 1] ELSE 15, digits[i] >>
        nibble(a, v) == writeField(a, v, 4)
        nibbles == FlattenSeq([j \in 1..(Len(digits) \div 2) |-> pair(2 * j)])
    IN  CASE Get(o, "mType") = 4 -> writeField(writeField(out, 15 * 16 + 4, 8), o.mTMSI, 32)
          [] Get(o, "mType") # 4 /\ digits = << >> -> writeField(out, 15 * 16 + Get(o, "mType"), 8)
          [] OTHER -> FoldLeft(nibble, writeField(out, digits[1] * 16 + (Len(digits) % 2) * 8 + o.mType, 8),
                               nibbles)

lengthMobileIdentity(o) ==
    IF Get(o, "mType") = 4 THEN 5
    ELSE IF Get(o, "mType") = 0 THEN 1 ELSE 1 + Len(GetSeq(o, "mDigits")) \div 2

(***************************************************************************)
(* The RFL numbers of the GPRS mobile allocation: five bits each, the last *)
(* says whether another follows; more than eight are read and dropped.     *)
(***************************************************************************)
RECURSIVE readRflNumbers(_, _)
readRflNumbers(s, list) ==
    IF remainingBits(s) < 5 THEN Put(s, "mRflNumbers", list)
    ELSE LET more == IF Len(list) < 8 THEN Append(list, NextBits(s, 4)) ELSE list
             last == NextBits(Advance(s, 4), 1) = 0
         IN  IF last THEN Put(Advance(s, 5), "mRflNumbers", more)
             ELSE readRflNumbers(Advance(s, 5), more)

writeRflNumbers(o, out) ==
    LET list == GetSeq(o, "mRflNumbers")
        add(a, i) == writeField(a, list[i] * 2 + (IF i < Len(list) THEN 1 ELSE 0), 5)
    IN  FoldLeft(add, out, [i \in 1..Len(list) |-> i])

-------------------------------------------------------------------------------
(***************************************************************************)
(* L3NetworkName: the characters of the GSM default alphabet, seven bits   *)
(* each with the lowest bit first on the wire (the octets are filled from  *)
(* their low end and reversed), or sixteen bits each; then the optional    *)
(* country initials.  With initials and no character the initials are not  *)
(* read.                                                                   *)
(***************************************************************************)
gGSMAlphabet ==
    << 64, 163, 36, 165, 232, 233, 249, 236, 242, 231, 10, 216, 248, 13, 197, 229, 68, 95, 70, 71, 76, 79, 80, 67,
       83, 84, 90, 32, 198, 230, 223, 201 >>
    \o << 33, 34, 35, 164 >> \o [i \in 1..27 |-> 36 + i] \o << 161 >>
    \o [i \in 1..26 |-> 64 + i] \o << 196, 214, 209, 220, 167, 191 >>
    \o [i \in 1..26 |-> 96 + i] \o << 228, 246, 241, 252, 225 >>
Space == 32
decodeGSMChar(code) == IF code >= Len(gGSMAlphabet) THEN Space ELSE gGSMAlphabet[code + 1]
encodeGSMChar(char) ==
    LET at == {i \in DOMAIN gGSMAlphabet : gGSMAlphabet[i] = char}
    IN  IF at = {} THEN Space ELSE (CHOOSE i \in at : \A j \in at : i <= j) - 1

readNetworkName(s) ==
    LET r == skipField(s, 8)
        coding == NextBits(Advance(s, 1), 3)
        ci == NextBits(Advance(s, 4), 1)
        spare == NextBits(Advance(s, 5), 3)
        octets == s.len - 1 - 2 * ci
        chars == IF coding = 1 THEN octets \div 2 ELSE (8 * octets - spare) \div 7
        char(i) == IF coding = 1 THEN NumberOf(SubSeq(r.in, r.pos + 16 * i - 7, r.pos + 16 * i))
                   ELSE decodeGSMChar(NumberOf(Reverse(SubSeq(r.in, r.pos + 7 * i - 6, r.pos + 7 * i))))
        named == Put(Put(Advance(r, IF coding = 1 THEN 16 * chars ELSE 8 * octets),
                         "mAlphabet", IF coding = 1 THEN "UCS2" ELSE "7BIT"), "mName", [i \in 1..chars |-> char(i)])
    IN  IF r.err # "" THEN r
        ELSE IF r.pos + 8 * octets > s.end \/ s.len = 0 THEN Fail(s, "TruncatedInput")
        ELSE IF coding # 1 /\ octets = 0
        THEN LET none == Put(Put(r, "mAlphabet", "7BIT"), "mName", << >>)
             IN  IF ci = 1 THEN Put(none, "mCI", 1) ELSE none
        ELSE IF ci = 1 THEN IF hasMore(named) THEN readField(named, "mCI", 16) ELSE Put(named, "mCI", 1) ELSE named

writeNetworkName(o, out) ==
    LET ucs2 == o.mAlphabet = "UCS2"
        octets == (7 * Len(o.mName) + 7) \div 8
        spare == 8 * octets - 7 * Len(o.mName)
        initials == IF Set(o, "mCI") THEN 1 ELSE 0
        head == writeField(out, 128 + (IF ucs2 THEN 16 ELSE spare) + 8 * initials, 8)
        char(c) == IF ucs2 THEN BitsOf(c, 16) ELSE Reverse(BitsOf(encodeGSMChar(c), 7))
        body == FlattenSeq([i \in DOMAIN o.mName |-> char(o.mName[i])])
        named == head \o body \o (IF ucs2 THEN << >> ELSE BitsOf(0, spare))
    IN  IF initials = 1 THEN writeField(named, o.mCI, 16) ELSE named

lengthNetworkName(o) ==
    1 + (IF o.mAlphabet = "UCS2" THEN 2 * Len(o.mName) ELSE (7 * Len(o.mName) + 7) \div 8)
      + (IF Set(o, "mCI") THEN 2 ELSE 0)

-------------------------------------------------------------------------------
(***************************************************************************)
(* L3BCDDigits: two digits per octet, the first in the low nibble, 15 for  *)
(* the missing one.  A digit is 0..9, 10 is '*' and 11 '#'; other codes    *)
(* read as 0.  The '+' an international number starts with repeats mType   *)
(* and is left out, but takes a place of the twenty.  A length too short   *)
(* for the number's header wraps, so that the digits run on.               *)
(***************************************************************************)
bcdDecode(d) == IF d <= 11 THEN d ELSE 0
International == 1
TooMany == 10000
RECURSIVE readDigits(_, _, _, _)
readDigits(s, octets, max, digits) ==
    LET v == NextBits(s, 8)
        one == Append(digits, bcdDecode(v % 16))
        two == IF v \div 16 # 15 /\ Len(one) < max THEN Append(one, bcdDecode(v \div 16)) ELSE one
    IN  IF octets = 0 \/ Len(digits) >= max THEN IF digits = << >> THEN s ELSE Put(s, "mDigits", digits)
        ELSE IF remainingBits(s) < 8 THEN Fail(s, "TruncatedInput")
        ELSE readDigits(Advance(s, 8), octets - 1, max, two)
readBCDDigits(s) ==
    readDigits(s, IF Room(s) < 0 THEN TooMany ELSE Room(s),
               IF Get(s.m, "mType") = International THEN MaxDigits - 1 ELSE MaxDigits, << >>)

writeBCDDigits(o, out) ==
    LET digits == GetSeq(o, "mDigits")
        nibbles(i) == BitsOf(IF 2 * i <= Len(digits) THEN digits[2 * i] ELSE 15, 4) \o BitsOf(digits[2 * i - 1], 4)
    IN  out \o FlattenSeq([i \in 1..((Len(digits) + 1) \div 2) |-> nibbles(i)])

lengthBCDDigits(o) == (Len(GetSeq(o, "mDigits")) + 1) \div 2

-------------------------------------------------------------------------------
(***************************************************************************)
(* L3SupportedCodecList: groups of a system, a length, which is cut to     *)
(* what the element holds, and a bitmap; GSM is system 0 and UMTS 4.       *)
(***************************************************************************)
RECURSIVE readCodecList(_)
readCodecList(s) ==
    LET system == NextBits(s, 8)
        octets == Least(NextBits(Advance(s, 8), 8), Room(s) - 2)
        r == Advance(s, 16)
        bitmap == OctetsOf(SubSeq(r.in, r.pos + 1, r.pos + 8 * octets))
        n == IF system = 0 THEN "mGsmCodecs" ELSE "mUmtsCodecs"
    IN  IF Room(s) < 2 THEN s
        ELSE IF remainingBits(s) < 16 \/ remainingBits(r) < 8 * octets THEN Fail(s, "TruncatedInput")
        ELSE readCodecList(IF system \in {0, 4} /\ octets > 0
                           THEN Put(Advance(r, 8 * octets), n, GetSeq(s.m, n) \o bitmap) ELSE Advance(r, 8 * octets))

writeCodecList(o, out) ==
    LET group(n, system) == IF Set(o, n) THEN BitsOfOctets(<< system, Len(o[n]) >> \o o[n]) ELSE << >>
    IN  out \o group("mGsmCodecs", 0) \o group("mUmtsCodecs", 4)

lengthCodecList(o) ==
    LET group(n) == IF Set(o, n) THEN 2 + Len(o[n]) ELSE 0 IN group("mGsmCodecs") + group("mUmtsCodecs")

(***************************************************************************)
(* L3SubAddress: a count and that many items, each a selector and a length *)
(* in one octet and its data, cut to what the element holds.               *)
(***************************************************************************)
RECURSIVE readSubItems(_, _, _)
readSubItems(s, count, items) ==
    LET octet == NextBits(s, 8)
        room == IF s.len = 0 THEN TooMany ELSE Room(s)
        octets == Least(octet % 32, room - 1)
        r == Advance(s, 8)
        item == [sel |-> octet \div 32, data |-> OctetsOf(SubSeq(r.in, r.pos + 1, r.pos + 8 * octets))]
    IN  IF count = 0 \/ room < 2 THEN Put(s, "mItems", items)
        ELSE IF remainingBits(s) < 8 \/ remainingBits(r) < 8 * octets THEN Fail(s, "TruncatedInput")
        ELSE readSubItems(Advance(r, 8 * octets), count - 1, Append(items, item))
readSubAddress(s) ==
    IF remainingBits(s) < 8 THEN Fail(s, "TruncatedInput")
    ELSE readSubItems(Advance(s, 8), NextBits(s, 8), << >>)

SubItemOctets(item) == << (item.sel % 8) * 32 + (Len(item.data) % 32) >> \o item.data
writeSubAddress(o, out) ==
    out \o BitsOfOctets(<< Len(o.mItems) >> \o FlattenSeq([i \in DOMAIN o.mItems |-> SubItemOctets(o.mItems[i])]))

lengthSubAddress(o) == 1 + Len(FlattenSeq([i \in DOMAIN o.mItems |-> SubItemOctets(o.mItems[i])]))

\* ---- L3TPAddress: two digits an octet, mLength digits in all ----
readTPDigits(s) ==
    LET k == (s.m.mLength + 1) \div 2
        octets == OctetsOf(SubSeq(s.in, s.pos + 1, s.pos + 8 * k))
    IN  IF remainingBits(s) < 8 * k THEN Fail(s, "TruncatedInput")
        ELSE Put(Advance(s, 8 * k), "mDigits",
                 [i \in 1..s.m.mLength |-> LET o == octets[(i + 1) \div 2]
                                           IN  IF i % 2 = 1 THEN o % 16 ELSE o \div 16])

writeTPDigits(o, out) ==
    out \o BitsOfOctets([i \in 1..((Len(o.mDigits) + 1) \div 2) |->
        (IF 2 * i <= Len(o.mDigits) THEN o.mDigits[2 * i] ELSE 15) * 16 + o.mDigits[2 * i - 1]])

\* ---- TP user data: as many octets as its length means in its alphabet, at most those left ----
decodeSmsDcs(dcs) ==
    LET cg == dcs \div 16
    IN  CASE cg < 4 -> << "Gsm7Bit", "Data8Bit", "Ucs2", "Undefined" >>[((dcs \div 4) % 4) + 1]
          [] cg \in {12, 13} -> "Gsm7Bit"
          [] cg = 14 -> "Ucs2"
          [] OTHER -> IF (dcs \div 4) % 2 = 1 THEN "Data8Bit" ELSE "Gsm7Bit"

tpudOctets(udl, dcs) == IF decodeSmsDcs(dcs) = "Gsm7Bit" THEN (udl * 7 + 7) \div 8 ELSE udl

readUserData(s) == readBytes(s, "mUserData", Least(tpudOctets(s.m.mUdl, s.m.mDcs), remainingBits(s) \div 8))

-------------------------------------------------------------------------------
ReadSpecial(kind, s) ==
    CASE kind = "mobileIdentity" -> readMobileIdentity(s)
      [] kind = "rflNumbers" -> readRflNumbers(s, << >>)
      [] kind = "networkName" -> readNetworkName(s)
      [] kind = "bcdDigits" -> readBCDDigits(s)
      [] kind = "codecList" -> readCodecList(s)
      [] kind = "subAddress" -> readSubAddress(s)
      [] kind = "tpDigits" -> readTPDigits(s)
      [] kind = "userData" -> readUserData(s)

WriteSpecial(kind, o, out) ==
    CASE kind = "mobileIdentity" -> writeMobileIdentity(o, out)
      [] kind = "rflNumbers" -> writeRflNumbers(o, out)
      [] kind = "networkName" -> writeNetworkName(o, out)
      [] kind = "bcdDigits" -> writeBCDDigits(o, out)
      [] kind = "codecList" -> writeCodecList(o, out)
      [] kind = "subAddress" -> writeSubAddress(o, out)
      [] kind = "tpDigits" -> writeTPDigits(o, out)
      [] kind = "userData" -> writeBytes(out, GetSeq(o, "mUserData"))

LengthSpecial(kind, o) ==
    CASE kind = "mobileIdentity" -> lengthMobileIdentity(o)
      [] kind = "networkName" -> lengthNetworkName(o)
      [] kind = "bcdDigits" -> lengthBCDDigits(o)
      [] kind = "codecList" -> lengthCodecList(o)
      [] kind = "subAddress" -> lengthSubAddress(o)

-------------------------------------------------------------------------------
\* ---- the shapes: fields ----
U(n, w) == [op |-> "field", n |-> n, w |-> w]
\* Bits hi..lo of member n: a member sent in several pieces.
Part(n, hi, lo) == [op |-> "part", n |-> n, w |-> hi - lo + 1, lo |-> lo]
\* Written as v: ignored when read / rejected when it differs.
Const(v, w) == [op |-> "const", v |-> v, w |-> w]
Spare(w) == Const(0, w)
Exact(v, w) == [op |-> "exact", v |-> v, w |-> w, code |-> "InvalidValue"]
ExactIE(v) == [op |-> "exact", v |-> v, w |-> 8, code |-> "InvalidIE"]
\* A field whose value must lie in S, else InvalidValue.
In(n, w, S) == [op |-> "in", n |-> n, w |-> w, s |-> S]
\* A field of wire value v that is dec[v] in the object; enc goes back.
Conv(n, w, dec, enc) == [op |-> "conv", n |-> n, w |-> w, dec |-> dec, enc |-> enc]

\* ---- nested elements: plain, behind an 8-bit length, a counted or a tagged list ----
V(n, C) == [op |-> "elt", n |-> n, c |-> C]
LV(n, C) == [op |-> "lv", n |-> n, c |-> C]
LVNonEmpty(n, C) == [op |-> "lvnonempty", n |-> n, c |-> C]
\* Items behind a length that must be at least k; what is more than k octets is skipped.
LVFlat(k, items) == [op |-> "lvflat", k |-> k, items |-> items]
Counted(n, count, max, C) == [op |-> "counted", n |-> n, count |-> count, max |-> max, c |-> C]
Each(n, iei, C) == [op |-> "each", n |-> n, iei |-> iei, c |-> C]
\* At most k elements while bits are left, at least one; written k times, the last repeated.
Padded(n, k, C) == [op |-> "padded", n |-> n, k |-> k, c |-> C]

\* ---- octets: k of them, behind a length, to the element's length, at most k, all the rest ----
Octets(n, k) == [op |-> "octets", n |-> n, k |-> k]
LVOctets(n) == [op |-> "lvoctets", n |-> n]
\* Behind a length, but no more than there are.
LVLenient(n) == [op |-> "lvlenient", n |-> n]
ToLength(n) == [op |-> "tolength", n |-> n]
AtMost(n, k) == [op |-> "atmost", n |-> n, k |-> k]
Rest(n) == [op |-> "rest", n |-> n]
\* As many octets (bits) as member count says.
CountedOctets(n, count) == [op |-> "countedoctets", n |-> n, count |-> count]
CountedBits(n, count) == [op |-> "countedbits", n |-> n, count |-> count]

\* ---- control ----
\* Read while bits are left, written when n has a value.
Opt(n, items) == [op |-> "opt", n |-> n, items |-> items]
\* As Opt, when the next octet masked is the tag, which belongs to the items.
Tag(mask, iei, n, items) == [op |-> "tag", mask |-> mask, iei |-> iei, n |-> n, items |-> items]
\* As Tag with seven bits, unless the length behind the tag is not k: then the octets stay.
TagOfLength(iei, k, n, items) == [op |-> "tagoflength", iei |-> iei, k |-> k, n |-> n, items |-> items]
\* As Opt, but the octet is taken first and given up when it is not the tag.
TakenTag(iei, n, items) == [op |-> "takentag", iei |-> iei, n |-> n, items |-> items]
\* A branch on a member read before (of an element read before).
If(n, S, then, else) == [op |-> "if", n |-> n, s |-> S, then |-> then, else |-> else]
IfIn(e, n, S, then) == [op |-> "ifin", e |-> e, n |-> n, s |-> S, then |-> then]
\* While bits are left; while octets of the element's length are left; when n has a value.
IfMore(items) == [op |-> "ifmore", items |-> items]
IfRoom(n, items) == [op |-> "ifroom", n |-> n, items |-> items]
SkipToLength == [op |-> "skiptolength"]
IfSet(n, then) == [op |-> "ifset", n |-> n, then |-> then]
\* while (br.hasMore()): the case whose tag matches the next octet; without one, `other':
\* "break" leaves the loop, "skip" drops a tag, a length and that many octets, "octet" a tag
\* and, if its top bit is set, those too, "tail" puts all that is left into member n.
Case(mask, iei, n, items) == [mask |-> mask, iei |-> iei, n |-> n, items |-> items, once |-> FALSE]
\* A case that does not match any more once the member has a value.
OnceCase(mask, iei, n, items) == [mask |-> mask, iei |-> iei, n |-> n, items |-> items, once |-> TRUE]
Loop(cases, other, n) == [op |-> "loop", cases |-> cases, other |-> other, n |-> n]
\* The optional elements of session management: half-octet ones (iei of four bits), of which a
\* second one is kept or replaces the first, and those with a tag and a length; everything else
\* is put into mAdditionalIes.
Half(iei, n, w, again) == [iei |-> iei, n |-> n, w |-> w, again |-> again]
TLV(iei, n, C) == [iei |-> iei, n |-> n, c |-> C]
Options(half, cases) == [op |-> "options", half |-> half, cases |-> cases]
Need(code) == [op |-> "need", code |-> code]
\* Any failure of the items is this error.
Attempt(code, items) == [op |-> "attempt", code |-> code, items |-> items]
Reject(code) == [op |-> "reject", code |-> code]
\* The declared length of an element is in range, else an error; a tag of which the seven low
\* bits count; a member used while parsing only; a part written when any member has a value.
LengthIn(S, code) == [op |-> "lengthin", s |-> S, code |-> code]
IEI7(v) == [op |-> "iei7", v |-> v, w |-> 8, code |-> "InvalidValue"]
IEI7IE(v) == [op |-> "iei7", v |-> v, w |-> 8, code |-> "InvalidIE"]
Drop(n) == [op |-> "drop", n |-> n]
\* A member that keeps the value it was constructed with when the input has none.
Default(n, v) == [op |-> "default", n |-> n, v |-> v]
IfAny(items) == [op |-> "ifany", items |-> items]
\* A part written when the element n is there and has octets to send.
IfFilled(n, C, items) == [op |-> "iffilled", n |-> n, c |-> C, items |-> items]
Align == [op |-> "align"]
\* Spare bits up to the octet filled with the start of '00101011'B.
PadPattern == [op |-> "pad"]
\* Rest octets: nothing when there is no whole octet; a region of padding octets is kept as it
\* is; otherwise the items, each field passed over when it does not fit, and what follows.
RestOctets(items) == [op |-> "restoctets", items |-> items]
\* An element with a parse() and write() of its own.
Special(kind) == [op |-> "special", kind |-> kind]


\* ---- the terms of bodyLength() and lengthV() ----
N(k) == [op |-> "n", k |-> k]
Has(n, k) == [op |-> "has", n |-> n, k |-> k]
Is(n, S, k) == [op |-> "is", n |-> n, s |-> S, k |-> k]
IsIn(e, n, S, k) == [op |-> "isin", e |-> e, n |-> n, s |-> S, k |-> k]
\* k and the octets of n, when it has any; per element of n, k and its length.
Size(n, k) == [op |-> "size", n |-> n, k |-> k]
PerOne(n, k) == [op |-> "perone", n |-> n, k |-> k]
\* lengthV() of a nested element; k more, when it is present.
LenV(n, C) == [op |-> "lenv", n |-> n, c |-> C]
OptLenV(n, C, k) == [op |-> "optlenv", n |-> n, c |-> C, k |-> k]
\* The same of an element that counts only when it has octets.
FilledLenV(n, C, k) == [op |-> "filledlenv", n |-> n, c |-> C, k |-> k]
\* The value of a member; the octets that hold a number of bits.
Value(n, k) == [op |-> "value", n |-> n, k |-> k]
Ceil(terms) == [op |-> "ceil", terms |-> terms]
\* Rest octets: a region of padding octets; an object without any member; any other.
RestLength(terms, empty) == [op |-> "restlength", terms |-> terms, empty |-> empty]

Codec(r, w, len) == [r |-> r, w |-> w, len |-> len]
Both(items, len) == Codec(items, items, len)
\* A body that is empty / kept as it is in member n; octets of another element's length only.
EmptyBody == Both(<< >>, << >>)
OpaqueBody(n) == Both(<< Rest(n) >>, << Size(n, 0) >>)
Measure(terms) == Codec(<< >>, << >>, terms)
\* Trailing elements that are kept as they are.
Trailer == Rest("mAdditionalIes")
TrailerSize == Size("mAdditionalIes", 0)

-------------------------------------------------------------------------------
\* kRestOctetsPadding, padToOctetWithPattern
Padding == 43
PatternBits(k) == SubSeq(BitsOf(Padding, 8), 1, k)
isAllPadding(octets) == \A i \in DOMAIN octets : octets[i] = Padding

IsPaddingOnly(o) == DOMAIN o = {"mOpaqueTail"} /\ isAllPadding(o.mOpaqueTail)

\* detail::readOpaqueTail: octets while any bit is left, an error for a partial one.
readOpaqueTail(s, n) ==
    IF remainingBits(s) % 8 # 0 THEN Fail(s, "TruncatedInput")
    ELSE readBytes(s, n, remainingBits(s) \div 8)

Masked(v, mask) == CASE mask = 255 -> v
                     [] mask = 127 -> v % 128
                     [] mask = 240 -> v - (v % 16)

\* Members set by an optional part count as present even when they are empty.
Present(s, n) == IF s.err = "" /\ n # "" /\ ~Set(s.m, n) THEN Put(s, n, << >>) ELSE s

-------------------------------------------------------------------------------
RECURSIVE ReadItem(_, _)
RECURSIVE ReadAll(_, _)

ReadAll(items, s) ==
    IF items = << >> \/ s.err # "" THEN s ELSE ReadAll(Tail(items), ReadItem(Head(items), s))

\* An element parsed by the reader at its position, given its length in octets.
ReadElement(s, n, C, len) ==
    LET r == ReadAll(C.r, [s EXCEPT !.m = << >>, !.base = s.pos, !.len = len])
    IN  IF r.err # "" THEN Fail(s, r.err) ELSE Put([s EXCEPT !.pos = r.pos], n, r.m)

\* One more element at the end of list n.
AppendElement(s, n, C) ==
    LET r == ReadElement(s, n, C, 0)
    IN  IF r.err # "" THEN r ELSE Put(r, n, Append(GetSeq(s.m, n), r.m[n]))

\* readField(nbits, out) of the rest octets: FALSE and nothing read when it does not fit.  A
\* member that is zero is left out of the domain there.
SoftField(s, n, w) ==
    IF remainingBits(s) < w THEN s
    ELSE IF NextBits(s, w) = 0 THEN Advance(s, w) ELSE readField(s, n, w)

ReadRestOctets(items, s) ==
    LET octets == OctetsOf(SubSeq(s.in, s.pos + 1, s.end))
        read == alignToOctet(ReadAll(items, [s EXCEPT !.soft = TRUE]))
    IN  IF octets = << >> THEN s
        ELSE IF isAllPadding(octets) THEN readBytes(s, "mOpaqueTail", Len(octets))
        ELSE [readBytes(read, "mOpaqueTail", remainingBits(read) \div 8) EXCEPT !.soft = FALSE]

RECURSIVE ReadLoop(_, _)
ReadLoop(it, s) ==
    LET octet == peekField(s, 8)
        here == {i \in DOMAIN it.cases : /\ Masked(octet, it.cases[i].mask) = it.cases[i].iei
                                         /\ it.cases[i].once => ~Set(s.m, it.cases[i].n)}
        case == it.cases[CHOOSE i \in here : \A j \in here : i <= j]
    IN  IF s.err # "" \/ ~hasMore(s) THEN s
        ELSE IF here # {} THEN ReadLoop(it, Present(ReadAll(case.items, s), case.n))
        ELSE CASE it.other = "break" -> s
               [] it.other = "tail" -> readOpaqueTail(s, it.n)
               [] it.other = "octet" ->
                    LET r == skipField(s, IF octet >= 128 THEN 16 ELSE 8)
                    IN  ReadLoop(it, IF r.err # "" \/ octet < 128 THEN r
                                     ELSE skipField(r, 8 * NextBits(Advance(s, 8), 8)))
               [] it.other = "skip" ->
                    LET r == skipField(s, 16)
                    IN  ReadLoop(it, IF r.err # "" THEN r
                                     ELSE skipField(r, 8 * NextBits(Advance(s, 8), 8)))

\* readTLVHeader and appendTlvToTail: the tag is kept without its top bit.  An element whose
\* parse() fails is put into the tail as one that is not known, from where its parse() stopped.
RECURSIVE ReadOptions(_, _)
ReadOptions(it, s) ==
    LET tail == GetSeq(s.m, "mAdditionalIes")
        Keep(t, octets) == Put(t, "mAdditionalIes", tail \o octets)
        halves == {i \in DOMAIN it.half : it.half[i].iei = NextBits(s, 4)}
        half == it.half[CHOOSE i \in halves : TRUE]
        tag == NextBits(s, 8) % 128
        len == NextBits(Advance(s, 8), 8)
        value == Advance(s, 16)
        known == {i \in DOMAIN it.cases : it.cases[i].iei = tag /\ ~Set(s.m, it.cases[i].n)}
        case == it.cases[CHOOSE i \in known : TRUE]
        r == ReadAll(case.c.r, [value EXCEPT !.m = << >>, !.base = value.pos, !.len = len])
        typed == known # {} /\ r.err = ""
        from == IF known = {} THEN value ELSE [value EXCEPT !.pos = r.pos]
    IN  IF s.err # "" THEN s
        ELSE IF remainingBits(s) >= 8 /\ halves # {}
        THEN ReadOptions(it, IF Set(s.m, half.n) /\ half.again = "keep"
                             THEN Keep(Advance(s, 8), << NextBits(s, 8) >>)
                             ELSE Put(Advance(s, 8), half.n, NextBits(s, 8) % 2^half.w))
        ELSE IF remainingBits(s) < 16
        THEN IF remainingBits(s) % 8 # 0 THEN Fail(s, "TruncatedInput")
             ELSE IF hasMore(s) THEN Keep(Advance(s, 8), << NextBits(s, 8) >>) ELSE s
        ELSE IF typed THEN ReadOptions(it, Put([value EXCEPT !.pos = r.pos], case.n, r.m))
        ELSE IF remainingBits(from) < 8 * len THEN Fail(s, "TruncatedInput")
        ELSE ReadOptions(it, Keep(Advance(from, 8 * len),
                 << tag, len >> \o OctetsOf(SubSeq(s.in, from.pos + 1, from.pos + 8 * len))))

RECURSIVE ReadMany(_, _, _)
ReadMany(s, it, k) ==
    IF k = 0 \/ s.err # "" THEN s ELSE ReadMany(AppendElement(s, it.n, it.c), it, k - 1)

RECURSIVE ReadEach(_, _)
ReadEach(s, it) ==
    IF s.err = "" /\ hasMore(s) /\ peekField(s, 8) = it.iei
    THEN ReadEach(AppendElement(Advance(s, 8), it.n, it.c), it) ELSE s

RECURSIVE ReadPadded(_, _, _)
ReadPadded(s, it, k) ==
    IF s.err # "" \/ k = 0 \/ ~hasMore(s)
    THEN IF s.err = "" /\ ~Set(s.m, it.n) THEN Fail(s, "TruncatedInput") ELSE s
    ELSE ReadPadded(AppendElement(s, it.n, it.c), it, k - 1)

ReadOctets(it, s) ==
    CASE it.op = "octets" -> readBytes(s, it.n, it.k)
      [] it.op = "lvoctets" ->
            LET r == skipField(s, 8)
            IN  IF r.err # "" THEN r ELSE readBytes(r, it.n, NextBits(s, 8))
      [] it.op = "lvlenient" ->
            LET r == skipField(s, 8)
            IN  IF r.err # "" THEN r ELSE readBytes(r, it.n, Least(NextBits(s, 8), remainingBits(r) \div 8))
      [] it.op = "tolength" -> IF Room(s) <= 0 THEN s ELSE readBytes(s, it.n, Room(s))
      [] it.op = "atmost" -> readBytes(s, it.n, Least(remainingBits(s) \div 8, it.k))
      [] it.op = "rest" -> readOpaqueTail(s, it.n)
      [] it.op = "countedoctets" -> readBytes(s, it.n, Get(s.m, it.count))
      [] it.op = "countedbits" ->
            LET k == Get(s.m, it.count)
            IN  IF remainingBits(s) < k THEN Fail(s, "TruncatedInput")
                ELSE Put(Advance(s, k), it.n, SubSeq(s.in, s.pos + 1, s.pos + k))

ReadField(it, s) ==
    LET r == readField(s, it.n, it.w)
        v == NextBits(s, it.w)
    IN  IF r.err # "" THEN r
        ELSE CASE it.op = "part" -> Put(r, it.n, Get(s.m, it.n) + v * 2^it.lo)
               [] it.op = "in" -> IF v \in it.s THEN r ELSE Fail(r, "InvalidValue")
               [] it.op = "conv" -> Put(r, it.n, it.dec[v])

ReadItem(it, s) ==
    CASE it.op = "field" -> IF s.soft THEN SoftField(s, it.n, it.w) ELSE readField(s, it.n, it.w)
      [] it.op \in {"part", "in", "conv"} -> ReadField(it, s)
      [] it.op = "const" -> skipField(s, it.w)
      [] it.op = "exact" ->
            LET r == skipField(s, it.w)
            IN  IF r.err = "" /\ NextBits(s, it.w) # it.v THEN Fail(r, it.code) ELSE r
      [] it.op = "elt" -> ReadElement(s, it.n, it.c, 0)
      [] it.op = "lv" ->
            LET r == skipField(s, 8)
            IN  IF r.err # "" THEN r ELSE ReadElement(r, it.n, it.c, NextBits(s, 8))
      [] it.op = "lvnonempty" ->
            LET r == skipField(s, 8)
            IN  IF r.err # "" \/ NextBits(s, 8) = 0 THEN r ELSE ReadElement(r, it.n, it.c, NextBits(s, 8))
      [] it.op = "lvflat" ->
            LET len == NextBits(s, 8)
                r == skipField(s, 8)
                t == ReadAll(it.items, r)
            IN  IF r.err # "" THEN r ELSE IF len < it.k THEN Fail(s, "TruncatedInput")
                ELSE IF t.err # "" THEN t ELSE skipField(t, 8 * (len - it.k))
      [] it.op \in {"octets", "lvoctets", "lvlenient", "tolength", "atmost", "rest", "countedoctets", "countedbits"} ->
            ReadOctets(it, s)
      [] it.op = "counted" -> ReadMany(s, it, Least(Get(s.m, it.count), it.max))
      [] it.op = "each" -> ReadEach(s, it)
      [] it.op = "padded" -> ReadPadded(s, it, it.k)
      [] it.op = "opt" -> IF hasMore(s) THEN Present(ReadAll(it.items, s), it.n) ELSE s
      [] it.op = "tag" ->
            IF hasMore(s) /\ Masked(peekField(s, 8), it.mask) = it.iei
            THEN Present(ReadAll(it.items, s), it.n) ELSE s
      [] it.op = "tagoflength" ->
            IF ~hasMore(s) \/ peekField(s, 8) % 128 # it.iei THEN s
            ELSE IF remainingBits(s) < 16 THEN Fail(s, "TruncatedInput")
            ELSE IF NextBits(Advance(s, 8), 8) = it.k THEN Present(ReadAll(it.items, s), it.n) ELSE s
      [] it.op = "takentag" ->
            LET r == skipField(s, 8)
            IN  IF ~hasMore(s) THEN s
                ELSE IF r.err = "" /\ NextBits(s, 8) = it.iei THEN Present(ReadAll(it.items, r), it.n)
                ELSE r
      [] it.op = "if" -> ReadAll(IF Get(s.m, it.n) \in it.s THEN it.then ELSE it.else, s)
      [] it.op = "ifin" -> IF Get(GetSeq(s.m, it.e), it.n) \in it.s THEN ReadAll(it.then, s) ELSE s
      [] it.op = "ifmore" -> IF hasMore(s) THEN ReadAll(it.items, s) ELSE s
      [] it.op = "ifroom" -> IF Room(s) > 0 THEN Present(ReadAll(it.items, s), it.n) ELSE s
      [] it.op = "skiptolength" -> IF Room(s) > 0 THEN skipField(s, 8 * Room(s)) ELSE s
      [] it.op = "ifset" -> IF Set(s.m, it.n) THEN ReadAll(it.then, s) ELSE s
      [] it.op = "loop" -> ReadLoop(it, s)
      [] it.op = "options" -> ReadOptions(it, s)
      [] it.op = "lengthin" -> IF s.len \in it.s THEN s ELSE Fail(s, it.code)
      [] it.op = "iei7" ->
            LET r == skipField(s, 8)
            IN  IF r.err = "" /\ NextBits(s, 8) % 128 # it.v THEN Fail(r, it.code) ELSE r
      [] it.op = "default" -> IF Set(s.m, it.n) THEN s ELSE Put(s, it.n, it.v)
      [] it.op = "drop" -> [s EXCEPT !.m = [n \in DOMAIN s.m \ {it.n} |-> s.m[n]]]
      [] it.op = "attempt" ->
            LET r == ReadAll(it.items, s) IN IF r.err # "" THEN Fail(s, it.code) ELSE r
      [] it.op = "reject" -> Fail(s, it.code)
      [] it.op = "need" -> IF hasMore(s) THEN s ELSE Fail(s, it.code)
      [] it.op \in {"align", "pad"} -> alignToOctet(s)
      [] it.op = "restoctets" -> ReadRestOctets(it.items, s)
      [] it.op = "special" -> ReadSpecial(it.kind, s)

-------------------------------------------------------------------------------
RECURSIVE LengthOf(_, _)

Term(t, o) ==
    CASE t.op = "n" -> t.k
      [] t.op = "has" -> IF Set(o, t.n) THEN t.k ELSE 0
      [] t.op = "is" -> IF Get(o, t.n) \in t.s THEN t.k ELSE 0
      [] t.op = "isin" -> IF Set(o, t.e) /\ Get(o[t.e], t.n) \in t.s THEN t.k ELSE 0
      [] t.op = "size" -> IF Set(o, t.n) THEN t.k + Len(o[t.n]) ELSE 0
      [] t.op = "perone" -> t.k * Len(GetSeq(o, t.n))
      [] t.op = "lenv" -> LengthOf(t.c.len, GetSeq(o, t.n))
      [] t.op = "optlenv" -> IF Set(o, t.n) THEN t.k + LengthOf(t.c.len, o[t.n]) ELSE 0
      [] t.op = "filledlenv" ->
            LET octets == LengthOf(t.c.len, GetSeq(o, t.n)) IN IF octets > 0 THEN t.k + octets ELSE 0
      [] t.op = "value" -> t.k * Get(o, t.n)
      [] t.op = "ceil" -> (LengthOf(t.terms, o) + 7) \div 8
      [] t.op = "restlength" ->
            IF IsPaddingOnly(o) THEN Len(o.mOpaqueTail)
            ELSE LengthOf(IF DOMAIN o = {} THEN t.empty ELSE t.terms, o)
      [] t.op = "special" -> LengthSpecial(t.kind, o)

LengthOf(terms, o) == IF terms = << >> THEN 0 ELSE Term(Head(terms), o) + LengthOf(Tail(terms), o)

RECURSIVE WriteItem(_, _, _)
RECURSIVE WriteAll(_, _, _)

WriteAll(items, o, out) ==
    IF items = << >> THEN out ELSE WriteAll(Tail(items), o, WriteItem(Head(items), o, out))

RECURSIVE WriteEach(_, _, _, _)
WriteEach(C, list, out, tag) ==
    IF list = << >> THEN out ELSE WriteEach(C, Tail(list), WriteAll(C.w, Head(list), out \o tag), tag)

\* The rest octets hold no record when no member but the tail has a value: then a tail of padding
\* octets is the whole region.
WriteRestOctets(items, o, out) ==
    IF IsPaddingOnly(o) THEN writeBytes(out, o.mOpaqueTail)
    ELSE writeBytes(WriteAll(items, o, out), GetSeq(o, "mOpaqueTail"))

WriteItem(it, o, out) ==
    CASE it.op \in {"field", "in"} ->
            writeField(out, IF it.w > MaxNumber /\ ~Set(o, it.n) THEN BitsOf(0, it.w)
                            ELSE Get(o, it.n), it.w)
      [] it.op = "part" -> writeField(out, Get(o, it.n) \div 2^it.lo, it.w)
      [] it.op \in {"const", "exact", "iei7"} -> writeField(out, it.v, it.w)
      [] it.op = "conv" -> writeField(out, it.enc[o[it.n]], it.w)
      [] it.op = "elt" -> WriteAll(it.c.w, GetSeq(o, it.n), out)
      [] it.op \in {"lv", "lvnonempty"} ->
            LET e == GetSeq(o, it.n)
            IN  WriteAll(it.c.w, e, writeField(out, LengthOf(it.c.len, e), 8))
      [] it.op \in {"octets", "tolength", "atmost", "rest", "countedoctets"} ->
            writeBytes(out, GetSeq(o, it.n))
      [] it.op \in {"lvoctets", "lvlenient"} -> writeBytes(writeField(out, Len(GetSeq(o, it.n)), 8), GetSeq(o, it.n))
      [] it.op = "countedbits" -> out \o GetSeq(o, it.n)
      [] it.op = "counted" -> WriteEach(it.c, GetSeq(o, it.n), out, << >>)
      [] it.op = "each" -> WriteEach(it.c, GetSeq(o, it.n), out, BitsOf(it.iei, 8))
      [] it.op = "padded" ->
            LET list == GetSeq(o, it.n)
            IN  WriteEach(it.c, [i \in 1..it.k |-> IF list = << >> THEN << >>
                                                   ELSE list[Least(i, Len(list))]], out, << >>)
      [] it.op \in {"opt", "tag", "tagoflength", "ifroom"} -> IF Set(o, it.n) THEN WriteAll(it.items, o, out) ELSE out
      [] it.op = "if" -> WriteAll(IF Get(o, it.n) \in it.s THEN it.then ELSE it.else, o, out)
      [] it.op = "ifin" -> IF Get(GetSeq(o, it.e), it.n) \in it.s THEN WriteAll(it.then, o, out) ELSE out
      [] it.op \in {"attempt", "ifmore"} -> WriteAll(it.items, o, out)
      [] it.op = "ifany" -> IF DOMAIN o = {} THEN out ELSE WriteAll(it.items, o, out)
      [] it.op = "iffilled" -> IF LengthOf(it.c.len, GetSeq(o, it.n)) > 0 THEN WriteAll(it.items, o, out) ELSE out
      [] it.op = "skiptolength" -> out
      [] it.op = "lvflat" -> WriteAll(it.items, o, writeField(out, it.k, 8))
      [] it.op = "align" -> alignWriter(out)
      [] it.op = "pad" -> out \o PatternBits((8 - (Len(out) % 8)) % 8)
      [] it.op = "restoctets" -> WriteRestOctets(it.items, o, out)
      [] it.op = "special" -> WriteSpecial(it.kind, o, out)
===============================================================================
