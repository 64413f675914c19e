--------------------------- MODULE LapdmCodecProofs --------------------------
(***************************************************************************)
(* Theorems about LapdmFrameCodec: what encodeFrameToBuffer() writes is    *)
(* what LAPDmFrame::decode() reads, for every frame the factories can      *)
(* build and every octet string, of any length.  The bit fields of the     *)
(* three header octets are taken apart one by one.                         *)
(***************************************************************************)
EXTENDS LapdmFrameCodec, SequenceTheorems, TLAPS

-----------------------------------------------------------------------------
(* The fields of an octet                                                  *)

LEMMA AddressFields ==
  ASSUME NEW s \in 0..7, NEW b \in BOOLEAN
  PROVE  LET a == s * 4 + Bit(b) * 2 + 1
         IN  /\ a \in Octet /\ a % 2 = 1 /\ Bits(a, 5, 3) = 0
             /\ Bits(a, 2, 3) = s /\ (Bits(a, 1, 1) = 1) = b
BY DEF Bit, Bits, Octet

LEMMA AddressOctet ==
  ASSUME NEW a \in Octet, a % 2 = 1, Bits(a, 5, 3) = 0
  PROVE  Bits(a, 2, 3) \in 0..7 /\ a = Bits(a, 2, 3) * 4 + Bit(Bits(a, 1, 1) = 1) * 2 + 1
BY DEF Bit, Bits, Octet

LEMMA IControlFields ==
  ASSUME NEW nr \in 0..7, NEW ns \in 0..7, NEW b \in BOOLEAN
  PROVE  LET c == nr * 32 + Bit(b) * 16 + ns * 2
         IN  /\ c \in Octet /\ c % 2 = 0
             /\ Bits(c, 5, 3) = nr /\ Bits(c, 1, 3) = ns /\ (Bits(c, 4, 1) = 1) = b
BY DEF Bit, Bits, Octet

LEMMA IControlOctet ==
  ASSUME NEW c \in Octet, c % 2 = 0
  PROVE  /\ Bits(c, 5, 3) \in 0..7 /\ Bits(c, 1, 3) \in 0..7
         /\ c = Bits(c, 5, 3) * 32 + Bit(Bits(c, 4, 1) = 1) * 16 + Bits(c, 1, 3) * 2
BY DEF Bit, Bits, Octet

LEMMA SControlFields ==
  ASSUME NEW nr \in 0..7, NEW k \in 0..3, NEW b \in BOOLEAN
  PROVE  LET c == nr * 32 + Bit(b) * 16 + k * 4 + 1
         IN  /\ c \in Octet /\ c % 2 # 0 /\ c % 4 = 1
             /\ Bits(c, 5, 3) = nr /\ Bits(c, 2, 2) = k /\ (Bits(c, 4, 1) = 1) = b
BY DEF Bit, Bits, Octet

LEMMA SControlOctet ==
  ASSUME NEW c \in Octet, c % 4 = 1
  PROVE  /\ c % 2 # 0 /\ Bits(c, 5, 3) \in 0..7 /\ Bits(c, 2, 2) \in 0..3
         /\ c = Bits(c, 5, 3) * 32 + Bit(Bits(c, 4, 1) = 1) * 16 + Bits(c, 2, 2) * 4 + 1
BY DEF Bit, Bits, Octet

LEMMA HeaderOctet ==
  ASSUME NEW h \in Octet, h % 2 = 1
  PROVE  /\ Bits(h, 2, 6) \in 0..63
         /\ h = (Bits(h, 2, 6) % 64) * 4 + Bit(Bits(h, 1, 1) = 1) * 2 + 1
BY DEF Bit, Bits, Octet

\* The ten U octets differ, end in 11 and have the P/F bit in bit 4.
LEMMA UControlFields ==
  ASSUME NEW k \in UKinds, NEW b \in BOOLEAN
  PROVE  LET c == kUControl[k][1 + Bit(b)]
         IN  /\ c \in Octet /\ c % 2 # 0 /\ c % 4 = 3 /\ c % 4 # 1
             /\ (Bits(c, 4, 1) = 1) = b
             /\ c \in {kUControl[k][1], kUControl[k][2]}
             /\ \A l \in UKinds : c \in {kUControl[l][1], kUControl[l][2]} => l = k
BY DEF UKinds, kUControl, Bit, Bits, Octet

LEMMA UControlOctet ==
  ASSUME NEW k \in UKinds, NEW c \in {kUControl[k][1], kUControl[k][2]}
  PROVE  c = kUControl[k][1 + Bit(Bits(c, 4, 1) = 1)]
BY DEF UKinds, kUControl, Bit, Bits

LEMMA SCodes ==
  /\ \A k \in SKinds : SCode(k) \in 0..3 /\ SFunction[1 + SCode(k)] = k
  /\ \A i \in 0..3 : SFunction[1 + i] \in SKinds /\ SCode(SFunction[1 + i]) = i
<1>1. DOMAIN SFunction = 1..4 /\ SFunction[1] = "RR" /\ SFunction[2] = "RNR"
      /\ SFunction[3] = "REJ" /\ SFunction[4] = "S3"
  BY DEF SFunction
<1>2. ASSUME NEW k \in SKinds
      PROVE  \E i \in 1..4 : SFunction[i] = k /\ \A j \in 1..4 : SFunction[j] = k => j = i
  BY <1>1 DEF SKinds
<1>3. ASSUME NEW k \in SKinds PROVE SCode(k) \in 0..3 /\ SFunction[1 + SCode(k)] = k
  <2>1. PICK i \in 1..4 : SFunction[i] = k /\ \A j \in 1..4 : SFunction[j] = k => j = i
    BY <1>2
  <2>2. SCode(k) = i - 1
    BY <1>1, <2>1 DEF SCode
  <2> QED
    BY <2>1, <2>2
<1>4. ASSUME NEW i \in 0..3 PROVE SFunction[1 + i] \in SKinds /\ SCode(SFunction[1 + i]) = i
  <2>1. SFunction[1 + i] \in SKinds
    BY <1>1 DEF SKinds
  <2>2. SCode(SFunction[1 + i]) \in 0..3 /\ SFunction[1 + SCode(SFunction[1 + i])] = SFunction[1 + i]
    BY <1>3, <2>1
  <2>3. \A m, n \in 1..4 : SFunction[m] = SFunction[n] => m = n
    BY <1>1
  <2>4. 1 + i \in 1..4 /\ 1 + SCode(SFunction[1 + i]) \in 1..4
    BY <2>2
  <2> QED
    BY <2>1, <2>2, <2>3, <2>4
<1> QED
  BY <1>3, <1>4

-----------------------------------------------------------------------------
(* Encode, then decode                                                     *)

LEMMA KindOfControl ==
  ASSUME NEW f \in BuiltFrame
  PROVE  LET c == EncodeControl(f)
         IN  /\ c \in Octet /\ DecodeKind(c) = f.kind /\ (Bits(c, 4, 1) = 1) = f.pf
             /\ f.kind \notin UKinds => Bits(c, 5, 3) = f.nr
             /\ f.kind = "I" => Bits(c, 1, 3) = f.ns
<1> DEFINE c == EncodeControl(f)
<1>1. /\ f.kind \in {"I"} \cup SKinds \cup UKinds /\ f.nr \in 0..7 /\ f.ns \in 0..7
      /\ f.pf \in BOOLEAN
  BY DEF BuiltFrame, LAPDmFrame, FrameKinds, SeqNum, Modulus
<1>2. CASE f.kind = "I"
  <2>1. c = f.nr * 32 + Bit(f.pf) * 16 + f.ns * 2
    BY <1>2 DEF EncodeControl, SKinds, UKinds
  <2>2. /\ c \in Octet /\ c % 2 = 0
        /\ Bits(c, 5, 3) = f.nr /\ Bits(c, 1, 3) = f.ns /\ (Bits(c, 4, 1) = 1) = f.pf
    BY <1>1, <2>1, IControlFields
  <2>3. c % 4 # 1 /\ c % 4 # 3
    BY <2>2 DEF Octet
  <2>4. DecodeKind(c) = "I"
    BY <2>2, <2>3 DEF DecodeKind
  <2> QED
    BY <1>2, <2>2, <2>4
<1>3. CASE f.kind \in SKinds
  <2>1. c = f.nr * 32 + Bit(f.pf) * 16 + SCode(f.kind) * 4 + 1
    BY <1>3 DEF EncodeControl, SKinds, UKinds
  <2>2. SCode(f.kind) \in 0..3 /\ SFunction[1 + SCode(f.kind)] = f.kind
    BY <1>3, SCodes
  <2>3. /\ c \in Octet /\ c % 2 # 0 /\ c % 4 = 1
        /\ Bits(c, 5, 3) = f.nr /\ Bits(c, 2, 2) = SCode(f.kind) /\ (Bits(c, 4, 1) = 1) = f.pf
    BY <1>1, <2>1, <2>2, SControlFields
  <2>4. DecodeKind(c) = f.kind
    BY <2>2, <2>3 DEF DecodeKind
  <2>5. f.kind # "I"
    BY <1>3 DEF SKinds
  <2> QED
    BY <2>3, <2>4, <2>5
<1>4. CASE f.kind \in UKinds
  <2>1. c = kUControl[f.kind][1 + Bit(f.pf)]
    BY <1>4 DEF EncodeControl, SKinds, UKinds
  <2>2. /\ c \in Octet /\ c % 2 # 0 /\ c % 4 = 3 /\ c % 4 # 1 /\ (Bits(c, 4, 1) = 1) = f.pf
        /\ c \in {kUControl[f.kind][1], kUControl[f.kind][2]}
        /\ \A l \in UKinds : c \in {kUControl[l][1], kUControl[l][2]} => l = f.kind
    BY <1>1, <1>4, <2>1, UControlFields
  <2>3. DecodeKind(c) = f.kind
    BY <1>4, <2>2 DEF DecodeKind
  <2>4. f.kind # "I"
    BY <1>4 DEF UKinds
  <2> QED
    BY <1>4, <2>2, <2>3, <2>4
<1> QED
  BY <1>1, <1>2, <1>3, <1>4

\* The wire of a frame, octet by octet.
LEMMA WireOctets ==
  ASSUME NEW a, NEW c, NEW h, NEW x \in Seq(Octet)
  PROVE  LET w == <<a, c, h>> \o x
         IN  /\ Len(w) = 3 + Len(x) /\ w[1] = a /\ w[2] = c /\ w[3] = h
             /\ SubSeq(w, 4, Len(w)) = x
OBVIOUS

\* What is sent is understood: the peer's decode() accepts what
\* encodeFrameToBuffer() wrote and returns the very frame, for every frame the
\* make...Frame factories can build for a defined SAPI with at most 63 octets.
THEOREM SentIsAlwaysUnderstood ==
  ASSUME NEW f \in BuiltFrame, f.sapi # SapiUndefined, Len(f.info) <= 63
  PROVE  Decodable(EncodeFrame(f)) /\ Decode(EncodeFrame(f)) = f
<1> DEFINE w == EncodeFrame(f)
<1>0. f.info \in Seq(Octet)
  <2>1. f.info \in Seq(Octets)
    BY DEF BuiltFrame, LAPDmFrame
  <2> QED
    BY <2>1, CodecAssumption
<1>1. /\ f.kind \in {"I"} \cup SKinds \cup UKinds /\ f.sapi \in {SAPI0, SAPI3}
      /\ f.command \in BOOLEAN /\ f.more \in BOOLEAN /\ f.info \in Seq(Octet)
      /\ f = [kind |-> f.kind, sapi |-> f.sapi, command |-> f.command, pf |-> f.pf,
              nr |-> f.nr, ns |-> f.ns, more |-> f.more, info |-> f.info]
  BY <1>0 DEF BuiltFrame, LAPDmFrame, FrameKinds, SAPI
<1>2. /\ f.kind \in SKinds \cup {"DM", "DISC"} => f.info = <<>>
      /\ f.kind \in UKinds => f.nr = 0
      /\ f.kind # "I" => f.ns = 0 /\ f.more = FALSE
  BY DEF BuiltFrame
<1> DEFINE h == IF f.kind \in SKinds THEN 1 ELSE EncodeHeader(f)
<1>3. h = (Len(f.info) % 64) * 4 + Bit(f.more) * 2 + 1
  <2>1. CASE f.kind \in SKinds
    <3>1. f.more = FALSE /\ Len(f.info) = 0
      BY <1>2, <2>1 DEF SKinds
    <3> QED
      BY <2>1, <3>1 DEF Bit
  <2>2. CASE f.kind \notin SKinds
    BY <2>2 DEF EncodeHeader
  <2> QED
    BY <2>1, <2>2
<1>4. w = <<EncodeAddress(f), EncodeControl(f), h>> \o f.info
  <2>1. CASE f.kind \in SKinds
    <3>1. f.info = <<>>
      BY <1>2, <2>1
    <3> QED
      BY <2>1, <3>1 DEF EncodeFrame
  <2>2. CASE f.kind \notin SKinds
    BY <2>2 DEF EncodeFrame
  <2> QED
    BY <2>1, <2>2
<1> HIDE DEF h, w
<1>5. /\ Len(w) = 3 + Len(f.info) /\ w[1] = EncodeAddress(f) /\ w[2] = EncodeControl(f) /\ w[3] = h
      /\ SubSeq(w, 4, Len(w)) = f.info
  BY <1>1, <1>4, WireOctets
<1>6. /\ w[1] % 2 = 1 /\ Bits(w[1], 5, 3) = 0 /\ Bits(w[1], 2, 3) = f.sapi
      /\ (Bits(w[1], 1, 1) = 1) = f.command
  <2>1. EncodeAddress(f) = f.sapi * 4 + Bit(f.command) * 2 + 1 /\ f.sapi \in 0..7
    BY <1>1 DEF EncodeAddress, SAPI0, SAPI3
  <2> QED
    BY <1>1, <1>5, <2>1, AddressFields
<1>7. w[3] % 2 = 1 /\ Bits(w[3], 2, 6) = Len(f.info) /\ (Bits(w[3], 1, 1) = 1) = f.more
  <2>1. Len(f.info) \in Nat
    BY <1>1, LenProperties
  <2>2. Len(f.info) \in 0..63
    <3>1. \A i \in Nat : i <= 63 => i \in 0..63
      OBVIOUS
    <3> QED
      BY <2>1, <3>1
  <2> DEFINE n == Len(f.info)
             b == f.more
  <2>3. n \in 0..63 /\ b \in BOOLEAN /\ w[3] = (n % 64) * 4 + Bit(b) * 2 + 1
    BY <1>1, <1>3, <1>5, <2>2
  <2> HIDE DEF n, b
  <2>4. w[3] % 2 = 1 /\ Bits(w[3], 2, 6) = n /\ (Bits(w[3], 1, 1) = 1) = b
    BY <2>3 DEF Bit, Bits
  <2> QED
    BY <2>4 DEF n, b
<1>8. /\ DecodeKind(w[2]) = f.kind /\ (Bits(w[2], 4, 1) = 1) = f.pf
      /\ f.kind \notin UKinds => Bits(w[2], 5, 3) = f.nr
      /\ f.kind = "I" => Bits(w[2], 1, 3) = f.ns
  BY <1>5, KindOfControl
<1>9. DecodeSapi(w[1]) = f.sapi
  BY <1>1, <1>6 DEF DecodeSapi
<1>10. Decodable(w)
  <2>1. f.kind # "none"
    BY <1>1 DEF SKinds, UKinds
  <2>2. f.kind \in SKinds => w[3] = 1
    BY <1>5 DEF h
  <2>3. f.kind \in {"DM", "DISC"} => Len(f.info) = 0
    BY <1>2
  <2>4. Len(w) >= 3 /\ Len(w) = 3 + Bits(w[3], 2, 6)
    BY <1>1, <1>5, <1>7
  <2> QED
    BY <1>6, <1>7, <1>8, <2>1, <2>2, <2>3, <2>4 DEF Decodable
<1>11. Decode(w) = f
  <2>1. f.nr = IF f.kind \in UKinds THEN 0 ELSE Bits(w[2], 5, 3)
    BY <1>2, <1>8
  <2>2. f.ns = IF f.kind = "I" THEN Bits(w[2], 1, 3) ELSE 0
    BY <1>2, <1>8
  <2>3. Decode(w) = [kind |-> f.kind, sapi |-> f.sapi, command |-> f.command, pf |-> f.pf,
                     nr |-> f.nr, ns |-> f.ns, more |-> f.more, info |-> f.info]
    BY <1>5, <1>6, <1>7, <1>8, <1>9, <2>1, <2>2 DEF Decode
  <2> QED
    BY <1>1, <2>3
<1> QED
  BY <1>10, <1>11 DEF w

-----------------------------------------------------------------------------
(* Decode, then encode                                                     *)

LEMMA CounterFields ==
  ASSUME NEW c \in Octet PROVE Bits(c, 5, 3) \in 0..7 /\ Bits(c, 1, 3) \in 0..7
BY DEF Bits, Octet

LEMMA InfoOctets ==
  ASSUME NEW d \in Seq(Octet), Len(d) >= 3
  PROVE  /\ SubSeq(d, 4, Len(d)) \in Seq(Octet) /\ Len(SubSeq(d, 4, Len(d))) = Len(d) - 3
         /\ <<d[1], d[2], d[3]>> \o SubSeq(d, 4, Len(d)) = d
<1> DEFINE x == SubSeq(d, 4, Len(d))
<1>0. Len(d) \in Nat
  BY LenProperties
<1>1. x \in Seq(Octet) /\ Len(x) = Len(d) - 3 /\ \A i \in 1..Len(x) : x[i] = d[3 + i]
  <2>1. \A i \in 4..Len(d) : d[i] \in Octet
    BY <1>0
  <2>2. /\ x \in Seq(Octet) /\ Len(x) = IF 4 <= Len(d) THEN Len(d) - 4 + 1 ELSE 0
        /\ \A i \in 1..(Len(d) - 4 + 1) : x[i] = d[4 + i - 1]
    BY <1>0, <2>1, SubSeqProperties
  <2>3. \A n \in Nat : n >= 3 => (IF 4 <= n THEN n - 4 + 1 ELSE 0) = n - 3 /\ n - 4 + 1 = n - 3
    OBVIOUS
  <2>4. Len(x) = Len(d) - 3 /\ Len(d) - 4 + 1 = Len(d) - 3
    BY <1>0, <2>2, <2>3
  <2>5. ASSUME NEW i \in 1..Len(x) PROVE x[i] = d[3 + i]
    <3>1. 4 + i - 1 = 3 + i
      OBVIOUS
    <3> QED
      BY <2>2, <2>4, <3>1
  <2> QED
    BY <2>2, <2>4, <2>5
<1> HIDE DEF x
<1> DEFINE w == <<d[1], d[2], d[3]>> \o x
<1>2. w \in Seq(Octet)
  BY <1>1
<1>3. Len(w) = Len(d) /\ w[1] = d[1] /\ w[2] = d[2] /\ w[3] = d[3]
  BY <1>1
<1>4. \A i \in 4..Len(d) : w[i] = x[i - 3]
  BY <1>1
<1>5. \A i \in 4..Len(d) : x[i - 3] = d[i]
  BY <1>1
<1>6. \A i \in 1..Len(d) : w[i] = d[i]
  BY <1>3, <1>4, <1>5
<1> HIDE DEF w
<1>7. w = d
  BY <1>2, <1>3, <1>6
<1> QED
  BY <1>1, <1>7 DEF w, x

LEMMA ControlOfKind ==
  ASSUME NEW c \in Octet, DecodeKind(c) # "none", NEW f, f.kind = DecodeKind(c),
         f.pf = (Bits(c, 4, 1) = 1),
         f.kind \notin UKinds => f.nr = Bits(c, 5, 3),
         f.kind = "I" => f.ns = Bits(c, 1, 3)
  PROVE  f.kind \in FrameKinds /\ EncodeControl(f) = c
<1>1. CASE c % 2 = 0
  <2>1. c % 4 # 1 /\ c % 4 # 3
    BY <1>1 DEF Octet
  <2>2. f.kind = "I"
    BY <1>1, <2>1 DEF DecodeKind
  <2>3. EncodeControl(f) = f.nr * 32 + Bit(f.pf) * 16 + f.ns * 2
    BY <2>2 DEF EncodeControl, SKinds, UKinds
  <2>4. f.nr = Bits(c, 5, 3) /\ f.ns = Bits(c, 1, 3)
    BY <2>2 DEF UKinds
  <2> QED
    BY <1>1, <2>2, <2>3, <2>4, IControlOctet DEF FrameKinds
<1>2. CASE c % 4 = 1
  <2>1. /\ c % 2 # 0 /\ Bits(c, 2, 2) \in 0..3
        /\ c = Bits(c, 5, 3) * 32 + Bit(Bits(c, 4, 1) = 1) * 16 + Bits(c, 2, 2) * 4 + 1
    BY <1>2, SControlOctet
  <2>2. f.kind = SFunction[1 + Bits(c, 2, 2)]
    BY <1>2, <2>1 DEF DecodeKind
  <2>3. f.kind \in SKinds /\ SCode(f.kind) = Bits(c, 2, 2)
    BY <2>1, <2>2, SCodes
  <2>4. EncodeControl(f) = f.nr * 32 + Bit(f.pf) * 16 + SCode(f.kind) * 4 + 1
    BY <2>3 DEF EncodeControl, SKinds, UKinds
  <2>5. f.nr = Bits(c, 5, 3)
    BY <2>3 DEF SKinds, UKinds
  <2> QED
    BY <2>1, <2>3, <2>4, <2>5 DEF FrameKinds
<1>3. CASE c % 4 = 3
  <2>1. c % 2 # 0
    BY <1>3 DEF Octet
  <2>2. f.kind \in UKinds /\ c \in {kUControl[f.kind][1], kUControl[f.kind][2]}
    BY <1>3, <2>1 DEF DecodeKind
  <2>3. EncodeControl(f) = kUControl[f.kind][1 + Bit(f.pf)]
    BY <2>2 DEF EncodeControl, SKinds, UKinds
  <2> QED
    BY <2>2, <2>3, UControlOctet DEF FrameKinds
<1>4. c % 2 = 0 \/ c % 4 = 1 \/ c % 4 = 3
  BY DEF Octet
<1> QED
  BY <1>1, <1>2, <1>3, <1>4

\* decode() accepts exactly one octet string per frame, whatever octets arrive:
\* encoding what it returned gives the octets back, so no spare bit, length or
\* trailing octet is taken silently.  Frames for other SAPIs are excepted:
\* decode() forgets which.
THEOREM OneEncodingAlways ==
  ASSUME Octets = Octet, NEW d \in Seq(Octet), Decodable(d)
  PROVE  /\ Decode(d) \in LAPDmFrame
         /\ Decode(d).sapi # SapiUndefined => EncodeFrame(Decode(d)) = d
<1> DEFINE f == Decode(d)
<1>1. Len(d) \in Nat /\ Len(d) >= 3 /\ d[1] \in Octet /\ d[2] \in Octet /\ d[3] \in Octet
  BY DEF Decodable
<1>2. /\ Bits(d[1], 5, 3) = 0 /\ d[1] % 2 = 1 /\ d[3] % 2 = 1 /\ Len(d) = 3 + Bits(d[3], 2, 6)
      /\ DecodeKind(d[2]) # "none" /\ (DecodeKind(d[2]) \in SKinds => d[3] = 1)
  BY DEF Decodable
<1>3. /\ f.kind = DecodeKind(d[2]) /\ f.sapi = DecodeSapi(d[1])
      /\ f.command = (Bits(d[1], 1, 1) = 1) /\ f.pf = (Bits(d[2], 4, 1) = 1)
      /\ f.nr = (IF f.kind \in UKinds THEN 0 ELSE Bits(d[2], 5, 3))
      /\ f.ns = (IF f.kind = "I" THEN Bits(d[2], 1, 3) ELSE 0)
      /\ f.more = (Bits(d[3], 1, 1) = 1) /\ f.info = SubSeq(d, 4, Len(d))
  BY DEF Decode
<1>4. f.kind \in FrameKinds /\ EncodeControl(f) = d[2]
  BY <1>1, <1>2, <1>3, ControlOfKind
<1>5. f.info \in Seq(Octet) /\ Len(f.info) = Len(d) - 3 /\ <<d[1], d[2], d[3]>> \o f.info = d
  BY <1>1, <1>3, InfoOctets
<1>6. Decode(d) \in LAPDmFrame
  <2>1. f.nr \in SeqNum /\ f.ns \in SeqNum
    <3>1. Bits(d[2], 5, 3) \in 0..7 /\ Bits(d[2], 1, 3) \in 0..7
      BY <1>1, CounterFields
    <3> QED
      BY <1>3, <3>1 DEF SeqNum, Modulus
  <2>2. f.sapi \in SAPI
    BY <1>3 DEF DecodeSapi, SAPI
  <2>3. f.info \in Seq(Octets)
    BY <1>5
  <2>4. f = [kind |-> f.kind, sapi |-> f.sapi, command |-> f.command, pf |-> f.pf,
             nr |-> f.nr, ns |-> f.ns, more |-> f.more, info |-> f.info]
    BY DEF Decode
  <2>5. f.command \in BOOLEAN /\ f.pf \in BOOLEAN /\ f.more \in BOOLEAN
    BY <1>3
  <2> HIDE DEF f
  <2>6. f \in LAPDmFrame
    BY <1>4, <2>1, <2>2, <2>3, <2>4, <2>5 DEF LAPDmFrame
  <2> QED
    BY <2>6 DEF f
<1> HIDE DEF f
<1>7. ASSUME f.sapi # SapiUndefined PROVE EncodeFrame(f) = d
  <2>1. EncodeAddress(f) = d[1]
    <3>1. f.sapi = Bits(d[1], 2, 3)
      BY <1>3, <1>7 DEF DecodeSapi
    <3>2. Bits(d[1], 2, 3) \in 0..7 /\ d[1] = Bits(d[1], 2, 3) * 4 + Bit(Bits(d[1], 1, 1) = 1) * 2 + 1
      BY <1>1, <1>2, AddressOctet
    <3>3. f.sapi % 8 = f.sapi
      BY <3>1, <3>2
    <3> QED
      BY <1>3, <3>1, <3>2, <3>3 DEF EncodeAddress
  <2>2. EncodeHeader(f) = d[3]
    <3>1. /\ Bits(d[3], 2, 6) \in 0..63
          /\ d[3] = (Bits(d[3], 2, 6) % 64) * 4 + Bit(Bits(d[3], 1, 1) = 1) * 2 + 1
      BY <1>1, <1>2, HeaderOctet
    <3>2. Len(d) = 3 + Bits(d[3], 2, 6) /\ Len(f.info) = Len(d) - 3
      BY <1>2, <1>5
    <3>3. \A n \in 0..63 : (3 + n) - 3 = n
      OBVIOUS
    <3>4. Len(f.info) = Bits(d[3], 2, 6)
      BY <3>1, <3>2, <3>3
    <3> QED
      BY <1>3, <3>1, <3>4 DEF EncodeHeader
  <2>3. f.kind \in SKinds => d[3] = 1 /\ Len(d) = 3
    BY <1>2, <1>3 DEF Bits
  <2>4. CASE f.kind \in SKinds
    <3>1. EncodeFrame(f) = <<d[1], d[2], d[3]>>
      BY <1>4, <2>1, <2>3, <2>4 DEF EncodeFrame
    <3> QED
      BY <2>3, <2>4, <3>1
  <2>5. CASE f.kind \notin SKinds
    <3>1. EncodeFrame(f) = <<d[1], d[2], d[3]>> \o f.info
      BY <1>4, <2>1, <2>2, <2>5 DEF EncodeFrame
    <3> QED
      BY <1>5, <3>1
  <2> QED
    BY <2>4, <2>5
<1> QED
  BY <1>6, <1>7 DEF f
=============================================================================
