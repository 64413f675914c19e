--------------------------- MODULE LapdmFrameCodec --------------------------
(***************************************************************************)
(* The format B octets of a LAPDm frame: encodeFrameToBuffer() and         *)
(* LAPDmFrame::decode() of src/lapdm_frame.cpp.  Every frame is an address *)
(* octet, a control octet and a header octet (length, M bit, fixed 1),     *)
(* then the info field.  Octets are numbers and their bit fields are taken *)
(* apart with \div and %.                                                  *)
(*                                                                         *)
(* An operator named Fault... is the definition after it with a plausible  *)
(* mistake in it.                                                          *)
(***************************************************************************)
EXTENDS LapdmFrame

Octet == 0 .. 255

\* What the make...Frame factories can build: only DM, DISC and the S-frames
\* are without info, and only an I-frame has N(S) and the M bit.
BuiltFrame ==
  {f \in LAPDmFrame :
     /\ f.kind # "S3"
     /\ f.kind \in SKinds \cup {"DM", "DISC"} => f.info = <<>>
     /\ f.kind \in UKinds => f.nr = 0
     /\ f.kind # "I" => f.ns = 0 /\ f.more = FALSE}

ASSUME CodecAssumption == Octets \subseteq Octet

Bit(b) == IF b THEN 1 ELSE 0

\* Bits lo, lo + 1, ... of an octet, width of them.
Bits(octet, lo, width) == (octet \div 2^lo) % 2^width

\* Control octet of each U-frame, with P/F clear and set.
kUControl ==
  [UI |-> <<3, 19>>, SABME |-> <<47, 63>>, DM |-> <<15, 31>>,
   DISC |-> <<67, 83>>, UA |-> <<99, 115>>]

\* The two-bit S function codes in numerical order.
SFunction == <<"RR", "RNR", "REJ", "S3">>
SCode(kind) == (CHOOSE i \in DOMAIN SFunction : SFunction[i] = kind) - 1

-----------------------------------------------------------------------------
(* Encoding                                                                *)

\* An Undefined SAPI (16) loses its only bit here.
EncodeAddress(f) == (f.sapi % 8) * 4 + Bit(f.command) * 2 + 1

FaultSharedBit(f) ==
  CASE f.kind = "I"       -> f.nr * 32 + Bit(f.pf) * 8 + f.ns * 2
    [] f.kind \in SKinds  -> f.nr * 32 + Bit(f.pf) * 16 + SCode(f.kind) * 4 + 1
    [] f.kind \in UKinds  -> kUControl[f.kind][1 + Bit(f.pf)]

EncodeControl(f) ==
  CASE f.kind = "I"       -> f.nr * 32 + Bit(f.pf) * 16 + f.ns * 2
    [] f.kind \in SKinds  -> f.nr * 32 + Bit(f.pf) * 16 + SCode(f.kind) * 4 + 1
    [] f.kind \in UKinds  -> kUControl[f.kind][1 + Bit(f.pf)]

\* The length is a uint8_t of which six bits are kept.
EncodeHeader(f) == (Len(f.info) % 64) * 4 + Bit(f.more) * 2 + 1

EncodeFrame(f) ==
  IF f.kind \in SKinds
  THEN <<EncodeAddress(f), EncodeControl(f), 1>>
  ELSE <<EncodeAddress(f), EncodeControl(f), EncodeHeader(f)>> \o f.info

-----------------------------------------------------------------------------
(* Decoding                                                                *)

DecodeSapi(address) ==
  IF Bits(address, 2, 3) \in {SAPI0, SAPI3} THEN Bits(address, 2, 3) ELSE SapiUndefined

\* The kind a control octet stands for, or "none": an even octet is an I-frame,
\* 01 an S-frame, 11 one of the ten canonical U octets.
DecodeKind(control) ==
  CASE control % 2 = 0 -> "I"
    [] control % 4 = 1 -> SFunction[1 + Bits(control, 2, 2)]
    [] control % 4 = 3 ->
         IF \E k \in UKinds : control \in {kUControl[k][1], kUControl[k][2]}
         THEN CHOOSE k \in UKinds : control \in {kUControl[k][1], kUControl[k][2]}
         ELSE "none"

\* The octet strings decode() accepts.
Decodable(d) ==
  /\ Len(d) >= 3
  /\ Bits(d[1], 5, 3) = 0 /\ d[1] % 2 = 1
  /\ d[3] % 2 = 1
  /\ Len(d) = 3 + Bits(d[3], 2, 6)
  /\ DecodeKind(d[2]) # "none"
  /\ DecodeKind(d[2]) \in SKinds => d[3] = 1
  /\ DecodeKind(d[2]) \in {"DM", "DISC"} => Bits(d[3], 2, 6) = 0

\* The frame decode() returns for an octet string it accepts.
Decode(d) ==
  LET kind == DecodeKind(d[2]) IN
  [kind |-> kind, sapi |-> DecodeSapi(d[1]), command |-> Bits(d[1], 1, 1) = 1,
   pf   |-> Bits(d[2], 4, 1) = 1,
   nr   |-> IF kind \in UKinds THEN 0 ELSE Bits(d[2], 5, 3),
   ns   |-> IF kind = "I" THEN Bits(d[2], 1, 3) ELSE 0,
   more |-> Bits(d[3], 1, 1) = 1,
   info |-> SubSeq(d, 4, Len(d))]
=============================================================================
