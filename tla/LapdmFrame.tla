----------------------------- MODULE LapdmFrame -----------------------------
(***************************************************************************)
(* The decoded LAPDm frame of include/gsml3parser/lapdm_frame.h and the    *)
(* make...Frame factories the entity sends with.  A frame is one record:   *)
(* the three control formats of the code (I, S, U) with their type fields  *)
(* are the single field kind, and a field a format does not use has the    *)
(* default the C++ struct gives it.  LapdmFrameCodec relates these records *)
(* to octets; the entity and the link exchange the records themselves.     *)
(***************************************************************************)
EXTENDS Naturals, Sequences

CONSTANT Octets          \* the payload octets that occur

\* N(S), N(R), V(S), V(A) and V(R) are three-bit counters.
Modulus == 8
SeqNum == 0 .. Modulus - 1
SeqInc(n) == (n + 1) % Modulus

\* Only two service access points exist on Um; any other address is Undefined.
SAPI0 == 0
SAPI3 == 3
SapiUndefined == 16
SAPI == {SAPI0, SAPI3, SapiUndefined}

UKinds == {"UI", "SABME", "DM", "DISC", "UA"}
\* The two-bit S function code 3 has no enumerator; the decoder lets it through.
SKinds == {"RR", "RNR", "REJ", "S3"}
FrameKinds == {"I"} \cup SKinds \cup UKinds

LAPDmFrame ==
  [kind : FrameKinds, sapi : SAPI, command : BOOLEAN, pf : BOOLEAN,
   nr : SeqNum, ns : SeqNum, more : BOOLEAN, info : Seq(Octets)]

HasInfo(f) == f.info # <<>>

UFrame(kind, sapi, command, pf, info) ==
  [kind |-> kind, sapi |-> sapi, command |-> command, pf |-> pf,
   nr |-> 0, ns |-> 0, more |-> FALSE, info |-> info]

SFrame(kind, sapi, command, nr, pf) ==
  [kind |-> kind, sapi |-> sapi, command |-> command, pf |-> pf,
   nr |-> nr, ns |-> 0, more |-> FALSE, info |-> <<>>]

makeUIFrame(sapi, command, info)    == UFrame("UI", sapi, command, FALSE, info)
makeSABMEFrame(sapi, command, info) == UFrame("SABME", sapi, command, TRUE, info)
makeUAFrame(sapi, pf, info)         == UFrame("UA", sapi, FALSE, pf, info)
makeDMFrame(sapi, pf)               == UFrame("DM", sapi, FALSE, pf, <<>>)
makeDISCFrame(sapi, command)        == UFrame("DISC", sapi, command, TRUE, <<>>)
makeRRFrame(sapi, nr, pf)           == SFrame("RR", sapi, FALSE, nr, pf)
makeREJFrame(sapi, nr, pf)          == SFrame("REJ", sapi, FALSE, nr, pf)

makeIFrame(sapi, command, nr, ns, pf, more, info) ==
  [kind |-> "I", sapi |-> sapi, command |-> command, pf |-> pf,
   nr |-> nr, ns |-> ns, more |-> more, info |-> info]
=============================================================================
