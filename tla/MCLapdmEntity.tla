---------------------------- MODULE MCLapdmEntity ---------------------------
(***************************************************************************)
(* Model-checking instance of LapdmEntitySpec: two payload octets, N201 of *)
(* one octet, so that a two-octet message is segmented and a two-octet     *)
(* I-frame is oversized, and a reassembly limit of two octets.             *)
(***************************************************************************)
EXTENDS LapdmEntitySpec

MCOctets == {1, 2}
MCMessages == {<<1>>, <<1, 2>>}
MCInfos == {<<>>, <<1>>}
MCSeqNums == {0, 1, 7}
MCAddresses == {<<SAPI0, TRUE>>, <<SAPI3, FALSE>>}

MCPeerFrames ==
  [kind : {"I"}, sapi : {SAPI0}, command : {FALSE}, pf : BOOLEAN,
   nr : MCSeqNums, ns : {0, 1, 2}, more : BOOLEAN, info : {<<1>>, <<1, 2>>}]
  \cup
  [kind : SKinds, sapi : {SAPI0}, command : BOOLEAN, pf : BOOLEAN,
   nr : MCSeqNums, ns : {0}, more : {FALSE}, info : {<<>>}]
  \cup
  [kind : {"SABME", "UA", "UI"}, sapi : {SAPI0, SAPI3}, command : {FALSE},
   pf : BOOLEAN, nr : {0}, ns : {0}, more : {FALSE}, info : {<<>>, <<1>>, <<2>>}]
  \cup
  [kind : {"DM", "DISC"}, sapi : {SAPI0}, command : {FALSE}, pf : BOOLEAN,
   nr : {0}, ns : {0}, more : {FALSE}, info : {<<>>}]
=============================================================================
