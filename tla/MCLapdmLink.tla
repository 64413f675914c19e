----------------------------- MODULE MCLapdmLink ----------------------------
(***************************************************************************)
(* Model-checking instances of LapdmLink.  With N201 = 1 the first message *)
(* of a side takes two segments; the second takes eight, which carries     *)
(* V(S) and V(R) through their wrap and fills the reassembly buffer.       *)
(***************************************************************************)
EXTENDS LapdmLink

MCMsgLen == <<2, 8>>
MCOctets == 1 .. 99
MCInfos == {<<>>, <<91>>}

MCSends(ms, bts) == [s \in Sides |-> IF s = "ms" THEN ms ELSE bts]

\* A mobile that establishes and sends; a mobile that establishes, with
\* contention resolution, a link that either side releases; two sides that
\* establish, at the same time too, and both send; two sides that establish, one
\* of which releases and the other gives up.
MCUses ==
  {[establish |-> {"ms"}, release |-> {}, giveUp |-> {}, info |-> <<>>, prompt |-> FALSE,
    send |-> MCSends(2, 0)],
   [establish |-> {"ms"}, release |-> Sides, giveUp |-> {"ms"}, info |-> <<91>>, prompt |-> FALSE,
    send |-> MCSends(1, 0)],
   [establish |-> Sides, release |-> {}, giveUp |-> {}, info |-> <<>>, prompt |-> TRUE,
    send |-> MCSends(1, 2)],
   [establish |-> Sides, release |-> {"bts"}, giveUp |-> {"ms"}, info |-> <<91>>, prompt |-> TRUE,
    send |-> MCSends(1, 0)]}

\* A mobile that establishes a link again after either side has released it, and
\* sends twice.
MCReleased ==
  {[establish |-> {"ms"}, release |-> Sides, giveUp |-> {}, info |-> <<>>, prompt |-> FALSE,
    send |-> MCSends(2, 0)]}
MCShortMsgLen == <<1, 1>>
=============================================================================
