------------------------------ MODULE AddressMap ------------------------------
(***************************************************************************)
(* What FlatMap promises its owners (stack/flat_map.h, class comment): a   *)
(* map from keys to entry addresses in which an address belongs to its key *)
(* from insertion to erasure, whatever happens to the other keys.          *)
(***************************************************************************)
EXTENDS Integers, Functions

CONSTANT Keys

VARIABLE map

Init == map = <<>>

Emplace(k) ==
    /\ k \notin DOMAIN map
    /\ DOMAIN map' = DOMAIN map \cup {k}
    /\ Restrict(map', DOMAIN map) = map
    /\ map'[k] \notin Range(map)

Erase(k) ==
    /\ k \in DOMAIN map
    /\ map' = Restrict(map, DOMAIN map \ {k})

Clear == map' = <<>>

Next == Clear \/ \E k \in Keys : Emplace(k) \/ Erase(k)

Spec == Init /\ [][Next]_map
=============================================================================
