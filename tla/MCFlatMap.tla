------------------------------ MODULE MCFlatMap ------------------------------
(* Small instances of FlatMap: every hash function on a few keys, and one  *)
(* with two runs of four colliding keys in the code's first table of eight *)
(* slots (keys of a run are interchangeable).                              *)
EXTENDS FlatMap, TLC

CONSTANTS k1, k2, k3, k4, k5, k6, k7, k8

MCThree == {k1, k2, k3}
MCSomeHashes == [MCThree -> {0, 1, 3, 4}]

MCLow == {k1, k2, k3, k4}
MCHigh == {k5, k6, k7, k8}
MCEight == MCLow \cup MCHigh
MCTwoRuns == {[k \in MCEight |-> IF k \in MCLow THEN 0 ELSE 4]}
MCSymmetry == Permutations(MCLow) \cup Permutations(MCHigh)
=============================================================================
