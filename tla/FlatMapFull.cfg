SPECIFICATION Spec
CONSTANTS
  k1 = k1
  k2 = k2
  k3 = k3
  k4 = k4
  k5 = k5
  k6 = k6
  k7 = k7
  k8 = k8
  Keys <- MCEight
  HashFns <- MCTwoRuns
  MinCapacity = 8
  MaxCapacity = 8
  MaxEntries = 4
INVARIANTS
  ProbesEnd
CHECK_DEADLOCK FALSE
SYMMETRY MCSymmetry
