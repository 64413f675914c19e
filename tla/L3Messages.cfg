\* Every message of every protocol discriminator, and the RP and TP units of the short messages.
SPECIFICATION Spec
CONSTANT PDs = {0, 1, 3, 5, 6, 8, 9, 10, 11, 12, 13, 14, 15, 16, 17}
INVARIANTS  ForwardIsStable CutIsNoticed
CHECK_DEADLOCK FALSE
