SPECIFICATION Spec
CONSTANTS
  Octets <- MCOctets
  N201 = 1
  N200 = 1
  MaxReassemblyBytes = 8
  Uses <- MCReleased
  SabmeInfos <- MCInfos
  MsgLen <- MCShortMsgLen
  ChanCap = 2
INVARIANTS
  QueueGoesOn
CHECK_DEADLOCK FALSE
