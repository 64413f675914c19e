SPECIFICATION FairSpec
CONSTANTS
  Octets <- MCOctets
  N201 = 1
  N200 = 1
  MaxReassemblyBytes = 8
  Uses <- MCUses
  SabmeInfos <- MCInfos
  MsgLen <- MCMsgLen
  ChanCap = 2
INVARIANTS
  NeverWedged
  
PROPERTIES
  ServiceSpec
  AttemptsEnd
  DataArrives
CHECK_DEADLOCK FALSE
