SPECIFICATION Spec
CONSTANTS
  Octets <- MCOctets
  N201 = 1
  N200 = 1
  MaxReassemblyBytes = 2
  PeerFrames <- MCPeerFrames
  Messages <- MCMessages
  Infos <- MCInfos
  MaxQueued = 1
  Addresses <- MCAddresses
INVARIANTS
  PendingCoherent
  DownIsClean
  WithinBudgets
  SentIsUnderstood
PROPERTIES
  LinkChangesAnnounced
  
