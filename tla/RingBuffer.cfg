SPECIFICATION Spec
CONSTANTS
  RequestedCapacity = 3
  Octets <- MCOctets
  Chunks <- MCChunks
  ReadSizes <- MCReadSizes
INVARIANTS
  NoDataRace
PROPERTIES
  QueueSpec
  FullBufferDrains
