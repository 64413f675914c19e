SPECIFICATION Spec
CONSTANTS
  Streams <- MCStreams
  MaxRead = 11
  MaxMessage = 4
  CompactAt = 1
  SizeModulus = 65536
INVARIANTS
  FramesAreTheInlineOnes
  BoundaryOverlookedAtEdgesOnly
PROPERTIES
  StreamEnds
CHECK_DEADLOCK FALSE
