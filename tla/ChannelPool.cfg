SPECIFICATION Spec
CONSTANTS
  SdcchIds = {1, 2}
  TchfIds = {4}
  TchhIds = {5}
  Bursts = {0, 40, 50, 96, 104, 112, 128, 192}
  MaxCopies = 2
INVARIANTS
  TrackedSeparately
