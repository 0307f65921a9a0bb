CONSTANTS
  Reader = {r1}
  Call = {k}
  None = None
  Buffer = 2
  Retain = 3
  MaxStreams = 2
  MaxArguments = 2
  MaxSeq = 1
  MaxDeltas = 3
SPECIFICATION Spec
INVARIANTS SnapshotsAreWhole
