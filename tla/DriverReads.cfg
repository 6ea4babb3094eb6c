CONSTANTS
  MaxOps = 2
  Ptr <- MCSmallPtr
  p1 = p1
  p2 = p2
  Proc = {p1, p2}
  File = {1, 2}
  Uses <- OwnFiles
  Data <- Lines
  ReadCounts <- Counts
  Seeks <- SeekArgs
  MaxAlloc = 3
  LoffMax = 7
SPECIFICATION Spec
INVARIANTS
  ReadExact
PROPERTIES
  SeekExact
  PositionExact
