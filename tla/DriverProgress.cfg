CONSTANTS
  MaxOps = 1
  Ptr <- MCTinyPtr
  p1 = p1
  p2 = p2
  Proc = {p1, p2}
  File = {1}
  Uses <- SharedFile
  Data <- FewBytes
  ReadCounts = {0, 2}
  Seeks <- FewSeeks
  MaxAlloc = 2
  LoffMax = 7
SPECIFICATION FairSpec
PROPERTY
  CallsReturn
