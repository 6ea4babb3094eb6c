CONSTANTS
  MaxOps = 2
  Ptr <- MCPtr
  p1 = p1
  p2 = p2
  Proc = {p1, p2}
  File = {1}
  Uses <- SharedFile
  Data <- WriteData
  ReadCounts = {}
  Seeks = {}
  MaxAlloc = 3
  LoffMax = 7
SYMMETRY ProcSymmetry
SPECIFICATION Spec
INVARIANTS
  TypeOK
  LockDiscipline
  HeapSafe
PROPERTIES
  LeakOnlyByOverwrite
  ImplementsCommandLog
  WriteTellsTheTruth
