CONSTANTS
  MaxOps = 5
  Ptr <- MCPtr
  NewEntry <- MCNewEntry
SPECIFICATION Spec
INVARIANTS
  TypeOK
  RingOK
  FindMatchesReference
PROPERTY
  KeepsRecentWrites
