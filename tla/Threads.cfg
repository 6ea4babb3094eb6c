CONSTANTS
  none = none
  m1 = m1
  m2 = m2
  Thread = {1, 2, 3, 4}
  Mutex <- MCMutex
  Wants <- MCWants
  None <- none
  Faults = {"malloc", "create", "lock", "unlock"}
SPECIFICATION FairSpec
INVARIANTS
  HoldsAlone
  DataHasOneOwner
  ReportIsTrue
PROPERTY
  EveryThreadIsJoined
CHECK_DEADLOCK FALSE
