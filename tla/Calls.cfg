CONSTANTS
  Main = 1
  Pid = {1, 2, 3, 4, 5, 6}
  Background = {2}
  Faults = {"open", "fork", "dup"}
  Programs <- Short
SPECIFICATION FairSpec
INVARIANT TypeOK
INVARIANT FalseMeansFailed
INVARIANT SystemTruthful
INVARIANT ChildrenBalanced
INVARIANT ErrorsCloseOutput
INVARIANT RepeatsOnlyAfterFailedExec
PROPERTY ProgramFinishes
CHECK_DEADLOCK FALSE
