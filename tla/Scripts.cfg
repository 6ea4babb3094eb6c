CONSTANTS
  User = {1, 2}
  Major = {241, 242}
  Faults = {"insmod", "rm", "mknod", "chgrp", "chmod"}
  Base = Base
  Run = {Base, d2, d3}
  DirOf <- Itself
  NumFiles = 1
  Root = TRUE
  Elsewhere <- SomeFiles
  TestFaults = {"rm", "mkdir", "open", "write"}
SYMMETRY OthersAlike
SPECIFICATION ScriptsSpec
INVARIANTS
  ReportMatchesDev
  SuccessIsTrue
  FailureHasCause
CHECK_DEADLOCK FALSE
