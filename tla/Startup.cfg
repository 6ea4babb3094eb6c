CONSTANTS
  Process = {p1, p2, p3, p4}
  None = None
  Faults = {"socket", "bind", "fork", "session", "listen", "sigaction"}
SYMMETRY Alike
SPECIFICATION Spec
INVARIANTS
  ServingOwnsPort
  StopReachesStarted
CHECK_DEADLOCK FALSE
