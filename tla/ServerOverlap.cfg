\* Three clients whose workers meet when a thread node cannot be allocated.
CONSTANTS
  Client = {1, 2, 3}
  Local = {}
  Stream <- ThreeStreams
  SeekText <- MCSeekText
  BadSeek <- MCBadSeek
  FD = {0, 1, 2, 3}
  BufLen = 3
  MaxOps = 1
  Faults = {"node"}
  Hits = {"read"}
  MaxSignals = 1
  HangUps = FALSE
CHECK_DEADLOCK FALSE
SPECIFICATION Spec
INVARIANT ResponsesExclusive
