\* Progress of the server, with every failure but that of the thread node and
\* signals that find any call.
CONSTANTS
  Client = {1, 2, 3}
  Local = {}
  Stream <- LeaverStreams
  SeekText <- MCSeekText
  BadSeek <- MCBadSeek
  FD = {0, 1, 2, 3, 4}
  BufLen = 3
  MaxOps = 2
  Faults <- ProgressFaults
  Hits = {"main", "recv", "read", "send"}
  MaxSignals = 1
  HangUps = TRUE
CHECK_DEADLOCK FALSE
SPECIFICATION FairSpec
PROPERTIES
  EveryClientIsClosed
  StopsUnlessMissed
