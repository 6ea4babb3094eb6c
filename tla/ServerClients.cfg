\* Clients of the server and a program beside it, with every failure but that of
\* the thread node, hang-ups and a signal.
CONSTANTS
  Client = {1, 2, 3, 4}
  Local = {4}
  Stream <- ClientStreams
  SeekText <- MCSeekText
  BadSeek <- MCBadSeek
  FD = {0, 1, 2, 3}
  BufLen = 2
  MaxOps = 2
  Faults <- SerialFaults
  Hits = {"main", "recv"}
  MaxSignals = 1
  HangUps = TRUE
CHECK_DEADLOCK FALSE
SPECIFICATION Spec
INVARIANTS
  TypeOK
  OneWorkerAtATime
  DescriptorsAreOwn
  NoDescriptorLeak
  RoomToReceive
PROPERTIES
  StoresWhatWasSent
  ResponseFollowsDevice
