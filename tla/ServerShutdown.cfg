CONSTANTS
  Client = {1, 2}
  Local = {}
  Stream <- TwoStreams
  SeekText <- MCSeekText
  BadSeek <- MCBadSeek
  FD = {0, 1, 2, 3, 4}
  BufLen = 2
  MaxOps = 2
  Faults = {}
  Hits = {"main"}
  MaxSignals = 1
  HangUps = FALSE
CHECK_DEADLOCK FALSE
SPECIFICATION FairSpec
PROPERTY
  GracefulShutdown
