SPECIFICATION FairSpec
CHECK_DEADLOCK FALSE
CONSTANTS
  r1 = r1
  r2 = r2
  r3 = r3
  a = a
  b = b
  Rows <- MCFewRows
  Sources <- MCSources
  SrcOf <- MCFewSrcOf
  PacketThreads = {p1}
  MaxRows = 1
  TTL = 1
  Overlap = TRUE
  CleanStop = TRUE
  MaxTime = 1
  MaxBatches = 2
  MaxSessions = 2
PROPERTY GateHolds
PROPERTY HandlersReturn
