SPECIFICATION Spec
CHECK_DEADLOCK FALSE
CONSTANTS
  r1 = r1
  r2 = r2
  r3 = r3
  a = a
  b = b
  Rows <- MCRows
  Sources <- MCSources
  SrcOf <- MCSrcOf
  PacketThreads = {p1}
  MaxRows = 2
  TTL = 1
  Overlap = TRUE
  CleanStop = TRUE
  MaxTime = 1
  MaxBatches = 2
  MaxSessions = 1
INVARIANT NotSilentlyDiscarded
