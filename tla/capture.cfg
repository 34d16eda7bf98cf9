SPECIFICATION FairSpec
CHECK_DEADLOCK FALSE
CONSTANTS
  ab = ab
  ba = ba
  Keys = {ab, ba}
  Junk = Junk
  Reverse <- MCReverse
  IdleTimeout = 1
  MaxPackets = 3
  MaxWire = 1
  MaxTime = 2
  MaxSteps = 1
  Limits <- MCLimits
INVARIANT OneStream
INVARIANT RowsAreStreams
PROPERTY KeepsLedger
PROPERTY IdleFlowsLeave
INVARIANT StopIsClean
