SPECIFICATION MCSpec
CHECK_DEADLOCK FALSE
SYMMETRY MCSymmetry
CONSTANTS
  MaxRows = 3
  MaxBatch = 4
  MaxArrived = 7
  Signatures = {scan, ddos}
  WindowSeconds = 2
  MaxReported = 2
  MaxTime = 4
  Flows <- MCFlows
  Queries <- MCQueries
  ScanPorts = 3
  LiveScanPorts = 2
  DdosConnections = 3
  DdosSources = 2
  BeaconConnections = 3
  LiveBeaconConnections = 2
  BeaconSpan = 3
  CvTop = 35
  CvBottom = 100
  DosConnections = 4
  PatatorAttempts = 3
  Https = 3
  DgaSlack = 1
  TopOf = 2
  LiveRows = 4
  MaxFlows = 5
  MaxOnPage = 4
  MaxAtOnce = 2
  Sources = {s1, s2}
  NoSource = NoSource
  Full = 10
  Round <- MCRound
  Threshold = 5
  MaxEvents = 3
  a1 = a1
  a2 = a2
  b1 = b1
  ga = ga
  gb = gb
  Questions = {a1, a2, b1}
  GroupIds = {ga, gb}
  SourceOf <- MCSourceOf
  MaxAttempts = 2
  MaxInWork = 2
  MaxRestarts = 1
INVARIANT JudgesRecent
INVARIANT Spaced
INVARIANT NeverStarved
INVARIANT OfflineIsFlagged
PROPERTY NeverUnflagged
INVARIANT AskedWithMemory
INVARIANT RejectedOnlyInOverlap
INVARIANT ScoresAgree
INVARIANT OneWinner
INVARIANT PageAgrees
INVARIANT KeptOnce
