SPECIFICATION MCSpec
CHECK_DEADLOCK FALSE
CONSTANTS
  MaxGen = 2
  MaxSize = 5
  Clients = {c1, c2}
  MaxEvent = 2
  Buffer = 1
INVARIANT RecordsInOrder
INVARIANT StampedIsShown
PROPERTY RecordsArrive
PROPERTY RestingLogShown
INVARIANT NoAnalysisMissed
INVARIANT DeadAreDropped
PROPERTY BroadcastsEnd
