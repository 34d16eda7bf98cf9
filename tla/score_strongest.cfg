SPECIFICATION ScoreSpec
CHECK_DEADLOCK FALSE
CONSTANTS
  Sources = {s1, s2}
  NoSource = NoSource
  Full = 10
  Round <- MCRound
  Threshold = 5
  MaxEvents = 2
INVARIANT WinnerIsStrongest
