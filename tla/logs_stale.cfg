SPECIFICATION LogSpec
CHECK_DEADLOCK FALSE
CONSTANTS
  MaxGen = 1
  MaxSize = 4
INVARIANT CheckedIsShown
