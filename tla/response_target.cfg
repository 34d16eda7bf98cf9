SPECIFICATION Spec
CHECK_DEADLOCK FALSE
CONSTANTS
  a = a
  b = b
  NoIP = NoIP
  IPs <- MCIPs
  Batches <- MCBatches
  Emitters = {worker}
  Clients = {c1}
  Threshold = 92
  MaxBatches = 2
  MaxAsks = 1
  MaxRestarts = 0
PROPERTY BlocksOnlyWinners
