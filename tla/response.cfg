SPECIFICATION Spec
CHECK_DEADLOCK FALSE
CONSTANTS
  a = a
  b = b
  NoIP = NoIP
  IPs <- MCIPs
  Batches <- MCBatches
  Emitters = {worker, monitor}
  Clients = {c1, c2}
  Threshold = 92
  MaxBatches = 2
  MaxAsks = 2
  MaxRestarts = 1
INVARIANT PairedWhenQuiet
INVARIANT AuditNeverOverstates
PROPERTY BlocksOnlyJudged
