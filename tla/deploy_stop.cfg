SPECIFICATION MCSpec
CHECK_DEADLOCK FALSE
CONSTANTS
  Loop = {loop}
  Pool = {pool, lifespan}
  Lifespan = lifespan
  Budgets <- MCBudgets
  Hosts <- MCHosts
  Troubles <- MCTroubles
INVARIANT CtrlCStopsEverything
