CONSTANTS
  Waiters <- MCWaiters
  Chunks <- MCChunks
  Fds <- MCFds
  Workers <- MCWorkers
  MaxSess = 1
  Timeout = 1
  Spare = 2
  NKEV = 2
SPECIFICATION IdleSpec
INVARIANT SessionInv
PROPERTY IdleTimesOut
CHECK_DEADLOCK FALSE
