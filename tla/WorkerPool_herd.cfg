\* One pool: the feeder, the herder and the herdtimer work on the same idle
\* list.  The limits make work overflow and be refused, the herder overshoot
\* and the herdtimer retire threads.
SPECIFICATION FairSpec
CONSTANTS
  Workers = {w1, w2, w3}
  Feeders = {f1}
  Sessions = {s1, s2}
  InitPools = 1
  MaxPools = 1
  WThreadMin = 2
  WThreadMax = 3
  AddThreshold = 0
  OverflowMax = 0
  None = None
INVARIANTS PoolInv WorkConserving
PROPERTY AcceptedWorkRuns
