\* Three sessions race for one key under fair scheduling; each release wakes
\* one parked session, so that the others depend on what that one does.
SPECIFICATION FairSpec
CONSTANTS
  Sess = {s1, s2, s3}
  Keys = {k1}
  Cores = {c1, c2, c3}
  RushExponent = 1
  MaxLookups = 1
  QueueMayRefuse = FALSE
  Silo = FALSE
INVARIANTS CacheInv NoUseAfterFree FetchesCoalesced NoLostWakeup
PROPERTIES EveryLookupEnds
CHECK_DEADLOCK FALSE
