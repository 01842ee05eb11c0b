\* A silo thread loads objects while requests, timer and lurker run; each
\* release wakes one parked session.
SPECIFICATION Spec
CONSTANTS
  Sess = {s1, s2, s3}
  Keys = {k1}
  Cores = {c1, c2}
  RushExponent = 1
  MaxLookups = 2
  QueueMayRefuse = FALSE
  Silo = TRUE
SYMMETRY Symmetric
INVARIANT HeadsServed
CHECK_DEADLOCK FALSE
