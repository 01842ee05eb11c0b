\* Finding: a duplicate purge makes a lookup skip the purge it has started with.
SPECIFICATION Spec
CONSTANTS
  t1 = t1
  t2 = t2
  Clients = {c1, c2}
  Purgers = {i1}
  Objects = {o1}
  Tests = {t1, t2}
  ReqTests = {t2}
  Match <- OneMatches
  PurgeDups = TRUE
  MaxPurges = 2
  MaxLurks = 0
SYMMETRY Symmetric
INVARIANT NoStaleDelivery
CHECK_DEADLOCK FALSE
