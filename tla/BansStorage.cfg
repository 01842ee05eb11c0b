\* Bans: two worker threads, two purgers and the lurker work on one object; up to
\* three bans, among them duplicates, are added; t2 needs a request.
\* Storage: four pages of file, mapped in pieces, and three of malloc, for two
\* sessions and two objects (which share names with clients and purgers, so that
\* there are few symmetries).
SPECIFICATION PartSpec
CONSTANTS
  t1 = t1
  t2 = t2
  Clients = {c1, c2}
  Purgers = {i1, i2}
  Objects = {o1}
  Tests = {t1, t2}
  ReqTests = {t2}
  Match <- OneMatches
  PurgeDups = TRUE
  MaxPurges = 3
  MaxLurks = 2
  Sessions = {c1, c2}
  StvObjects = {i1, i2}
  FilePages = 4
  InitialFail = 4
  MINPAGES = 2
  NBUCKET = 3
  MallocMax = 3
  MaxFail = 2
  Sizes = {1, 3}
  MaxStores = 1
  MaxLeak = 1
SYMMETRY Symmetric
INVARIANTS BanInv BansNotForgotten StorageExact
\* The bounds on bans end a behaviour.
CHECK_DEADLOCK FALSE
