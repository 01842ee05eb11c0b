\* Requests: two restarts, includes nested twice, two includes per object.
\* Backends: two programs or three over a backend, two workers or one, and the
\* expiry thread; the behaviours in which VBE_AddBackend loses an update end there
\* (see README).
SPECIFICATION RequestSpec
CONSTANTS
  MaxRestarts = 2
  MaxEsi = 2
  MaxIncludes = 2
  MaxWaits = 1
  Vcls <- MCVcls
  Backends = {"p"}
  Uses <- MCUses
  Probed = {"p"}
  MaxConn <- MCMaxConn
  Workers = {w1, w2}
  Timer = timer
  Window = 1
  Threshold = 1
  Initial = 0
INVARIANTS RequestInv NothingHeld AnsweredOnce BackendInv BackendAlive
PROPERTIES RequestEnds DiscardedIsFreed
