\* Four segments in a silo that has room for two, three starts or bans, objects
\* and bodies that fit, are cut down or are too long for any segment.  A log of
\* twelve cells that wraps.
SPECIFICATION FilesSpec
CONSTANTS
  MediaSize = 14
  AimNseg = 2
  AimNobj = 1
  ReserveSegs = 1
  Asked <- MCAsked
  MinTrim = 0
  MaxGen = 4
  MaxTime = 3
  Writers <- MCWriters
  Workers <- MCWorkers
  LogSize = 12
  MaxLen = 1
  BufSize = 8
  MaxRecord = 8
CONSTRAINT Followed
\* A silo that cannot be opened, a child that dies in the middle of a record,
\* and the bounds, end a behaviour.
CHECK_DEADLOCK FALSE
INVARIANTS   BansSurvive FreedStaysFreed 
