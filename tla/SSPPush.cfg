SPECIFICATION PushSpec
CONSTANTS
  c1 = c1  c2 = c2  t1 = t1  t2 = t2  t3 = t3  r1 = r1  r2 = r2
  Clients = {c1, c2}
  Threads = {t1, t2, t3}
  ClientOf <- TwoAndOne
  Servers = {c1, c2}
  Rows = {r1, r2}
  ServerOf <- BothOnFirst
  Staleness = 0
  Capacity = 1
  Aggressive = TRUE
  StoredSent = {FALSE}
  MaxClock = 1
  MaxIncs <- Incs
  CachingThreads = {t2}
  Readers = {t2}
  VersionModulus = 3
  PushCapacity = 1
  MaxAsync = 3
  AsyncReaders = {t2}
CONSTRAINT Explored
CHECK_DEADLOCK FALSE
INVARIANTS
  PushTypeOK
  OwnUpdatesOnce
  KeptOpLogsAreUnacknowledged
  VersionsSurviveWrapAround
  CachedRowsFollowTheirServer
  NobodySleepsThroughTheClock
  AsyncGetsAreCounted
PROPERTIES
  ImplementsBoundedStaleness
