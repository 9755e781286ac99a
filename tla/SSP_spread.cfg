SPECIFICATION Spec
CONSTANTS
  c1 = c1  c2 = c2  t1 = t1  t2 = t2  t3 = t3  r1 = r1  r2 = r2
  Clients = {c1, c2}
  Threads = {t1, t2}
  ClientOf <- OnePerClient
  Servers = {c1, c2}
  Rows = {r1, r2}
  ServerOf <- Spread
  Staleness = 0
  Capacity = 1
  Aggressive = FALSE
  StoredSent = {TRUE, FALSE}
  MaxClock = 2
  MaxIncs <- IncsFirst
  CachingThreads = {}
  Readers = {t2}
CHECK_DEADLOCK FALSE
PROPERTIES
  ImplementsBoundedStaleness
