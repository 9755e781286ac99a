SPECIFICATION Spec
CONSTANTS
  c1 = c1  c2 = c2  t1 = t1  t2 = t2  t3 = t3  r1 = r1  r2 = r2
  Clients = {c1, c2}
  Threads = {t1, t2, t3}
  ClientOf <- TwoAndOne
  Servers = {c1}
  Rows = {r1}
  ServerOf <- OneRow
  Staleness = 0
  Capacity = 1
  Aggressive = FALSE
  StoredSent = {TRUE, FALSE}
  MaxClock = 2
  MaxIncs <- IncsNone
  CachingThreads = {}
  Readers = {t1, t2}
CHECK_DEADLOCK FALSE
INVARIANTS
  AwaitedRowsAreRequested
