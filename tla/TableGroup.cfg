SPECIFICATION FairSpec
CONSTANTS
  Threads = {t1, t2, t3}
  InitThread = t1
  Aggressive = TRUE
  MaxClock = 3
CHECK_DEADLOCK FALSE
INVARIANTS
  TypeOK
  ClocksOncePerMinimum
  ClockCoversUpdates
PROPERTIES
  MinimumNeverFalls
  ClocksAreTold
