SPECIFICATION Spec
CONSTANTS
  c1 = c1  c2 = c2  t1 = t1  t2 = t2  t3 = t3
  Clients = {c1, c2}
  Channels = {0, 1}
  HeadChannel = 0
  Threads = {t1, t2, t3}
  ClientOf <- TwoAndOne
  InitThread <- FirstThreads
  Tables = {1}
  MaxClocks <- OneClock
CHECK_DEADLOCK FALSE
INVARIANTS
  TypeOK
  MessagesAreExpected
  TablesExistBeforeUse
  NoMessageForTheGone
  NobodyIsStuck
