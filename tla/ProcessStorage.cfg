SPECIFICATION Spec
CONSTANTS
  w1 = w1  w2 = w2  t1 = t1
  Capacity = 2
  MaxRounds = 2
  MaxHand = 15
  Workers = {w1, w2}
  RowsOf <- TwoAndOne
  Threads = {t1}
  MaxReplies = 3
  MaxFinds = 2
CHECK_DEADLOCK FALSE
INVARIANTS
  TypeOK
  ReferencedRowsAreStored
  RowsSlotsAndCountAgree
  NoCheckFails
  NobodyIsStuck
  RowsToEvictSuffice
