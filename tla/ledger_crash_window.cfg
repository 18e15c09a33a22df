SPECIFICATION Spec
CONSTANTS
  t1 = t1
  t2 = t2
  b1 = b1
  b2 = b2
  Task = {t1}
  Worker = {w1}
  Batch = {b1}
  Resolved <- OneTask
  MaxAttempts = 3
  SharedNode = TRUE
  NoTask = NoTask
  NoBatch = NoBatch
  NoOwner = NoOwner
INVARIANT FailedLeavesNoGraphWrite
