SPECIFICATION Spec
CONSTANTS
  t1 = t1
  t2 = t2
  b1 = b1
  b2 = b2
  Task = {t1, t2}
  Worker = {w1, w2}
  Batch = {b1, b2}
  Resolved <- TwoTasks
  MaxAttempts = 2
  SharedNode = TRUE
  NoTask = NoTask
  NoBatch = NoBatch
  NoOwner = NoOwner
INVARIANTS
  TypeOK
  CriticalSectionOwned
  DoneMeansApplied
  GraphOnlyPrepared
  FailedOnlyExhausted
  CommittedStaysMine
PROPERTY ImplementsOutcome
