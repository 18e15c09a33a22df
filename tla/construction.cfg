SPECIFICATION Spec
CONSTANTS
  t1 = t1
  t2 = t2
  t3 = t3
  o1 = o1
  o2 = o2
  o3 = o3
  NoValue = NoValue
  NoTask = NoTask
  NoWorker = NoWorker
  NoBatch = NoBatch
  Task = {t1, t2, t3}
  Worker = {w1, w2}
  Parsed <- Mixed
  Seed <- Unrelated
  MaxAttempts = 2
INVARIANTS
  ResolutionCurrent
  OneIdentity
  MergedAgree
  ExpansionComplete
  RepeatIdempotent
