SPECIFICATION LiveSpec
CONSTANTS
  f1 = f1
  f2 = f2
  k1 = k1
  k2 = k2
  k3 = k3
  q1 = q1
  q2 = q2
  csv = csv
  xlsx = xlsx
  x1 = x1
  x2 = x2
  x3 = x3
  File = {f1, f2}
  Content = {a, b}
  a = a
  Original = a
  Producer = {q1, q2, csv, xlsx}
  Jobs <- MCJobs
  Expander = {x1, x2, x3}
  Agendas <- MCAgendas
  Candidates <- MCCandidates
  Depth <- MCDepth
  MaxDepth = 2
  MaxEntities = 2
  MaxEdits = 1
  MaxTries = 2
  None = None
  Worker = {w1, w2}
  MaxTasks = 2
  MaxAttempts = 2
  MaxCrashes = 1
  Gone = Gone
INVARIANTS
  TypeOK
  CapturesAgree
  FrontierSound
PROPERTIES
  FrontierGrows
  EveryTaskDelivered
