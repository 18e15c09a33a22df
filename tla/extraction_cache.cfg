SPECIFICATION Spec
CONSTANTS
  Key = {k1, k2}
  Result = {r1, r2}
  Worker = {w1, w2}
  Capacity = 1
  NoKey = NoKey
  NoResult = NoResult
INVARIANTS
  TypeOK
  TiersAgree
PROPERTY ImplementsWriteOnce
