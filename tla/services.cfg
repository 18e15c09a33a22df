SPECIFICATION LiveSpec
CONSTANTS
  Chain <- ThreeLaunchers
  Patience <- Delays
  Task = {t1, t2}
  MaxGeneration = 3
  Nothing = Nothing
INVARIANTS
  TypeOK
  ResultsAgree
  LeasesCurrent
PROPERTIES
  ResultsGrow
  SignalStops
