SPECIFICATION Spec
CONSTANTS
  NoDay = NoDay
  NoRange = NoRange
  None = None
  MaxEdges = 3
  MaxPaths = 2
  MaxSearch = 6
  MaxEvents = 3
  YearLength = 4
  Release = rel
  Graphs <- MCGraphs
  Requests <- MCRequests
  Followups <- MCFollowups
  Programs <- MCPrograms
  Late <- MCLate
  Other = "av"
  MaxTurns = 2
  Days <- MCDays
INVARIANTS
  TypeOK
  ProgramsTyped
  AnswerGrounded
  CountExact
  CountsAgree
  PathsSound
  TraceSound
  CardsSuffice
PROPERTY
  StateSucceeds
