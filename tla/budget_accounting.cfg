SPECIFICATION Spec
CONSTANTS
  Agenda <- Short
  CallLimits = {2, 4, 5}
  MaxTokens = 10
  MaxCost = 14
  Window = 4
  OutputCap = 1
  InPrice = 1
  OutPrice = 2
  Prompt = {1, 2, 3, 4}
  Usage <- ShortUsage
INVARIANTS
  TypeOK
  SpendCovered
  ReportTrue
  AgendaFits
PROPERTY NoCallAfterExcess
