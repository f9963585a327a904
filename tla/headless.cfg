SPECIFICATION Spec
CONSTANTS
  Starts <- MCStarts
  MaxRetries = 2
  MaxRules = 14
  NoticeMax = 2
  MaxChain = 10
  MaxAggregate = 24
INVARIANTS
  ScopedFlagsTakeEffect
  ServedByItsCredential
  CutsAreTold
  StdoutIsFinalMessage
  ReportIsTrue
  CleanedUp
