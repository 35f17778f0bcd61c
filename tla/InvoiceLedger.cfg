SPECIFICATION FairSpec
CONSTANTS
  None = None
  Callers = {q1, q2, q3}
  Periods = {p1}
  LastYear = 2
  MaxCalls = 4
  MaxFaults = 1
INVARIANTS
  LedgerInv
  AuditClean
  OneDocumentPerPeriod
  WinnerFound
PROPERTIES
  NumberedInOrder
  EveryCallEnds
CHECK_DEADLOCK FALSE
