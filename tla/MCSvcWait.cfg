SPECIFICATION FairSpec
CONSTANTS
  c1 = c1
  c2 = c2
  Callers <- TwoCallers
  MaxCalls = 1
INVARIANTS
  TypeOK
  EnoughAlarms
PROPERTY WaitReturns
CHECK_DEADLOCK FALSE
