SPECIFICATION Spec
CONSTANTS
  c1 = c1
  c2 = c2
  Callers <- OneCaller
  MaxCalls = 2
\* One at a time: each is violated.
PROPERTY TimeoutIsOwn
\* INVARIANT AnswerHasParams
\* INVARIANT ListInUseStays
CHECK_DEADLOCK FALSE
