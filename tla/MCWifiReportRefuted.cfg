SPECIFICATION FairSpec
CONSTANTS
  NumInterfaces = 1
  Saved <- OneNetwork
  Script <- Wpa
  MaxRepeats = 1
  MaxMissed = 0
\* One at a time: each is violated, ReportEnds on an open network.
PROPERTY LastEapIsFourth
\* INVARIANT NothingLeft
\* Script <- Open
\* PROPERTY ReportEnds
CHECK_DEADLOCK FALSE
