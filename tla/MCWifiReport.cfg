SPECIFICATION FairSpec
CONSTANTS
  NumInterfaces = 2
  Saved <- SavedNetworks
  Script <- ShortWpa
  MaxRepeats = 2
  MaxMissed = 1
INVARIANTS
  TypeOK
  EnabledAfterListening
  ReportComplete
  EachNetworkTested
  CleanExit
PROPERTIES
  LastEapRight
  ReportEnds
CHECK_DEADLOCK FALSE
