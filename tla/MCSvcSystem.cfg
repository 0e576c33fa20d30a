SPECIFICATION Spec
CONSTANTS
  hA = hA
  hB = hB
  hC = hC
  a1 = a1
  a2 = a2
  e1 = e1
  e2 = e2
  Hosts <- TwoHosts
  Attempts <- TwoAttempts
  Ids <- TwoIds
  NoId = NoId
  NoAddress = NoAddress
  Invalid = Invalid
  ClientOf <- Crossed
  ServerOf <- CrossedServers
  IdOf <- OwnIds
  FreshChallenges = TRUE
  MaxDuplicates = 1
  Listeners <- JustB
  MaxListens = 1
  KnownPeers <- FirstCalls
INVARIANT TypeOK
PROPERTY Connects
CHECK_DEADLOCK FALSE
