SPECIFICATION Spec
CONSTANTS
  hA = hA
  hB = hB
  hC = hC
  a1 = a1
  a2 = a2
  e1 = e1
  e2 = e2
  Hosts <- TwoHosts
  Attempts <- TwoAttempts
  Ids <- TwoIds
  NoId = NoId
  NoAddress = NoAddress
  Invalid = Invalid
  ClientOf <- Again
  ServerOf <- ZeroServers
  IdOf <- ZeroIds
  FreshChallenges = TRUE
  MaxDuplicates = 0
  Listeners <- JustB
  MaxListens = 1
  KnownPeers <- FirstCalls
PROPERTY OnlyBadAddressRefused
CHECK_DEADLOCK FALSE
