SPECIFICATION Spec
CONSTANTS
  hA = hA
  hB = hB
  hC = hC
  a1 = a1
  a2 = a2
  e1 = e1
  e2 = e2
  Hosts <- TwoHosts
  Attempts <- TwoAttempts
  Ids <- OneId
  NoId = NoId
  NoAddress = NoAddress
  Invalid = Invalid
  ClientOf <- Crossed
  ServerOf <- CrossedServers
  IdOf <- AgainIds
  FreshChallenges = TRUE
  MaxDuplicates = 0
  Listeners <- JustB
  MaxListens = 1
  KnownPeers <- FirstCalls
INVARIANT LookupsUnique
CHECK_DEADLOCK FALSE
