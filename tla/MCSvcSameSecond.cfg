SPECIFICATION FairSpec
CONSTANTS
  hA = hA
  hB = hB
  hC = hC
  a1 = a1
  a2 = a2
  e1 = e1
  e2 = e2
  Hosts <- TwoHosts
  Attempts <- TwoAttempts
  Ids <- OneId
  NoId = NoId
  NoAddress = NoAddress
  Invalid = Invalid
  ClientOf <- Again
  ServerOf <- AgainServers
  IdOf <- AgainIds
  FreshChallenges = TRUE
  MaxDuplicates = 0
  Listeners <- JustB
  MaxListens = 2
  KnownPeers <- BKnowsA
INVARIANT Agreement
PROPERTY EstablishReturns
CHECK_DEADLOCK FALSE
