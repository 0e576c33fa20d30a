SPECIFICATION Spec
CONSTANTS
  hA = hA
  hB = hB
  hC = hC
  a1 = a1
  a2 = a2
  e1 = e1
  e2 = e2
  Hosts <- TwoHosts
  Attempts <- OneAttempt
  Ids <- OneId
  NoId = NoId
  NoAddress = NoAddress
  Invalid = Invalid
  ClientOf <- OneClient
  ServerOf <- BadServer
  IdOf <- OneOwn
  FreshChallenges = FALSE
  MaxDuplicates = 2
  Listeners <- JustB
  MaxListens = 2
  KnownPeers <- BKnowsA
INVARIANT AcceptedOnce
CHECK_DEADLOCK FALSE
