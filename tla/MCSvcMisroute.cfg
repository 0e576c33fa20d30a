SPECIFICATION Spec
CONSTANTS
  hA = hA
  hB = hB
  hC = hC
  a1 = a1
  a2 = a2
  e1 = e1
  e2 = e2
  Hosts <- ThreeHosts
  Attempts <- OneAttempt
  Ids <- OneId
  NoId = NoId
  NoAddress = NoAddress
  Invalid = Invalid
  ClientOf <- OneClient
  ServerOf <- OneServer
  IdOf <- OneOwn
  FreshChallenges = TRUE
  MaxDuplicates = 0
  Listeners <- JustB
  MaxListens = 1
  KnownPeers <- BKnowsC
INVARIANT AnswerGoesToClient
CHECK_DEADLOCK FALSE
