SPECIFICATION FairSpec
CONSTANTS
  e1 = e1
  e2 = e2
  EndPoints <- OneEndPoint
  Kinds <- AllKinds
  MaxFrames = 2
  MaxQueue = 0
  MaxSigints = 2
\* One at a time: each is violated.
INVARIANT LoopHoldsLive
\* INVARIANT SenderAlive
\* INVARIANT TimerDeletedOnce
\* PROPERTY SigintStops
\* PROPERTY AlwaysExits
CHECK_DEADLOCK FALSE
