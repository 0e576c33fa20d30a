SPECIFICATION FairSpec
CONSTANTS
  e1 = e1
  e2 = e2
  EndPoints <- OneEndPoint
  Kinds <- AllKinds
  MaxFrames = 2
  MaxQueue = 0
  MaxSigints = 2
INVARIANTS
  TypeOK
  ThreadsEndFirst
  DeletedOnce
  LookupsLive
  UsedAfterGone
  FramesInOrder
PROPERTIES
  MessagesDeletedOnce
  FramesLeave
  ShutdownEnds
CHECK_DEADLOCK FALSE
