SPECIFICATION Spec
CONSTANTS
  e1 = e1
  e2 = e2
  EndPoints <- TwoEndPoints
  Kinds <- AllKinds
  MaxFrames = 2
  MaxQueue = 0
  MaxSigints = 2
INVARIANTS
  TypeOK
  ThreadsEndFirst
  DeletedOnce
  LookupsLive
  UsedAfterGone
  FramesInOrder
PROPERTY MessagesDeletedOnce
CHECK_DEADLOCK FALSE
