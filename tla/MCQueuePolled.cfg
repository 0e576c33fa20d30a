SPECIFICATION Spec
CONSTANTS
  p1 = p1
  p2 = p2
  p3 = p3
  c1 = c1
  w1 = w1
  w2 = w2
  Producers <- ThreeProducers
  Pollers <- Sender
  Waiters <- None
  NoThread = NoThread
  MaxItems = 5
INVARIANTS
  TypeOK
  PeekedStays
CHECK_DEADLOCK FALSE
