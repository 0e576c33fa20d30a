SPECIFICATION Spec
CONSTANTS
  p1 = p1
  p2 = p2
  p3 = p3
  c1 = c1
  w1 = w1
  w2 = w2
  Producers <- OneProducer
  Pollers <- Sender
  Waiters <- None
  NoThread = NoThread
  MaxItems = 3
INVARIANT ThreadSafe
CHECK_DEADLOCK FALSE
