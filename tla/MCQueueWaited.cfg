SPECIFICATION Spec
CONSTANTS
  p1 = p1
  p2 = p2
  p3 = p3
  c1 = c1
  w1 = w1
  w2 = w2
  Producers <- TwoProducers
  Pollers <- None
  Waiters <- Listeners
  NoThread = NoThread
  MaxItems = 5
INVARIANT CountBalanced
PROPERTY FifoSpec
CHECK_DEADLOCK FALSE
