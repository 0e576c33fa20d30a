SPECIFICATION FairSpec
CONSTANTS
  p1 = p1
  p2 = p2
  p3 = p3
  c1 = c1
  w1 = w1
  w2 = w2
  Producers <- OneProducer
  Pollers <- None
  Waiters <- OneListener
  NoThread = NoThread
  MaxItems = 1
PROPERTY WaiterWoken
CHECK_DEADLOCK FALSE
