SPECIFICATION FairSpec
CONSTANTS
  t1 = t1
  t2 = t2
  t3 = t3
  Readers <- OneThread
  Writers <- OtherThread
  MaxDepth = 1
\* One at a time: each is violated.
PROPERTY WaitingWriterWakes
\* PROPERTY WaitingReaderWakes
CHECK_DEADLOCK FALSE
