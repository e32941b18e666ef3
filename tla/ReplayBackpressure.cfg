SPECIFICATION FairSpec
CONSTANTS
  None = None
  SerialKey = c1
  Conns = {c1, c2}
  MaxSeq = 2
  Modes <- QueueGuard
PROPERTY RunReturnsOnClose
CHECK_DEADLOCK FALSE
