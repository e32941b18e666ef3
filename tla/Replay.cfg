SPECIFICATION FairSpec
CONSTANTS
  None = None
  SerialKey = c1
  Conns = {c1, c2}
  MaxSeq = 2
  Modes <- AllModes
INVARIANTS TypeOK ReplayOrder ResourcesBounded ReturnedMeansDrained
PROPERTY RunReturnsInTheEnd
CHECK_DEADLOCK FALSE
