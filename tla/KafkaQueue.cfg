SPECIFICATION FairSpec
CONSTANTS
  Producers = {p1}
  Partitions = {k1}
  BufferSize = 2
  BatchCap = 2
  MaxRetries = 2
  BreakerLimit = 2
  MaxSeq = 3
  MaxEvents = 3
  MaxFaults = 4
  Garbage = Garbage
INVARIANTS TypeOK EventsAccounted NeitherEndsEarly
PROPERTIES RetriesStayInBatch FlushesAndCloses
CHECK_DEADLOCK FALSE
