SPECIFICATION FairSpec
CONSTANTS
  Producers = {p1, p2}
  BlockProducers = {p1}
  Consumers = {c1}
  Capacity = 2
  Policies = {"block", "drop_oldest", "drop_newest"}
  MaxSeq = 3
  MaxFaults = 1
  Garbage = Garbage
INVARIANTS TypeOK DeliversInOrderToTheEnd LogConsistent LossesReported
PROPERTIES ImplementsQueue WaitersReleased
CHECK_DEADLOCK FALSE
