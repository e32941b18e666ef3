SPECIFICATION Spec
CONSTANTS
  Producers = {p1, p2}
  BlockProducers = {p1, p2}
  Consumers = {c1}
  Capacity = 2
  Policies = {"block"}
  MaxSeq = 3
  MaxFaults = 0
  Garbage = Garbage
INVARIANT PerConnOrder
CHECK_DEADLOCK FALSE
