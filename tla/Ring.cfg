SPECIFICATION FairSpec
CONSTANTS
  Producers = {p1, p2}
  Consumers = {c1, c2}
  Capacity = 2
  Policies = {"block", "drop_oldest", "drop_newest"}
  MaxSeq = 2
  NoEvent = NoEvent
INVARIANTS TypeOK RingConsistent PerConnOrder NoLostWakeup OverflowCounted
PROPERTIES ImplementsQueue WaitersReleased
CHECK_DEADLOCK FALSE
