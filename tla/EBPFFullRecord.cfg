SPECIFICATION Spec
CONSTANTS
  cpu1 = cpu1
  cpu2 = cpu2
  None = None
  Modes = {"ebpf", "ebpf_ssl"}
  RingCap = 2
  ChanCap = 1
  Cpus = {cpu1, cpu2}
  Frames <- MCFrames
  Port = 5432
  CopyMayFail = FALSE
  MaxFrames = 3
  Threads <- MCThreads
  Rets <- MixedRets
  TargetPID = 0
  ServerPort = 5432
  MAX_ENTRIES = 1
  PurgeEvery = 100000
  Wrap = 1073741824
  MaxCalls = 3
INVARIANT RecordHoldsItsBytes
CHECK_DEADLOCK FALSE
