SPECIFICATION Spec
CONSTANTS
  cpu1 = cpu1
  cpu2 = cpu2
  None = None
  Modes = {"ebpf_ssl"}
  RingCap = 2
  ChanCap = 1
  Cpus = {cpu1, cpu2}
  Frames <- MCFrames
  Port = 5432
  CopyMayFail = FALSE
  MaxFrames = 0
  Threads <- MCThreads
  Rets <- SmallRets
  TargetPID = 0
  ServerPort = 5432
  MAX_ENTRIES = 1
  PurgeEvery = 2
  Wrap = 1073741824
  MaxCalls = 3
INVARIANT NothingVanishes
CHECK_DEADLOCK FALSE
