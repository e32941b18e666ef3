SPECIFICATION FairSpec
CONSTANTS
  h1 = h1
  h2 = h2
  det = det
  ipA = ipA
  ipB = ipB
  None = None
  Handlers = {h1, h2}
  Detectors = {det}
  Setups = {{h1, h2}, {h1, det}}
  IPs = {ipA, ipB}
  OpenMayFail = TRUE
  QueueCap = 1
  LaneCap = 1
  MaxCalls = 3
  MaxEvents = 3
INVARIANTS TypeOK RequestsAwaitProducer CleanDrainLosesNothing
INVARIANT CaptureFollowsSource
PROPERTY ShutdownTerminates
CHECK_DEADLOCK FALSE
