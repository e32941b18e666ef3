SPECIFICATION Spec
CONSTANTS
  h1 = h1
  h2 = h2
  det = det
  ipA = ipA
  ipB = ipB
  None = None
  Handlers = {h1, h2}
  Detectors = {det}
  Setups = {{h1, det}}
  IPs = {ipA, ipB}
  OpenMayFail = FALSE
  QueueCap = 1
  LaneCap = 1
  MaxCalls = 3
  MaxEvents = 1
INVARIANT SingleProcessor
CHECK_DEADLOCK FALSE
