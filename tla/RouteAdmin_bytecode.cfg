SPECIFICATION Spec
CONSTANTS
  n = n
  f = f
  home = home
  pay = pay
  k1 = k1
  k2 = k2
  Namespace = n
  Files = {f}
  Words = {home, pay}
  Apps <- OneApp
  StaticWords <- NoStatic
  Requests <- Bytecode
  Leavers <- NoRequests
  DiskFails = FALSE
  MaxRestarts = 1
  MaxId = 3
  NoApp = NoApp
INVARIANTS
  AcknowledgedServes
CHECK_DEADLOCK FALSE
