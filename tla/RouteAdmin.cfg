SPECIFICATION Spec
CONSTANTS
  n = n
  f = f
  home = home
  pay = pay
  k1 = k1
  k2 = k2
  Namespace = n
  Files = {f}
  Words = {home, pay}
  Apps <- OneApp
  StaticWords <- StaticHome
  Requests <- Everything
  Leavers <- Impatient
  DiskFails = TRUE
  MaxRestarts = 1
  MaxId = 6
  NoApp = NoApp
SYMMETRY Symmetry
INVARIANTS
  FailedRegistrationGone
  RegisteredUntilTaken
  RecordsMatchRoutes
  AcknowledgedServes
  DiskFollowsMemory
PROPERTIES
  SavedIsCurrent
CHECK_DEADLOCK FALSE
