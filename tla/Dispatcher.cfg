SPECIFICATION FairSpec
CONSTANTS
  Requests = {h1, h2, f1, f2}
  Http = {h1, h2}
  Diverging = {h1, f1}
  MaxConcurrent = 2
INVARIANTS
  PermitsAccounted
  BoundedConcurrency
  GaugeExplained
  CountersAgree
PROPERTIES
  RefusedOnlyWhenFull
  PermitReturns
CHECK_DEADLOCK FALSE
