SPECIFICATION FairSpec
CONSTANTS
  Messages = {m1}
  MaxRetries = 1
  Timeout = 1
  HttpRequests = {h1}
  Diverging = {h1}
  MaxConcurrent = 1
  Answered = {m1}
  Loopers = {l1, l2}
  ExpireEvery = 2
INVARIANTS
  DeliveriesReachDispatcher
PROPERTIES
  LoopersServeQueue
  GaugeSettles
CHECK_DEADLOCK FALSE
