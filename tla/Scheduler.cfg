SPECIFICATION FairSpec
CONSTANTS
  everyMinute = everyMinute
  never = never
  Schedules = {everyMinute, never}
  Cron <- Quick
  HttpRequests = {h1}
  Diverging = {h1}
  MaxConcurrent = 1
  Step = 30
  MaxTime = 120
INVARIANTS
  OneTickPerInterval
PROPERTIES
  KeepsFiring
CHECK_DEADLOCK FALSE
