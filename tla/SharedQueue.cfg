SPECIFICATION FairSpec
CONSTANTS
  Messages = {m1, m2, m3}
  MaxRetries = 2
  Timeout = 2
INVARIANTS
  Conservation
  RetryBudget
  FirstDeliveriesInOrder
PROPERTIES
  SettledIsFinal
  EventuallySettled
  ContractSpec
  ContractFairness
CHECK_DEADLOCK FALSE
