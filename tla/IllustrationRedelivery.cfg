CONSTANTS
  NumPages = 2
  Requests = {r1}
  None = None
  Ops = {"remaining"}
  Faults = {"crash"}
  QuotaApplies = TRUE
  DailyLimit = 3
  SafetyLimit = 250
  Cost = 100
  MaxAttempts = 1
  MaxStalls = 1
  Concurrency = 2
  InitialRows <- OnlyFresh
SPECIFICATION Spec
INVARIANTS
  NeuronBudget
  AnnouncedOncePerClear
PROPERTY CallsArePrepaid
CHECK_DEADLOCK FALSE
