CONSTANTS
  NumPages = 1
  Requests = {r1}
  None = None
  Ops = {"page"}
  Faults = {}
  QuotaApplies = TRUE
  DailyLimit = 4
  SafetyLimit = 400
  Cost = 100
  MaxAttempts = 1
  MaxStalls = 0
  Concurrency = 2
  InitialRows <- OnlyFresh
SPECIFICATION Spec
INVARIANT StatusConsistent
CHECK_DEADLOCK FALSE
