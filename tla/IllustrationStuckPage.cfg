CONSTANTS
  NumPages = 1
  Requests = {r1}
  None = None
  Ops = {"remaining"}
  Faults = {"queue"}
  QuotaApplies = TRUE
  DailyLimit = 4
  SafetyLimit = 400
  Cost = 100
  MaxAttempts = 1
  MaxStalls = 0
  Concurrency = 1
  InitialRows <- OnlyFresh
SPECIFICATION Spec
INVARIANT RetryPossible
CHECK_DEADLOCK FALSE
