CONSTANTS
  NumPages = 1
  Requests = {r1, r2}
  None = None
  Ops = {"page"}
  Faults = {"queue", "translate", "provider", "prompt", "notify"}
  QuotaApplies = TRUE
  DailyLimit = 2
  SafetyLimit = 250
  Cost = 100
  MaxAttempts = 2
  MaxStalls = 0
  Concurrency = 1
  InitialRows <- OnlyFresh
SPECIFICATION FairSpec
PROPERTIES
  JobsFinish
  PagesSettle
CHECK_DEADLOCK FALSE
