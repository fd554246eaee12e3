CONSTANTS
  NumPages = 1
  Requests = {r1}
  None = None
  Ops = {"all"}
  Faults = {"provider"}
  QuotaApplies = TRUE
  DailyLimit = 4
  SafetyLimit = 400
  Cost = 100
  MaxAttempts = 2
  MaxStalls = 0
  Concurrency = 2
  InitialRows <- OnlyFresh
SPECIFICATION Spec
INVARIANT OneTerminalPerRun
CHECK_DEADLOCK FALSE
