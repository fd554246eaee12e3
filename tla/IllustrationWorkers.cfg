CONSTANTS
  NumPages = 1
  Requests = {r1}
  None = None
  Ops = {"all"}
  Faults = {"provider", "prompt", "notify", "crash"}
  QuotaApplies = TRUE
  DailyLimit = 3
  SafetyLimit = 350
  Cost = 100
  MaxAttempts = 2
  MaxStalls = 0
  Concurrency = 2
  InitialRows <- OnlyFresh
SPECIFICATION Spec
INVARIANTS
  TypeOK
  NeuronBudget
  AnnouncedOncePerClear
PROPERTIES
  EndsSettled
CHECK_DEADLOCK FALSE
