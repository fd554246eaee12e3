CONSTANTS
  NumPages = 1
  Requests = {r1, r2}
  None = None
  Ops = {"all", "remaining", "affected", "page", "cover"}
  Faults = {"queue", "translate"}
  QuotaApplies = TRUE
  DailyLimit = 3
  SafetyLimit = 350
  Cost = 100
  MaxAttempts = 2
  MaxStalls = 0
  Concurrency = 1
  InitialRows <- AnyRow
SYMMETRY Symmetry
SPECIFICATION Spec
INVARIANTS
  GatedJobsReserved
  CompletedHasImage
CHECK_DEADLOCK FALSE
