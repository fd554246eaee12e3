SPECIFICATION Spec
CONSTANTS
  Procs = {p1, p2}
  Workloads <- MCWorkloads
  AccessTtl = 1
  RememberTtl = 2
  MaxAttempts = 2
  MaxResends = 3
  MaxSessions = 3
  MaxNow = 2
  MaxPasswords = 1
  MaxVersions = 1
  MaxCodes = 3
INVARIANTS
  TypeOK
  RevokedNeverAccepted
  LifetimeKept
  RefreshedOnce
  NoSessionOutlivesChange
  GuessesBounded
  CodeUsedOnce
  MailsBounded
SYMMETRY Clients
CHECK_DEADLOCK FALSE
