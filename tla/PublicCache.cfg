SPECIFICATION Spec
CONSTANTS
  r1 = r1
  r2 = r2
  w1 = w1
  w2 = w2
  Workloads <- MCWorkloads
  Stories = {s1}
  Readers = {r1, r2}
  Writers = {w1, w2}
  TTL = 1
  MaxFill = 1
INVARIANTS
  TypeOK
  FreshAfterBust
PROPERTIES
  AnswersRecent
  Heals
CHECK_DEADLOCK FALSE
