SPECIFICATION Spec
CONSTANTS
  c1 = c1
  c2 = c2
  c3 = c3
  t1 = t1
  t2 = t2
  t3 = t3
  Owners = {t1, t2, t3}
  Callers = {c1, c2, c3}
  TaskOf <- OneCallEach
  Limit = 2
  Wait = 1
  Lease = 3
  Horizon = 2
  MaxFault = 0
  MaxDeath = 0
  Interrupts = TRUE
INVARIANTS
  RunningBound
CHECK_DEADLOCK FALSE
