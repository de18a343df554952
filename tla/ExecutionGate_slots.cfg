SPECIFICATION Spec
CONSTANTS
  c1 = c1
  c2 = c2
  c3 = c3
  t1 = t1
  t2 = t2
  t3 = t3
  Owners = {t1, t2}
  Callers = {c1, c2, c3}
  TaskOf <- TwiceAndOnce
  Limit = 1
  Wait = 1
  Lease = 1
  Horizon = 2
  MaxFault = 1
  MaxDeath = 1
  Interrupts = TRUE
INVARIANTS
  TypeOK
  SlotBound
  NoLeakedSlot
CHECK_DEADLOCK FALSE
