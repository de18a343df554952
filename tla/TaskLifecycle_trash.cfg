SPECIFICATION Spec
CONSTANTS
  w1 = w1
  w2 = w2
  user = user
  page = page
  Workers = {w1}
  Requests = {user, page}
  OpsOf <- TrashOps
  MaxGen = 2
  MaxMsg = 1
  MaxRedeliver = 1
  MaxFault = 0
  InspectFails = TRUE
INVARIANTS
  NoSilentStall
PROPERTIES
  OnlyRestoreUntrashes
CHECK_DEADLOCK FALSE
