SPECIFICATION FairSpec
CONSTANTS
  w1 = w1
  w2 = w2
  user = user
  page = page
  Workers = {w1, w2}
  Requests = {user, page}
  OpsOf <- CreateAndPoll
  MaxGen = 1
  MaxMsg = 1
  MaxRedeliver = 1
  MaxFault = 1
  InspectFails = FALSE
INVARIANTS
  NoSilentStall
PROPERTIES
  LiveRunSpared
  EventuallySettled
CHECK_DEADLOCK FALSE
