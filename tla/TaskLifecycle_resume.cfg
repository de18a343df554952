SPECIFICATION Spec
CONSTANTS
  w1 = w1
  w2 = w2
  user = user
  page = page
  Workers = {w1, w2}
  Requests = {user}
  OpsOf <- ControlOps
  MaxGen = 3
  MaxMsg = 2
  MaxRedeliver = 0
  MaxFault = 0
  InspectFails = FALSE
SYMMETRY WorkerSymmetry
PROPERTIES
  ResumeReusesExpansion
CHECK_DEADLOCK FALSE
