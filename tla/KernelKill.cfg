SPECIFICATION Spec
CONSTANTS
  NPROC = 4
  NSEM = 1
  QUANTUM = 1
  NBORN = 2
  Prios = {1}
  Delays = {}
  Counts = {0}
  MaxCount = 1
  Kins = {2}
  NumprocFloor = 0
  Calls <- KillCalls
INVARIANT QueuesMatchStates
