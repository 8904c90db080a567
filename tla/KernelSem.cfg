SPECIFICATION Spec
CONSTANTS
  NPROC = 4
  NSEM = 1
  QUANTUM = 1
  NBORN = 2
  Prios = {1, 2}
  Delays = {}
  Counts = {0, 1, 2}
  MaxCount = 2
  Kins = {}
  NumprocFloor = 0
  Calls <- SemaphoreCalls
INVARIANT TypeOK
INVARIANT QueuesMatchStates
INVARIANT NullProcessRunnable
INVARIANT ReadyListSorted
INVARIANT CountsMatchQueues
PROPERTY WaitVerdict
PROPERTY WaitersInOrder
