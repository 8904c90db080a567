SPECIFICATION FairSpec
CONSTANTS
  NPROC = 4
  NSEM = 1
  QUANTUM = 1
  NBORN = 2
  Prios = {1}
  Delays = {0, 1, 2}
  Counts = {}
  MaxCount = 0
  Kins = {}
  NumprocFloor = 0
  Calls <- TimeSharingCalls
PROPERTY SleepersWake
PROPERTY ReadyRuns
