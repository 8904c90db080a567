SPECIFICATION Spec
CONSTANTS
  NPROC = 4
  NSEM = 1
  QUANTUM = 1
  NBORN = 2
  Prios = {1, 2}
  Delays = {0, 1, 2}
  Counts = {}
  MaxCount = 0
  Kins = {}
  NumprocFloor = 0
  Calls <- MessageCalls
INVARIANT ReceiverFindsMessage
INVARIANT SleepPointerValid
INVARIANT DeltasNotNegative
PROPERTY DispatchesHighest
PROPERTY SleepImplementsAlarms
