SPECIFICATION Spec
CONSTANTS
  Procs = {1, 2, 3}
  NLOCKS = 2
  InitialPrio <- Rising
  NewPrios = {2}
  LockPrios = {1}
  MaxTime = 0
  MaxCalls = 5
  MaxCount = 1
  StrayKey = 0
  LockCalls <- LockingCalls
CHECK_DEADLOCK FALSE
PROPERTY HoldersInherit
