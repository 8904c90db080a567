SPECIFICATION Spec
CONSTANTS
  Procs = {1, 2, 3}
  NLOCKS = 2
  InitialPrio <- Rising
  NewPrios = {2}
  LockPrios = {1, 2}
  MaxTime = 1
  MaxCalls = 4
  MaxCount = 1
  StrayKey = 0
  LockCalls <- AllCalls
CHECK_DEADLOCK FALSE
INVARIANTS
  TypeOK
  WaitersAgree
  LprioIsHighestWaiter
  PriorityGivenBack
  InheritEnds
  HoldersAgree
  LockQueueInOrder
PROPERTY
  HandedToTheMostUrgent
