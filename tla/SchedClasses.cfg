SPECIFICATION FairSpec
CONSTANTS
  NPROC = 4
  QUANTUM = 1
  Prios = {1, 2}
  MaxDebt = 1
  MaxPrio = 3
INVARIANT RunsOnItsShare
INVARIANT IdleOnlyWhenNobodyReady
PROPERTY EpochOnlyWhenSpent
PROPERTY AgingCatchesUp
PROPERTY ReadyRuns
CHECK_DEADLOCK FALSE
