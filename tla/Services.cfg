SPECIFICATION MCSpec
CONSTANTS
  NOTHING = NOTHING
  Procs = {p, q}
  NSEM = 3
  COMBUFSZ = 3
  IBLEN = 3
  Regions <- OneRegion
  Sizes = {8, 16}
  StackSizes = {8, 12}
  NBPOOLS = 1
  BufferSizes = {4}
  BufferCounts = {2}
  MAXNQ = 1
  QueueSizes = {2}
  QueueTypes = {"QF_WAIT", "QF_NOWAIT"}
  Elements = {e1, e2, e3}
  Keys = {1, 2}
  MaxLeaked = 1
  MaxEchoes = 2
  Pids = {s, t}
SYMMETRY Names
INVARIANT MemoryApart
INVARIANT StraysExplained
INVARIANT BuffersAccounted
INVARIANT QueueInOrder
INVARIANT LineAnnounced
INVARIANT OutputKept
INVARIANT OnlyRacesBreak
PROPERTY UsesMemoryWell
CHECK_DEADLOCK FALSE
