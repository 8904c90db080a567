SPECIFICATION Spec
CONSTANTS
  Procs = {p, q}
  NULLPROC = NULLPROC
  NFRAMES = 6
  NBS = 1
  NPBS = 2
  NVP = 2
  NPTE = 2
  HeapSizes = {2}
  Written = {1}
  MaxTotal = 2
  MaxLeaked = 0
SYMMETRY Slots
INVARIANT FramesMatchTables
INVARIANT QueuesKnowPages
INVARIANT StoresKept
INVARIANT ReadsLastWrite
CHECK_DEADLOCK FALSE
