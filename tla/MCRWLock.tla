-------------------------------- MODULE MCRWLock --------------------------------
(***************************************************************************)
(* Values of the constants of RWLock for TLC.                              *)
(***************************************************************************)
EXTENDS RWLock

Rising == [p \in Procs |-> p]   \* the later a process, the more urgent

AllCalls == {"lcreate", "lock", "releaseall", "ldelete", "chprio", "kill"}
DeleteCalls == {"lcreate", "lock", "releaseall", "ldelete"}
LockingCalls == {"lcreate", "lock", "releaseall"}
===============================================================================
