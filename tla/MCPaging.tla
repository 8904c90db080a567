-------------------------------- MODULE MCPaging --------------------------------
\* Paging for TLC: slots are taken in any order, so they may be exchanged.
EXTENDS Paging, TLC

Slots == Permutations(Procs)
===============================================================================
