------------------------------- MODULE MCServices -------------------------------
\* Services for TLC.  One region, as sysinit() finds on a machine without the hole.
EXTENDS Services, TLC

OneRegion == {Block(0, 32)}

Names == Permutations(Elements) \cup Permutations(Procs) \cup Permutations(Pids)

\* Bound: programs borrow, or they read the console, or they write to it: the three
\* share the processes, and no semaphore.
VARIABLE use

MCInit == Init /\ use \in {"lent", "typed", "written"}
MCNext ==
  /\ \/ use = "lent" /\ LentNext
     \/ use = "typed" /\ TypedNext
     \/ use = "written" /\ WrittenNext
  /\ UNCHANGED use
MCSpec == MCInit /\ [][MCNext]_<<vars, use>>
===============================================================================
