-------------------------------- MODULE Services --------------------------------
(***************************************************************************)
(* What the kernel lends to programs: memory, the stacks of processes,     *)
(* buffers and queues, and the console.  Stacks (create() and kill()),     *)
(* pools and queues all live in the memory of Memory; pools, queues and    *)
(* the console wait on the semaphores of Tasks.                            *)
(***************************************************************************)
EXTENDS Pools, Gpq, Terminal

CONSTANTS
  Pids,        \* process slots, for those that are created and killed
  MaxLeaked    \* bound: stacks that create() leaves behind

ASSUME LeakedAssumption == MaxLeaked \in Nat
\* What mkpool() and newq() ask getmem() for.
ASSUME AskedAssumption ==
  {(bufsiz + Word) * numbufs : bufsiz \in BufferSizes, numbufs \in BufferCounts}
    \cup {4 * size : size \in QueueSizes} \subseteq Sizes

VARIABLES
  alive,       \* the slots that are not PRFREE
  stack        \* pbase and pstklen: in a free slot, as long as somebody is killing there

processes == <<alive, stack>>
lent == <<memory, pools, queues, processes>>
vars == <<tasks, lent, input, output>>

Init ==
  /\ MemoryInit /\ TasksInit /\ PoolsInit /\ QueuesInit /\ TerminalInit
  /\ alive = {} /\ stack = [pid \in Pids |-> NOTHING]

\* create() has its stack before it knows whether a slot is free and the priority is
\* a priority; if not, the stack is leaked.
create(ssize) ==
  \/ /\ Getstk(roundew(ssize), "stack")
     /\ \E pid \in Pids \ alive, h \in held' \ held :
          alive' = alive \cup {pid} /\ stack' = [stack EXCEPT ![pid] = h]
  \/ /\ Cardinality({h \in held : h.use = "leaked"}) < MaxLeaked
     /\ Getstk(roundew(ssize), "leaked")
     /\ UNCHANGED processes

Killing(pid) == [call |-> "kill", pid |-> pid]

\* kill() up to its message to the next of kin, who may have the CPU at once.
kill(p, pid) ==
  /\ Calls(p)
  /\ Goes(p, Killing(pid))
  /\ UNCHANGED <<memory, processes>>

\* kill() after the message.  Its victim may be dead by now, killed by the next of
\* kin, or another process in the same slot.
Dies(pid) ==
  /\ \/ pid \in alive /\ Freestk(stack[pid])
     \/ pid \notin alive /\ FreestkAgain(stack[pid])
     \/ pid \notin alive /\ Refused(StackBlock(stack[pid])) /\ UNCHANGED memory
  /\ alive' = alive \ {pid}
  /\ stack' = IF \E p \in Procs : doing'[p] = Killing(pid) THEN stack
              ELSE [stack EXCEPT ![pid] = NOTHING]

killEnds(p) ==
  /\ At(p, "kill")
  /\ Returns(p)
  /\ Dies(doing[p].pid)

\* Who is overtaken when it kills itself never comes back.
suicide(pid) == UNCHANGED doing /\ Dies(pid)

ProcessesNext ==
  /\ \/ \E ssize \in StackSizes : create(ssize) /\ UNCHANGED doing
     \/ \E pid \in alive : suicide(pid) \/ \E p \in Procs : kill(p, pid)
     \/ \E p \in Procs : killEnds(p)
  /\ UNCHANGED semaph

LentNext ==
  /\ ~strayed /\ ~unlinked /\ ~broken
  /\ \/ \E p \in Procs : \/ PoolsNext(p) /\ UNCHANGED queues
                         \/ QueuesNext(p) /\ UNCHANGED pools
        /\ UNCHANGED processes
     \/ ProcessesNext /\ UNCHANGED <<pools, queues>>
  /\ UNCHANGED <<input, output>>

TypedNext == InputNext /\ UNCHANGED <<lent, output>>

WrittenNext == OutputNext /\ UNCHANGED <<lent, input>>

Next == LentNext \/ TypedNext \/ WrittenNext

Spec == Init /\ [][Next]_vars

-------------------------------------------------------------------------------
\* Pools, queues and processes use memory as Memory expects it: what they give back
\* they were given, and once, at the address and of the size they were given (freeq()
\* of the arrays of newq(), kill() of the stack of create(), also when the slot of the
\* victim has another process by then).  Only the stack of a process that was killed
\* already is given back again (kill.c:40, :42): without effect while it is free.
UsesMemoryWell == MemorySpec
===============================================================================
