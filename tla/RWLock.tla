--------------------------------- MODULE RWLock ---------------------------------
(***************************************************************************)
(* The reader/writer locks with priority inheritance of                    *)
(* csc501-lab2-qemu/sys: lcreate.c, lock.c, releaseall.c, ldelete.c and    *)
(* what chprio.c and kill.c do to them.                                    *)
(*                                                                         *)
(* Every operation runs with interrupts disabled up to a resched().  The   *)
(* scheduler is left out: any process that is not blocked may be the next  *)
(* to run, which is what sleeping and priorities of the processes allow.   *)
(* A process in the middle of releaseall() that gave the CPU up goes on    *)
(* there when it runs again.                                               *)
(***************************************************************************)
EXTENDS Integers, Sequences, FiniteSets, SequencesExt

CONSTANTS
  Procs,       \* process ids, positive numbers
  NLOCKS,      \* size of the lock table
  InitialPrio, \* pprio each process is created with
  NewPrios,    \* priorities chprio is called with
  LockPrios,   \* priorities lock is called with
  MaxTime,     \* bound of the model on the clock, in half seconds
  MaxCalls,    \* bound of the model on the calls, lcreate and releaseall apart
  MaxCount,    \* bound of the model on lcnt and l_active_readers
  StrayKey,    \* what the build has at q[-1].qkey
  LockCalls    \* calls the processes make

ASSUME ProcsAssumption == Procs \subseteq Nat \ {0} /\ IsFiniteSet(Procs)
ASSUME NLOCKSAssumption == NLOCKS \in Nat \ {0}
ASSUME PriosAssumption ==
  /\ InitialPrio \in [Procs -> Nat \ {0}]
  /\ NewPrios \subseteq Nat \ {0}
  /\ LockPrios \subseteq Nat
ASSUME BoundsAssumption == {MaxTime, MaxCount, MaxCalls} \subseteq Nat
\* Above a waiter's key, or equal to it, q[-1] would be taken for a process.
ASSUME StrayAssumption == StrayKey \in Int /\ \A k \in LockPrios : StrayKey < k

VARIABLES
  pstate,            \* "RUNNABLE" (PRCURR, PRREADY, PRSLEEP), "PRWAIT" or "PRFREE"
  pprio, pinh,       \* priority of a process, and the one it inherits (0: none)
  plock,             \* the lock it waits for (NoLock: none)
  plocksacquired,    \* "no", "yes" or "DELETED", for every lock
  pprevlock,         \* locks it ever asked for
  pwaitret,          \* what lock() will return
  lstate, ltype, lprio, lock_acquired, lock_deleted, l_active_readers, lcnt,
  lqueue,            \* the processes between lqhead and lqtail
  qkey, qlocktype, qlockwaittime,
  nextlock,
  now,               \* ctr1000, in half seconds
  releasing,         \* the locks a releaseall() in progress has still to do
  inkernel,          \* the process whose call has interrupts disabled (Nobody: none)
  semcnt,            \* semaph[0].semcnt: psem of every process here is 0
  calls,             \* how many calls there were, lcreate and releaseall apart
  asked              \* history: the type each holder asked for

procVars == <<pstate, pprio, pinh, plock, plocksacquired, pprevlock, pwaitret>>
lockVars == <<lstate, ltype, lprio, lock_acquired, lock_deleted, l_active_readers, lcnt>>
queueVars == <<lqueue, qkey, qlocktype, qlockwaittime>>
vars == <<procVars, lockVars, queueVars, nextlock, now, releasing, inkernel, semcnt, calls, asked>>

Lock == 0..NLOCKS - 1
NoLock == -1
EMPTY == -1
Nobody == 0
End == NoLock   \* ends the list of a releaseall()

-------------------------------------------------------------------------------
(***************************************************************************)
(* Priorities.  T holds the fields priority_inherit() works on.            *)
(***************************************************************************)
Holders(l) == {p \in Procs : lock_acquired[l][p]}

schedprio(T, p) == IF T.pinh[p] # 0 THEN T.pinh[p] ELSE T.pprio[p]

\* waiting_process_with_highest_priority()
WaitingPrio(T, queue) ==
  Max({schedprio(T, queue[i]) : i \in 1..Len(queue)} \cup {0})

\* The lock priority_inherit() takes for the best of those p holds: the first,
\* then each later one if p's own priority is above the best so far.
BestLock(T, p) ==
  LET best[n \in 0..NLOCKS] ==
        IF n = 0 THEN NoLock
        ELSE LET sofar == best[n - 1]
             IN  IF T.held[p][n - 1] # "no"
                    /\ (sofar = NoLock \/ schedprio(T, p) > T.lprio[sofar])
                 THEN n - 1 ELSE sofar
  IN  best[NLOCKS]

HoldsNone(T, p) == \A l \in Lock : T.held[p][l] = "no"

\* Faulty: what a process inherited stays when it holds nothing any more.
InheritedForever(T, p) ==
  LET best == T.lprio[BestLock(T, p)]
  IN  IF HoldsNone(T, p) THEN T.pinh[p] ELSE IF T.pprio[p] > best THEN 0 ELSE best

\* The priority p has from the locks it holds; those deleted count as held.
Inherited(T, p) ==
  LET best == T.lprio[BestLock(T, p)]
  IN  IF HoldsNone(T, p) \/ T.pprio[p] > best THEN 0 ELSE best

\* What priority_inherit(p) does to p and to the lock p waits for.
Visited(T, p) ==
  LET T1 == [T EXCEPT !.pinh[p] = Inherited(T, p)]
      l == T.plock[p]
  IN  IF l = NoLock THEN T1 ELSE [T1 EXCEPT !.lprio[l] = WaitingPrio(T1, T.queue[l])]

\* Whom it goes on to: the holders of that lock.
Beyond(T, p) == {h \in Procs : T.plock[p] # NoLock /\ T.has[T.plock[p]][h]}

\* A round of its recursion.  R.loops has, innermost first, whom each loop over
\* the process table has still to come to.
InheritRound(R) ==
  LET todo == Head(R.loops)
      p == Min(todo)
  IN  IF R.loops = <<>> THEN R
      ELSE IF todo = {} THEN [R EXCEPT !.loops = Tail(@)]
      ELSE [T |-> Visited(R.T, p),
            loops |-> <<Beyond(R.T, p), todo \ {p}>> \o Tail(R.loops)]

\* More rounds than it takes (InheritEnds): a process waits for a lock above all
\* it holds, so a visit to one with n locks above those goes on to no more than
\* everybody, with n - 1.
Rounds ==
  LET most[n \in 0..NLOCKS] == IF n = 0 THEN 2 ELSE 2 + Cardinality(Procs) * most[n - 1]
  IN  most[NLOCKS] + 1

\* The last round of priority_inherit() of each of `todo', in the order of the
\* process table.
LastRound(T, todo) ==
  LET after[n \in 0..Rounds] ==
        IF n = 0 THEN [T |-> T, loops |-> <<todo>>] ELSE InheritRound(after[n - 1])
  IN  after[CHOOSE n \in 0..Rounds : after[n].loops = <<>> \/ n = Rounds]

PriorityInherit(T, todo) == LastRound(T, todo).T

\* Every holder of l inherits.
InheritAll(T, l) == PriorityInherit(T, {h \in Procs : T.has[l][h]})

Prios == [pprio |-> pprio, pinh |-> pinh, plock |-> plock, held |-> plocksacquired,
          lprio |-> lprio, queue |-> lqueue, has |-> lock_acquired]
SetPrios(T) == pinh' = T.pinh /\ lprio' = T.lprio

-------------------------------------------------------------------------------
(***************************************************************************)
(* Who may call, and how.                                                  *)
(***************************************************************************)
\* Nothing else runs while a call has interrupts disabled.
Idle == inkernel = Nobody
Calling(c, p) == c \in LockCalls /\ Idle /\ pstate[p] = "RUNNABLE" /\ releasing[p] = <<>>

CountCall == calls < MaxCalls /\ calls' = calls + 1

isbadlock(l) == l \notin Lock
Refused(l, p) == isbadlock(l) \/ lstate[l] = "LFREE" \/ (l \in pprevlock[p] /\ lock_deleted[l])

\* The programs take locks in ascending order, so no waits go round in a circle.
InOrder(p, l) == \A k \in Lock : lock_acquired[k][p] => k < l

-------------------------------------------------------------------------------
(***************************************************************************)
(* lcreate, lock.                                                          *)
(***************************************************************************)
\* createlock() tries the table from nextlock downwards, wrapping round.
Lcreate(p) ==
  /\ Calling("lcreate", p)
  /\ \E l \in Lock :
       LET ahead(k) == IF k <= nextlock THEN nextlock - k ELSE nextlock - k + NLOCKS
       IN  /\ lstate[l] = "LFREE"
           /\ \A k \in Lock : lstate[k] = "LFREE" => ahead(l) <= ahead(k)
           /\ nextlock' = IF l = 0 THEN NLOCKS - 1 ELSE l - 1
           /\ lstate' = [lstate EXCEPT ![l] = "LUSED"]
           /\ l_active_readers' = [l_active_readers EXCEPT ![l] = 0]
           /\ lprio' = [lprio EXCEPT ![l] = 0]
           /\ lcnt' = [lcnt EXCEPT ![l] = 1]
           /\ lock_acquired' = [lock_acquired EXCEPT ![l] = [r \in Procs |-> FALSE]]
  /\ UNCHANGED <<procVars, ltype, lock_deleted, queueVars, now, releasing, inkernel, semcnt, calls, asked>>

\* Faulty: the process table is not told.
AcquireHalf(l, p) ==
  lock_acquired' = [lock_acquired EXCEPT ![l][p] = TRUE] /\ UNCHANGED plocksacquired

Acquire(l, p) ==
  /\ lock_acquired' = [lock_acquired EXCEPT ![l][p] = TRUE]
  /\ plocksacquired' = [plocksacquired EXCEPT ![p][l] = "yes"]

\* Faulty: the count goes down without a look at it.
LockFirstUnchecked(l, type, p) ==
  /\ lcnt' = [lcnt EXCEPT ![l] = @ - 1]
  /\ ltype' = [ltype EXCEPT ![l] = type]
  /\ l_active_readers' = IF type = "READ" THEN [l_active_readers EXCEPT ![l] = 1]
                                          ELSE l_active_readers
  /\ Acquire(l, p)
  /\ asked' = [asked EXCEPT ![l][p] = type]
  /\ UNCHANGED <<pstate, plock, pinh, pwaitret, lprio, queueVars>>

\* The lock's count says nobody has it: p does.
LockFirst(l, type, p) ==
  /\ lcnt[l] > 0
  /\ lcnt' = [lcnt EXCEPT ![l] = @ - 1]
  /\ ltype' = [ltype EXCEPT ![l] = type]
  /\ l_active_readers' = IF type = "READ" THEN [l_active_readers EXCEPT ![l] = 1]
                                          ELSE l_active_readers
  /\ Acquire(l, p)
  /\ asked' = [asked EXCEPT ![l][p] = type]
  /\ UNCHANGED <<pstate, plock, pinh, pwaitret, lprio, queueVars>>

writer_lock(l) == ltype[l] = "WRITE" /\ Holders(l) # {}
writer_with_higherprio(l, priority) ==
  \E i \in 1..Len(lqueue[l]) :
    qkey[lqueue[l][i]] >= priority /\ qlocktype[lqueue[l][i]] = "WRITE"

ReaderMayShare(l, priority) == ~writer_lock(l) /\ ~writer_with_higherprio(l, priority)

\* A reader joins the readers.  lock() then returns pwaitret as it finds it.
LockShared(l, type, priority, p) ==
  /\ lcnt[l] <= 0
  /\ type = "READ"
  /\ ReaderMayShare(l, priority)
  /\ l_active_readers' = [l_active_readers EXCEPT ![l] = @ + 1]
  /\ Acquire(l, p)
  /\ asked' = [asked EXCEPT ![l][p] = type]
  /\ UNCHANGED <<pstate, plock, pinh, pwaitret, ltype, lcnt, lprio, queueVars>>

\* Faulty: behind the waiters with the same priority.
QueueInsertBehindEquals(queue, p, key) ==
  InsertAt(queue, Min({i \in 1..Len(queue) : qkey[queue[i]] > key} \cup {Len(queue) + 1}), p)

\* lqueueinsert(): before the first waiter whose key is not below the new one.
QueueInsert(queue, p, key) ==
  InsertAt(queue, Min({i \in 1..Len(queue) : qkey[queue[i]] >= key} \cup {Len(queue) + 1}), p)

\* dequeue() of each of `gone'.
Dequeued(queue, gone) ==
  LET rest[n \in 0..Len(queue)] ==
        IF n = 0 THEN <<>>
        ELSE IF queue[n] \in gone THEN rest[n - 1] ELSE Append(rest[n - 1], queue[n])
  IN  rest[Len(queue)]

\* p waits, and the holders inherit from it.
LockWait(l, type, priority, p) ==
  /\ lcnt[l] <= 0
  /\ type = "READ" => ~ReaderMayShare(l, priority)
  /\ pstate' = [pstate EXCEPT ![p] = "PRWAIT"]
  /\ plock' = [plock EXCEPT ![p] = l]
  /\ lqueue' = [lqueue EXCEPT ![l] = QueueInsert(@, p, priority)]
  /\ qkey' = [qkey EXCEPT ![p] = priority]
  /\ qlocktype' = [qlocktype EXCEPT ![p] = type]
  /\ qlockwaittime' = [qlockwaittime EXCEPT ![p] = now]
  /\ pwaitret' = [pwaitret EXCEPT ![p] = "OK"]
  /\ LET own == schedprio(Prios, p)
     IN  SetPrios(InheritAll([Prios EXCEPT
                   !.plock = plock', !.queue = lqueue',
                   !.lprio[l] = IF own > @ THEN own ELSE @], l))
  /\ UNCHANGED <<plocksacquired, lock_acquired, ltype, lcnt, l_active_readers, asked>>

\* The bound of the model on the counts, which handing a lock over lets drift.
Bounded == \A l \in Lock : lcnt[l] <= MaxCount /\ l_active_readers[l] \in -MaxCount..MaxCount

LockCall(l, type, priority, p) ==
  /\ Calling("lock", p)
  /\ Bounded
  /\ CountCall
  /\ ~Refused(l, p)
  /\ InOrder(p, l)
  /\ pprevlock' = [pprevlock EXCEPT ![p] = @ \cup {l}]
  /\ \/ LockFirst(l, type, p)
     \/ LockShared(l, type, priority, p)
     \/ LockWait(l, type, priority, p)
  /\ UNCHANGED <<pprio, lstate, lock_deleted, nextlock, now, releasing, inkernel, semcnt>>

-------------------------------------------------------------------------------
(***************************************************************************)
(* releaseall: the call, one step for every lock, and the end.  A step     *)
(* that woke somebody ends in resched(), any other goes straight on.       *)
(***************************************************************************)
\* The list may come in any order.  What it has besides, bad locks, locks the
\* caller does not hold and a lock once more, is skipped and changes nothing:
\* none of it can become a lock the caller holds before the call ends.
Releaseall(p) ==
  /\ Calling("releaseall", p)
  /\ \E n \in 1..NLOCKS : \E held \in [1..n -> {l \in Lock : lock_acquired[l][p]}] :
       /\ \A i, j \in 1..n : i # j => held[i] # held[j]
       /\ releasing' = [releasing EXCEPT ![p] = Append(held, End)]
  /\ inkernel' = p
  /\ UNCHANGED <<procVars, lockVars, queueVars, nextlock, now, semcnt, calls, asked>>

\* priority_inherit() of the caller, and the return.
InheritAndReturn(p) ==
  /\ SetPrios(PriorityInherit(Prios, {p}))
  /\ releasing' = [releasing EXCEPT ![p] = <<>>]
  /\ inkernel' = Nobody
  /\ UNCHANGED <<pstate, pprio, plock, plocksacquired, pprevlock, pwaitret,
                 lstate, ltype, lock_acquired, lock_deleted, l_active_readers, lcnt,
                 queueVars, nextlock, now, semcnt, calls, asked>>

\* The caller holds nothing of the list: all of it is skipped.
ReleaseallNothing(p) == Calling("releaseall", p) /\ InheritAndReturn(p)

Releasing(p) ==
  /\ inkernel \in {Nobody, p}
  /\ pstate[p] = "RUNNABLE"
  /\ releasing[p] # <<>>

\* Faulty: the search begins at the wrong end.
BestWaiterFromHead(l, type) ==
  LET those == {i \in 1..Len(lqueue[l]) : qlocktype[lqueue[l][i]] = type}
  IN  IF those = {} THEN EMPTY ELSE lqueue[l][Min(those)]

\* highest_priority_process_with_same_type(): the last waiter of that type.
BestWaiter(l, type) ==
  LET those == {i \in 1..Len(lqueue[l]) : qlocktype[lqueue[l][i]] = type}
  IN  IF those = {} THEN EMPTY ELSE lqueue[l][Max(those)]

Key(p) == IF p = EMPTY THEN StrayKey ELSE qkey[p]

\* A reader and a writer wait with the same priority: the writer is taken
\* unless the reader came first, or more than 500 ms after it.
WriterBreaksTie(r, w) ==
  /\ qlockwaittime[r] >= qlockwaittime[w]
  /\ qlockwaittime[r] - qlockwaittime[w] <= 1

\* The waiters release_lock() gives l to.
Handed(l) ==
  LET r == BestWaiter(l, "READ")
      w == BestWaiter(l, "WRITE")
  IN  CASE Key(r) > Key(w) ->
             {q \in ToSet(lqueue[l]) : qlocktype[q] = "READ" /\ qkey[q] > Key(w)}
        [] Key(r) < Key(w) -> {w}
        [] Key(r) = Key(w) -> IF r # EMPTY /\ WriterBreaksTie(r, w) THEN {w}
                              ELSE {r} \ {EMPTY}

\* read_write_access_control() assigns READ to its parameter: whatever they
\* asked for, those a lock is handed to are counted and recorded as readers.
RecordedType == "READ"

\* Faulty: they run, and are still said to wait for the lock.
WokenStillWaiting(to) ==
  pstate' = [q \in Procs |-> IF q \in to THEN "RUNNABLE" ELSE pstate[q]] /\ UNCHANGED plock

\* Those a lock was handed to wait no longer.
Woken(to) ==
  /\ pstate' = [q \in Procs |-> IF q \in to THEN "RUNNABLE" ELSE pstate[q]]
  /\ plock' = [q \in Procs |-> IF q \in to THEN NoLock ELSE plock[q]]

\* release_lock(): p gives l back; of those waiting, `to' get it.
GiveBack(l, p, to, readers, freed) ==
  LET rest == Dequeued(lqueue[l], to)
  IN  /\ lock_acquired' = [lock_acquired EXCEPT ![l] =
                             [q \in Procs |-> q \in to \/ (@[q] /\ q # p)]]
      /\ plocksacquired' = [q \in Procs |->
            [plocksacquired[q] EXCEPT ![l] =
               IF q \in to THEN "yes" ELSE IF q = p THEN "no" ELSE @]]
      /\ l_active_readers' = [l_active_readers EXCEPT ![l] = readers + Cardinality(to)]
      /\ lcnt' = [lcnt EXCEPT ![l] = IF freed THEN @ + 1 ELSE @]
      /\ ltype' = [ltype EXCEPT ![l] = IF to = {} THEN @ ELSE RecordedType]
      /\ lqueue' = [lqueue EXCEPT ![l] = rest]
      /\ lprio' = [lprio EXCEPT ![l] = IF to = {} THEN @ ELSE WaitingPrio(Prios, rest)]
      /\ Woken(to)
      /\ asked' = [asked EXCEPT ![l] = [q \in Procs |-> IF q \in to THEN qlocktype[q] ELSE @[q]]]

ReleaseLock(p) ==
  /\ Releasing(p)
  /\ Head(releasing[p]) # End
  /\ LET l == Head(releasing[p])
         readers == IF ltype[l] = "READ" THEN l_active_readers[l] - 1 ELSE l_active_readers[l]
         freed == ltype[l] = "WRITE" \/ (ltype[l] = "READ" /\ readers = 0)
     IN  IF lstate[l] = "LUSED" /\ lock_acquired[l][p]
         THEN /\ GiveBack(l, p, IF freed THEN Handed(l) ELSE {}, readers, freed)
              /\ inkernel' = IF freed /\ lqueue[l] # <<>> THEN Nobody ELSE p
         ELSE /\ inkernel' = p
              /\ UNCHANGED <<lock_acquired, plocksacquired, l_active_readers, lcnt, ltype,
                             lqueue, lprio, pstate, plock, asked>>
  /\ releasing' = [releasing EXCEPT ![p] = Tail(@)]
  /\ UNCHANGED <<pprio, pinh, pprevlock, pwaitret, lstate, lock_deleted,
                 qkey, qlocktype, qlockwaittime, nextlock, now, semcnt, calls>>

ReleaseallEnd(p) == Releasing(p) /\ Head(releasing[p]) = End /\ InheritAndReturn(p)

-------------------------------------------------------------------------------
(***************************************************************************)
(* ldelete, chprio, kill.                                                  *)
(***************************************************************************)
\* If somebody waits, the first is woken, and woken again for ever: getfirst()
\* is called once, before the loop whose condition is its result.
Ldelete(p, l) ==
  /\ Calling("ldelete", p)
  /\ CountCall
  /\ lstate[l] = "LUSED"
  /\ lstate' = [lstate EXCEPT ![l] = "LFREE"]
  /\ lock_deleted' = [lock_deleted EXCEPT ![l] = TRUE]
  /\ lock_acquired' = [lock_acquired EXCEPT ![l] = [q \in Procs |-> FALSE]]
  /\ plocksacquired' = [q \in Procs |->
        [plocksacquired[q] EXCEPT ![l] = IF lock_acquired[l][q] THEN "DELETED" ELSE @]]
  /\ IF lqueue[l] = <<>> THEN UNCHANGED <<lqueue, pwaitret, pstate, inkernel>>
     ELSE LET first == Head(lqueue[l])
          IN  /\ lqueue' = [lqueue EXCEPT ![l] = Tail(@)]
              /\ pwaitret' = [pwaitret EXCEPT ![first] = "DELETED"]
              /\ pstate' = [pstate EXCEPT ![first] = "RUNNABLE"]
              /\ inkernel' = p
  /\ UNCHANGED <<pprio, pinh, plock, pprevlock, ltype, lprio, l_active_readers, lcnt,
                 qkey, qlocktype, qlockwaittime, nextlock, now, releasing, semcnt, asked>>

\* The loop in ldelete(): the same process again.
LdeleteLoop(p) == inkernel = p /\ releasing[p] = <<>> /\ UNCHANGED vars

\* Faulty: the lock keeps the priority of a waiter that has lost it, or gone.
RequeuedStale(T, l) == InheritAll(T, l)

\* The priorities once the waiters of l are looked through again.
Requeued(T, l) == InheritAll([T EXCEPT !.lprio[l] = WaitingPrio(T, T.queue[l])], l)

Chprio(p, target, newprio) ==
  /\ Calling("chprio", p)
  /\ CountCall
  /\ pstate[target] # "PRFREE"
  /\ pprio' = [pprio EXCEPT ![target] = newprio]
  /\ LET T == [Prios EXCEPT !.pprio[target] = newprio,
                            !.pinh[target] = IF @ # 0 THEN newprio ELSE @]
     IN  SetPrios(IF pstate[target] = "PRWAIT" THEN Requeued(T, plock[target]) ELSE T)
  /\ UNCHANGED <<pstate, plock, plocksacquired, pprevlock, pwaitret,
                 lstate, ltype, lock_acquired, lock_deleted, l_active_readers, lcnt,
                 queueVars, nextlock, now, releasing, inkernel, semcnt, asked>>

\* Faulty: a waiter less urgent than the lock stays in the queue.
KillWaiterStays(victim) ==
  /\ semcnt' = semcnt + 1
  /\ IF schedprio(Prios, victim) = lprio[plock[victim]]
     THEN LET l == plock[victim]
              without == [lqueue EXCEPT ![l] = Dequeued(@, {victim})]
          IN  lqueue' = without /\ SetPrios(Requeued([Prios EXCEPT !.queue = without], l))
     ELSE UNCHANGED <<lqueue, pinh, lprio>>
  /\ UNCHANGED lcnt

\* A waiter leaves the queue; what a victim holds is not released.  The count of
\* the lock it waits for goes up, and that of semaphore 0.
KillWaiter(victim) ==
  LET l == plock[victim]
      free == ltype[l] = "WRITE" \/ (ltype[l] = "READ" /\ l_active_readers[l] = 0)
      without == [lqueue EXCEPT ![l] = Dequeued(@, {victim})]
  IN  /\ semcnt' = semcnt + 1
      /\ lcnt' = [lcnt EXCEPT ![l] = IF free THEN @ + 1 ELSE @]
      /\ lqueue' = without
      /\ SetPrios(IF schedprio(Prios, victim) = lprio[l]
                  THEN Requeued([Prios EXCEPT !.queue = without], l) ELSE Prios)

Kill(p, victim) ==
  /\ Calling("kill", p)
  /\ CountCall
  /\ pstate[victim] # "PRFREE"
  /\ pstate' = [pstate EXCEPT ![victim] = "PRFREE"]
  /\ releasing' = [releasing EXCEPT ![victim] = <<>>]
  /\ IF pstate[victim] = "PRWAIT" THEN KillWaiter(victim)
     ELSE UNCHANGED <<semcnt, lcnt, lqueue, pinh, lprio>>
  /\ UNCHANGED <<pprio, plock, plocksacquired, pprevlock, pwaitret,
                 lstate, ltype, lock_acquired, lock_deleted, l_active_readers,
                 qkey, qlocktype, qlockwaittime, nextlock, now, inkernel, asked>>

\* The clock goes on, unless interrupts are disabled.
Elapse ==
  /\ Idle
  /\ now < MaxTime
  /\ now' = now + 1
  /\ UNCHANGED <<procVars, lockVars, queueVars, nextlock, releasing, inkernel, semcnt, calls, asked>>

-------------------------------------------------------------------------------
(***************************************************************************)
(* The specification.  linit() frees every lock, create() resets what the  *)
(* process table has of locks, and the rest starts as zeroed memory.       *)
(***************************************************************************)
Init ==
  /\ pstate = [p \in Procs |-> "RUNNABLE"]
  /\ pprio = InitialPrio
  /\ pinh = [p \in Procs |-> 0]
  /\ plock = [p \in Procs |-> NoLock]
  /\ plocksacquired = [p \in Procs |-> [l \in Lock |-> "no"]]
  /\ pprevlock = [p \in Procs |-> {}]
  /\ pwaitret = [p \in Procs |-> "unset"]
  /\ lstate = [l \in Lock |-> "LFREE"]
  /\ ltype = [l \in Lock |-> "unset"]
  /\ lprio = [l \in Lock |-> 0]
  /\ lock_acquired = [l \in Lock |-> [p \in Procs |-> FALSE]]
  /\ lock_deleted = [l \in Lock |-> FALSE]
  /\ l_active_readers = [l \in Lock |-> 0]
  /\ lcnt = [l \in Lock |-> 0]
  /\ lqueue = [l \in Lock |-> <<>>]
  /\ qkey = [p \in Procs |-> 0]
  /\ qlocktype = [p \in Procs |-> "unset"]
  /\ qlockwaittime = [p \in Procs |-> 0]
  /\ nextlock = NLOCKS - 1
  /\ now = 0
  /\ releasing = [p \in Procs |-> <<>>]
  /\ inkernel = Nobody
  /\ semcnt = 0
  /\ calls = 0
  /\ asked = [l \in Lock |-> [p \in Procs |-> "unset"]]

\* What a process in a call does next.
Continue == \E p \in Procs : ReleaseLock(p) \/ ReleaseallEnd(p) \/ LdeleteLoop(p)

Next ==
  \/ Continue
  \/ Elapse
  \/ \E p \in Procs :
       \/ Lcreate(p)
       \/ Releaseall(p)
       \/ ReleaseallNothing(p)
       \/ \E l \in Lock :
            \/ Ldelete(p, l)
            \/ \E type \in {"READ", "WRITE"}, priority \in LockPrios : LockCall(l, type, priority, p)
       \/ \E q \in Procs :
            \/ Kill(p, q)
            \/ \E newprio \in NewPrios : Chprio(p, q, newprio)

Spec == Init /\ [][Next]_vars

\* Fair: a process that may run, and is in a call, runs again.
FairSpec == Spec /\ WF_vars(Continue)

-------------------------------------------------------------------------------
(***************************************************************************)
(* Properties.                                                             *)
(***************************************************************************)
Live(p) == pstate[p] # "PRFREE"

\* Every variable has its type.
TypeOK ==
  /\ pstate \in [Procs -> {"RUNNABLE", "PRWAIT", "PRFREE"}]
  /\ pprio \in [Procs -> Nat \ {0}] /\ pinh \in [Procs -> Nat]
  /\ plock \in [Procs -> Lock \cup {NoLock}]
  /\ plocksacquired \in [Procs -> [Lock -> {"no", "yes", "DELETED"}]]
  /\ pprevlock \in [Procs -> SUBSET Lock]
  /\ pwaitret \in [Procs -> {"unset", "OK", "DELETED"}]
  /\ lstate \in [Lock -> {"LFREE", "LUSED"}]
  /\ ltype \in [Lock -> {"unset", "READ", "WRITE"}]
  /\ lprio \in [Lock -> Nat]
  /\ lock_acquired \in [Lock -> [Procs -> BOOLEAN]]
  /\ lock_deleted \in [Lock -> BOOLEAN]
  /\ l_active_readers \in [Lock -> Int] /\ lcnt \in [Lock -> Nat]
  /\ lqueue \in [Lock -> Seq(Procs)]
  /\ qkey \in [Procs -> LockPrios \cup {0}]
  /\ qlocktype \in [Procs -> {"unset", "READ", "WRITE"}]
  /\ qlockwaittime \in [Procs -> 0..MaxTime]
  /\ nextlock \in Lock /\ now \in 0..MaxTime
  /\ releasing \in [Procs -> Seq(Lock \cup {End})]
  /\ inkernel \in Procs \cup {Nobody} /\ semcnt \in Nat /\ calls \in 0..MaxCalls
  /\ asked \in [Lock -> [Procs -> {"unset", "READ", "WRITE"}]]

\* A process is on the queue of a lock, once, exactly while it waits for that
\* lock (lock.c, releaseall.c, ldelete.c, kill.c).
WaitersAgree ==
  \A p \in Procs, l \in Lock :
    Cardinality({i \in 1..Len(lqueue[l]) : lqueue[l][i] = p}) =
      IF pstate[p] = "PRWAIT" /\ plock[p] = l THEN 1 ELSE 0

\* A lock's priority is that of its most urgent waiter, after every change of
\* a waiter's own or inherited priority, through any chain of locks (lock.c,
\* priority_inherit() and chprio.c keep it by hand).
LprioIsHighestWaiter ==
  \A l \in Lock : lstate[l] = "LUSED" => lprio[l] = WaitingPrio(Prios, lqueue[l])

\* A process that gave all its locks back runs at its own priority: what it
\* inherited is gone with the last one, also when releaseall() was cut by other
\* processes between two locks, or handed it a lock before (releaseall.c:35).
\* One that lost a lock to ldelete() is another matter: DELETED is nonzero, so
\* priority_inherit() takes the lock for held (releaseall.c:109) and what was
\* inherited through it stays, which is why such an entry is not in here.
PriorityGivenBack ==
  \A p \in Procs :
    /\ Live(p) /\ releasing[p] = <<>>
    /\ \A l \in Lock : plocksacquired[p][l] = "no"
    => pinh[p] = 0

\* priority_inherit() ends, whichever process it is called for: its recursion
\* along who waits for whom never comes back to a process (releaseall.c:128),
\* also after a lock was handed to many, or its holder killed.
InheritEnds == \A p \in Procs : LastRound(Prios, {p}).loops = <<>>

\* The lock table and the process table agree on who holds what.
HoldersAgree ==
  \A l \in Lock, p \in Procs : lock_acquired[l][p] <=> plocksacquired[p][l] = "yes"

\* Waiters stand in the order of their lock priorities, and of two with the
\* same one the first to come is nearer the tail, which is served first.
LockQueueInOrder ==
  \A l \in Lock : \A i, j \in 1..Len(lqueue[l]) : i < j =>
    LET a == lqueue[l][i]
        b == lqueue[l][j]
    IN  \/ qkey[a] < qkey[b]
        \/ qkey[a] = qkey[b] /\ qlockwaittime[a] >= qlockwaittime[b]

\* A lock handed over goes to no waiter while one with a higher lock priority
\* stays in the queue (releaseall.c).
HandedToTheMostUrgent ==
  [][\A l \in Lock, p, q \in Procs :
       /\ q \in ToSet(lqueue[l]) \ ToSet(lqueue'[l])
       /\ lock_acquired'[l][q]
       /\ p \in ToSet(lqueue'[l])
       => qkey[p] <= qkey[q]]_vars

\* lock.c:108: a reader gets the lock if a writer doesn't have it.  So nobody
\* shares a lock with a process that asked for it to write.
WritersExclude ==
  \A l \in Lock : \A p, q \in Holders(l) :
    p # q /\ Live(p) /\ Live(q) => asked[l][p] = "READ" /\ asked[l][q] = "READ"

\* lock.c:124, "priority inheritance for processes holding the lock": once a
\* process has begun to wait, no holder of that lock is less urgent than it.
HoldersInherit ==
  [][\A p \in Procs : pstate[p] = "RUNNABLE" /\ pstate'[p] = "PRWAIT" =>
       \A h \in Procs : Live(h) /\ lock_acquired[plock'[p]][h] =>
         schedprio(Prios, h)' >= schedprio(Prios, p)']_vars

\* ldelete.c:36, "if there are processes waiting for the lock, wake them up":
\* nobody waits for ever for a lock that is deleted.
DeletedLockWakes ==
  \A p \in Procs :
    (pstate[p] = "PRWAIT" /\ lstate[plock[p]] = "LFREE") ~> pstate[p] # "PRWAIT"
===============================================================================
