------------------------------ MODULE SchedClasses ------------------------------
(***************************************************************************)
(* The two scheduling classes that lab 1 adds to resched()                 *)
(* (csc501-lab1/sys/resched.c): aging, which raises the priority of every  *)
(* waiting process at every reschedule, and the Linux-like class, which    *)
(* deals shares of CPU time out in epochs.  main() chooses the class once, *)
(* before it creates processes (main.c).                                   *)
(*                                                                         *)
(* What processes wait for is left out: the running one may sleep, and the *)
(* clock interrupt may find any of the sleepers due.  A process that the   *)
(* interrupt's own resched() switches out has the rest of the interrupt    *)
(* before it (clkint.S, clpreem) when it is next dispatched.               *)
(***************************************************************************)
EXTENDS Integers, Sequences, FiniteSets, SequencesExt, FiniteSetsExt

CONSTANTS
  NPROC,      \* size of the process table
  QUANTUM,    \* clock ticks given to a process by the default class
  Prios,      \* priorities that create() and chprio() are called with
  MaxDebt,    \* bound: how far below 0 main() lets preempt run before its choice
  MaxPrio     \* bound: aging is modelled up to this priority

ASSUME NPROCAssumption == NPROC \in Nat /\ NPROC >= 2
ASSUME QUANTUMAssumption == QUANTUM \in Nat \ {0}
ASSUME PriosAssumption == Prios \subseteq Nat \ {0}
ASSUME BoundsAssumption == MaxDebt \in Nat /\ MaxPrio \in Nat

VARIABLES
  schedclass,      \* AGESCHED or LINUXSCHED
  currpid,         \* the running process
  preempt,         \* ticks left to it
  epoch,           \* ticks left in the epoch, as the scheduler counts them
  pstate,          \* proctab[].pstate
  pprio,           \* proctab[].pprio
  goodness,        \* proctab[].goodness
  quantum,         \* proctab[].quantum
  unused_quantum,  \* proctab[].unused_quantum
  rdy,             \* the ready list, from rdyhead to rdytail
  qkey,            \* q[pid].qkey
  frame            \* where each process goes on: in user code, or in clkint

vars == <<schedclass, currpid, preempt, epoch, pstate, pprio, goodness, quantum,
          unused_quantum, rdy, qkey, frame>>

Pid == 0..NPROC - 1
NULLPROC == 0
Main == NPROC - 1

InState(st) == {p \in Pid : pstate[p] = st}
Calling == frame[currpid] = "user" /\ currpid # NULLPROC

\* main() has called setschedclass(): it was created under the default class,
\* so it has no share, and preempt is what that class left in it.
Init ==
  /\ schedclass \in {"AGESCHED", "LINUXSCHED"}
  /\ currpid = Main
  /\ preempt \in -MaxDebt..QUANTUM
  /\ epoch = 0
  /\ pstate = [p \in Pid |-> IF p = Main THEN "PRCURR"
                             ELSE IF p = NULLPROC THEN "PRREADY" ELSE "PRFREE"]
  /\ \E k \in Prios : pprio = [p \in Pid |-> IF p = Main THEN k ELSE 0]
  /\ goodness = [p \in Pid |-> 0]
  /\ quantum = [p \in Pid |-> 0]
  /\ unused_quantum = [p \in Pid |-> 0]
  /\ rdy = <<NULLPROC>>
  /\ qkey = [p \in Pid |-> 0]
  /\ frame = [p \in Pid |-> "user"]

-------------------------------------------------------------------------------
(***************************************************************************)
(* The scheduler, on a record of the tables it works on.                   *)
(***************************************************************************)
Tables == [currpid |-> currpid, preempt |-> preempt, epoch |-> epoch,
           pstate |-> pstate, pprio |-> pprio, goodness |-> goodness,
           quantum |-> quantum, unused |-> unused_quantum, rdy |-> rdy, qkey |-> qkey]

\* The entry of a free process, which create() clears, and the key of one that
\* is not on the list, which insert() sets, are never read: they are kept at 0.
Install(T) ==
  LET InUse(f) == [p \in Pid |-> IF T.pstate[p] = "PRFREE" THEN 0 ELSE f[p]]
  IN  /\ currpid' = T.currpid /\ preempt' = T.preempt /\ epoch' = T.epoch
      /\ pstate' = T.pstate /\ pprio' = InUse(T.pprio)
      /\ goodness' = InUse(T.goodness) /\ quantum' = InUse(T.quantum)
      /\ unused_quantum' = InUse(T.unused)
      /\ rdy' = T.rdy
      /\ qkey' = [p \in Pid |-> IF T.pstate[p] = "PRREADY" THEN T.qkey[p] ELSE 0]

\* insert(): p goes before the first entry whose key is not below k.  The list
\* may be out of order, since linuxsched() changes its keys.
Insert(T, p, k) ==
  LET stop == {i \in 1..Len(T.rdy) : T.qkey[T.rdy[i]] >= k} \cup {Len(T.rdy) + 1}
  IN  [T EXCEPT !.rdy = InsertAt(@, Min(stop), p), !.qkey[p] = k]

\* ready(p, RESCHNO) files p by its priority, whatever the class.
Ready(T, p) == Insert([T EXCEPT !.pstate[p] = "PRREADY"], p, T.pprio[p])

Yields(T) == T.pstate[T.currpid] = "PRCURR"
StepDown(T, k) ==
  IF Yields(T) THEN Insert([T EXCEPT !.pstate[T.currpid] = "PRREADY"], T.currpid, k) ELSE T

Dispatch(T, p, ticks) ==
  [T EXCEPT !.currpid = p, !.pstate[p] = "PRCURR", !.preempt = ticks,
            !.rdy = RemoveFirst(@, p)]

\* defaultsched(): see KernelState!Resched.
defaultsched(T) ==
  IF Yields(T) /\ (T.rdy = <<>> \/ T.qkey[Last(T.rdy)] < T.pprio[T.currpid])
  THEN T
  ELSE LET S == StepDown(T, T.pprio[T.currpid]) IN Dispatch(S, Last(S.rdy), QUANTUM)

\* Faulty: only the keys are raised, and fall back when the process runs.
agingschedKeysOnly(T) ==
  [T EXCEPT !.qkey = [p \in Pid |-> IF Contains(T.rdy, p) THEN @[p] + 1 ELSE @[p]]]

\* agingsched(): every ready process, the null process too, gains one.
agingsched(T) ==
  [T EXCEPT !.qkey  = [p \in Pid |-> IF Contains(T.rdy, p) THEN @[p] + 1 ELSE @[p]],
            !.pprio = [p \in Pid |-> IF Contains(T.rdy, p) THEN @[p] + 1 ELSE @[p]]]

maximumgoodness(T) == Max({T.goodness[T.rdy[i]] : i \in 1..Len(T.rdy)} \cup {-1})

\* The first process on the list with the greatest goodness.
maximumgoodnessproc(T) ==
  T.rdy[Min({i \in 1..Len(T.rdy) : T.goodness[T.rdy[i]] = maximumgoodness(T)})]

\* Faulty: goodness is only lowered by what was used.
ChargeOnly(T) ==
  LET used == T.unused[T.currpid] - T.preempt
  IN  [T EXCEPT !.epoch = @ - used, !.unused[T.currpid] = T.preempt,
                !.goodness[T.currpid] = @ - used]

\* The running process pays for the ticks that preempt has lost since it was
\* dispatched; with its share used up it loses all its goodness.
Charge(T) ==
  LET p == T.currpid
      used == T.unused[p] - T.preempt
  IN  [T EXCEPT !.epoch = @ - used,
                !.unused[p] = T.preempt,
                !.goodness[p] = IF T.preempt = 0 THEN 0 ELSE @ - used]

\* Half of what a process has kept, cut towards 0 as the conversion to int of
\* (0.5 * unused_quantum) + pprio does.
Half(u, k) ==
  LET doubled == u + 2 * k IN IF doubled >= 0 THEN doubled \div 2 ELSE -((-doubled) \div 2)

NewQuantum(T, p) ==
  IF T.unused[p] \in {0, T.quantum[p]} THEN T.pprio[p] ELSE Half(T.unused[p], T.pprio[p])

\* A new epoch: a share for every process that is not PRFREE, blocked or not.
NewEpoch(T) ==
  LET live == {p \in Pid \ {NULLPROC} : T.pstate[p] # "PRFREE"}
      share == [p \in Pid |-> IF p \in live THEN NewQuantum(T, p) ELSE T.quantum[p]]
  IN  [T EXCEPT !.epoch = MapThenSumSet(LAMBDA p : share[p], live),
                !.quantum = share,
                !.unused = [p \in Pid |-> IF p \in live THEN share[p] ELSE @[p]],
                !.goodness = [p \in Pid |-> IF p = NULLPROC THEN 0
                                ELSE IF p \in live THEN share[p] + T.pprio[p] ELSE @[p]]]

\* Faulty: a new epoch begins although the running process has a share left;
\* none begins while the running process may go on.
EpochIsOverEarly(T) == maximumgoodness(T) <= 0
EpochIsOverLate(T) == maximumgoodness(T) <= 0 /\ ~Yields(T)

EpochIsOver(T) ==
  maximumgoodness(T) <= 0 /\ (Yields(T) => T.goodness[T.currpid] = 0)

\* The parts of linuxsched(): the ready list is keyed by goodness and the
\* running process pays; a new epoch begins if need be; the CPU is given away.
Pay(T) ==
  LET keyed == [T EXCEPT !.qkey = [p \in Pid |->
                           IF Contains(T.rdy, p) THEN T.goodness[p] ELSE @[p]]]
  IN  IF T.currpid = NULLPROC THEN keyed ELSE Charge(keyed)

Deal(T) == IF EpochIsOver(T) THEN NewEpoch(T) ELSE T

GiveAway(T) ==
  IF maximumgoodness(T) > 0 /\ maximumgoodnessproc(T) > NULLPROC
  THEN Dispatch(T, maximumgoodnessproc(T), T.unused[maximumgoodnessproc(T)])
  ELSE Dispatch(T, NULLPROC, QUANTUM)

linuxsched(T) ==
  LET dealt == Deal(Pay(T))
      p == dealt.currpid
  IN  IF Yields(dealt) /\ maximumgoodness(dealt) < dealt.goodness[p]
      THEN [dealt EXCEPT !.preempt = dealt.unused[p]]
      ELSE GiveAway(StepDown(dealt, dealt.goodness[p]))

\* resched().  MaxPrio bounds the model only.
Resched(T) ==
  \/ schedclass = "LINUXSCHED" /\ Install(linuxsched(T))
  \/ /\ schedclass = "AGESCHED"
     /\ \A i \in 1..Len(T.rdy) : T.pprio[T.rdy[i]] < MaxPrio
     /\ Install(defaultsched(agingsched(T)))

-------------------------------------------------------------------------------
(***************************************************************************)
(* What processes and the clock do to the scheduler.                       *)
(***************************************************************************)

\* create().  Which of the free slots newpid() finds is left open.
Create(p, k) ==
  /\ Calling
  /\ pstate[p] = "PRFREE"
  /\ Install([Tables EXCEPT !.pstate[p] = "PRSUSP", !.pprio[p] = k, !.goodness[p] = 0,
                            !.quantum[p] = 0, !.unused[p] = 0])
  /\ UNCHANGED <<schedclass, frame>>

Resume(p) ==
  /\ Calling
  /\ pstate[p] = "PRSUSP"
  /\ Resched(Ready(Tables, p))
  /\ UNCHANGED <<schedclass, frame>>

Suspend(p) ==
  /\ Calling
  /\ p # NULLPROC
  /\ \/ /\ pstate[p] = "PRREADY"
        /\ Install([Tables EXCEPT !.pstate[p] = "PRSUSP", !.rdy = RemoveFirst(@, p)])
     \/ /\ pstate[p] = "PRCURR"
        /\ Resched([Tables EXCEPT !.pstate[p] = "PRSUSP"])
  /\ UNCHANGED <<schedclass, frame>>

Chprio(p, k) ==
  /\ Calling
  /\ p # NULLPROC
  /\ pstate[p] # "PRFREE"
  /\ Install([Tables EXCEPT !.pprio[p] = k])
  /\ UNCHANGED <<schedclass, frame>>

Kill(p) ==
  /\ Calling
  /\ p # NULLPROC
  /\ \/ /\ pstate[p] = "PRCURR"
        /\ Resched([Tables EXCEPT !.pstate[p] = "PRFREE"])
     \/ /\ pstate[p] \in {"PRREADY", "PRSUSP", "PRSLEEP"}
        /\ Install([Tables EXCEPT !.pstate[p] = "PRFREE", !.rdy = RemoveFirst(@, p)])
  /\ frame' = [frame EXCEPT ![p] = "user"]
  /\ UNCHANGED schedclass

\* The running process waits for something.
Sleep ==
  /\ Calling
  /\ Resched([Tables EXCEPT !.pstate[currpid] = "PRSLEEP"])
  /\ UNCHANGED <<schedclass, frame>>

\* clkint interrupts user code; some sleepers may be due.
Tick ==
  /\ frame[currpid] = "user"
  /\ schedclass = "AGESCHED" => preempt > -MaxDebt
  /\ \E point \in {"wakeup", "clpreem"} :
       /\ point = "wakeup" => InState("PRSLEEP") # {}
       /\ frame' = [frame EXCEPT ![currpid] = point]
  /\ UNCHANGED <<schedclass, currpid, preempt, epoch, pstate, pprio, goodness,
                 quantum, unused_quantum, rdy, qkey>>

\* wakeup() readies those due one by one, then reschedules.
ReadyAll(T, due) ==
  LET after[i \in 0..Len(due)] == IF i = 0 THEN T ELSE Ready(after[i - 1], due[i])
  IN  after[Len(due)]

Wakeup(due) ==
  /\ frame[currpid] = "wakeup"
  /\ due # <<>>
  /\ frame' = [frame EXCEPT ![currpid] = "clpreem"]
  /\ Resched(ReadyAll(Tables, due))
  /\ UNCHANGED schedclass

\* clpreem, at once when nobody is due, else when the interrupted
\* process runs again: it loses a tick of what it was given then.
Clpreem ==
  /\ frame[currpid] = "clpreem"
  /\ LET T == [Tables EXCEPT !.preempt = @ - 1]
     IN  IF T.preempt > 0 THEN Install(T) ELSE Resched(T)
  /\ frame' = [frame EXCEPT ![currpid] = "user"]
  /\ UNCHANGED schedclass

Call ==
  \/ \E p \in Pid, k \in Prios : Create(p, k)
  \/ \E p \in Pid : Resume(p) \/ Suspend(p) \/ Kill(p)
  \/ \E p \in Pid, k \in Prios : Chprio(p, k)
  \/ Sleep

Continue ==
  \/ \E W \in SUBSET InState("PRSLEEP") : \E due \in SetToSeqs(W) : Wakeup(due)
  \/ Clpreem

Next == Call \/ Tick \/ Continue

Spec == Init /\ [][Next]_vars

\* The clock goes on ticking, and the interrupt's code runs on: while the running
\* process is inside it, no other step can be taken, so Continue is fair exactly
\* when user code runs again and again.
FairSpec == Spec /\ SF_vars(Tick) /\ []<>(frame[currpid] = "user")

-------------------------------------------------------------------------------
(***************************************************************************)
(* Properties.                                                             *)
(***************************************************************************)
User == Pid \ {NULLPROC}
Runnable == InState("PRREADY") \cup InState("PRCURR")

\* Goodness and share, kept apart in the process table, run out together, and
\* whoever runs under the Linux-like class, however it was dispatched, has ticks
\* left and not more than its share.  main() is left out: its share starts from
\* what the default class left in preempt (resched.c:73).
RunsOnItsShare ==
  schedclass = "LINUXSCHED" =>
    \A p \in User \ {Main} :
      /\ unused_quantum[p] \in 0..goodness[p]
      /\ unused_quantum[p] = 0 <=> goodness[p] = 0
      /\ currpid = p /\ frame[p] = "user" => preempt \in 1..unused_quantum[p]

\* The null process runs under the Linux-like class only when no other is ready,
\* whether processes have a share of this epoch, wait for the next or are new:
\* unless main() owes ticks that it ran over before it chose the class.
IdleOnlyWhenNobodyReady ==
  schedclass = "LINUXSCHED" /\ currpid = NULLPROC /\ frame[NULLPROC] = "user"
    => InState("PRREADY") = {} \/ unused_quantum[Main] < 0

\* A new epoch, which is when one who lives and is not running gets more, finds the shares
\* of all who are or become ready used up, and the ticks of the running one if it
\* may go on: nobody loses a share by others' sleeping, waking and dying.
EpochOnlyWhenSpent ==
  [][ (\E p \in User \ {currpid} :
         pstate'[p] # "PRFREE" /\ unused_quantum'[p] > unused_quantum[p])
      => /\ \A p \in User \ {currpid} :
              pstate'[p] \in {"PRREADY", "PRCURR"} => goodness[p] <= 0
         /\ currpid # NULLPROC /\ pstate'[currpid] \in {"PRREADY", "PRCURR"}
              => preempt <= 1 ]_vars

\* Under the Linux-like class every ready process gets to run user code, whatever
\* the others do, or stops being ready.
ReadyRuns ==
  \A p \in User :
    schedclass = "LINUXSCHED" /\ pstate[p] = "PRREADY"
      ~> (currpid = p /\ frame[p] = "user") \/ p \notin Runnable

\* How far p is behind the others that are alive.
Behind(prio, p) ==
  MapThenSumSet(LAMBDA r : IF prio[r] >= prio[p] THEN prio[r] - prio[p] + 1 ELSE 0,
                {r \in Pid \ {p} : pstate[r] # "PRFREE"})

\* Aging ends every wait.  At each reschedule that leaves p waiting, nobody gains
\* on p; if the one that ran was not below p, p gains on it; and the one that runs
\* next is not below p.  So p waits for Behind(pprio, p) + 1 reschedules at most.
\* (Unless chprio() has put a key on the ready list out of date.)
AgingCatchesUp ==
  [][ \A p \in InState("PRREADY") :
        /\ schedclass = "AGESCHED" /\ qkey'[p] > qkey[p] /\ pstate'[p] = "PRREADY"
        /\ \A r \in InState("PRREADY") : qkey[r] = pprio[r]
        => /\ Behind(pprio', p) <= Behind(pprio, p)
           /\ pprio[currpid] >= pprio[p] => Behind(pprio', p) < Behind(pprio, p)
           /\ pprio'[currpid'] >= pprio'[p] ]_vars
===============================================================================
