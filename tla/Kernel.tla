--------------------------------- MODULE Kernel ---------------------------------
(***************************************************************************)
(* The kernel as a whole: its state when main() starts, the system calls   *)
(* the processes may make, the clock interrupt, and what the tables        *)
(* promise each other.                                                     *)
(***************************************************************************)
EXTENDS Processes

CONSTANT NBORN   \* processes main() has created, and not yet resumed

ASSUME NBORNAssumption == NBORN \in 0..NPROC - 2

Main == NPROC - 1
Born == Main - NBORN..Main - 1

\* sysinit() and nulluser() have run: the null process has resumed main().
Init ==
  /\ currpid = Main
  /\ preempt = QUANTUM
  /\ nextproc = Main - NBORN - 1
  /\ numproc = 1 + NBORN
  /\ pstate = [p \in Pid |-> IF p = Main THEN "PRCURR"
                             ELSE IF p = NULLPROC THEN "PRREADY"
                             ELSE IF p \in Born THEN "PRSUSP" ELSE "PRFREE"]
  /\ pprio \in {f \in [Pid -> Prios \cup {0}] :
                  \A p \in Pid : f[p] = 0 <=> p \notin Born \cup {Main}}
  /\ psem = [p \in Pid |-> 0]
  /\ pwaitret = [p \in Pid |-> OK]
  /\ phasmsg = [p \in Pid |-> FALSE]
  /\ pnxtkin = [p \in Pid |-> IF p \in Born \cup {Main} THEN BADPID ELSE 0]
  /\ frame = [p \in Pid |-> User]
  /\ qkey = [p \in Pid |-> 0]
  /\ rdy = <<NULLPROC>>
  /\ clockq = <<>>
  /\ slnempty = FALSE
  /\ sltop = NULLPROC
  /\ sstate = [s \in Sem |-> "SFREE"]
  /\ semcnt = [s \in Sem |-> 0]
  /\ semq = [s \in Sem |-> <<>>]
  /\ nextsem = NSEM - 1

ProcessCall ==
  \/ \E k \in Prios : Create(k)
  \/ CreateRefused
  \/ \E p \in Pid : Resume(p) \/ Suspend(p) \/ Kill(p)
  \/ \E p \in Pid, k \in Prios : Chprio(p, k)
  \/ \E p \in Pid, nok \in Kins : Setnok(nok, p)

SemaphoreCall ==
  \/ \E c \in Counts : Screate(c)
  \/ \E s \in Sem : Wait(s) \/ Signal(s) \/ Sdelete(s)
  \/ \E s \in Sem, c \in Counts : Signaln(s, c) \/ Sreset(s, c)

MessageCall ==
  \/ \E p \in Pid : Send(p)
  \/ Receive
  \/ Recvclr
  \/ \E k \in Delays : Recvtim(k)

SleepCall == \E k \in Delays : Sleep(k)

\* The rest of a call or of the clock interrupt, with interrupts disabled.
Continue ==
  \/ KillEnd
  \/ SignalnNext \/ SignalnEnd
  \/ SresetNext \/ SresetEnd
  \/ SdeleteNext \/ SdeleteEnd
  \/ ReceiveEnd \/ RecvtimEnd
  \/ WakeupNext \/ WakeupEnd
  \/ Clpreem

Next == ProcessCall \/ SemaphoreCall \/ MessageCall \/ SleepCall \/ Tick \/ Continue

Spec == Init /\ [][Next]_vars

\* The code of the kernel runs on once entered.  A clock interrupt that finds
\* interrupts disabled stays pending in the interrupt controller and is taken
\* when they are enabled, so ticks do not starve.  No fairness is asked of
\* what processes choose to call.
FairSpec == Spec /\ WF_vars(Continue) /\ SF_vars(Tick)

-------------------------------------------------------------------------------
(***************************************************************************)
(* Properties.                                                             *)
(***************************************************************************)
FrameType == [at : Points, x : Int, n : Int]

\* The type of every variable (proc.h, sem.h, q.h).
TypeOK ==
  /\ currpid \in Pid
  /\ preempt \in 0..QUANTUM
  /\ nextproc \in Pid
  /\ numproc \in Int
  /\ pstate \in [Pid -> States]
  /\ pprio \in [Pid -> Nat]
  /\ psem \in [Pid -> Sem]
  /\ pwaitret \in [Pid -> {OK, DELETED}]
  /\ phasmsg \in [Pid -> BOOLEAN]
  /\ pnxtkin \in [Pid -> Int]
  /\ frame \in [Pid -> FrameType]
  /\ qkey \in [Pid -> Int]
  /\ rdy \in Seq(Pid)
  /\ clockq \in Seq(Pid)
  /\ slnempty \in BOOLEAN
  /\ sltop \in Pid
  /\ sstate \in [Sem -> {"SFREE", "SUSED"}]
  /\ semcnt \in [Sem -> Int]
  /\ semq \in [Sem -> Seq(Pid)]
  /\ nextsem \in Sem

InState(st) == {p \in Pid : pstate[p] \in st}

\* q[] has one entry per process, so a process on two lists, or on a list its
\* state does not name, would cut the lists apart.  Whatever processes call,
\* and wherever a kill() is overtaken by others, each list holds exactly the
\* processes whose pstate says so, and one process is current.
QueuesMatchStates ==
  /\ InState({"PRCURR"}) = {currpid}
  /\ Holds(rdy, InState({"PRREADY"}))
  /\ Holds(clockq, InState({"PRSLEEP", "PRTRECV"}))
  /\ \A s \in Sem : Holds(semq[s], {p \in InState({"PRWAIT"}) : psem[p] = s})

\* resched() takes the last entry of the ready list without looking whether
\* there is one (resched.c:167): the null process is always there or running.
NullProcessRunnable == pstate[NULLPROC] \in {"PRCURR", "PRREADY"}

\* insert() keeps the ready list in ascending order of the keys, although
\* chprio() changes the priorities of the processes on it.
ReadyListSorted ==
  \A i, j \in 1..Len(rdy) : i < j => qkey[rdy[i]] <= qkey[rdy[j]]

\* A semaphore count below zero is the number of its waiters, through signaln,
\* sreset, sdelete, re-creation and the kill of a waiter; only the loops that
\* empty a queue leave the two apart for a while.
Draining(s) == frame[currpid].at \in {"sreset", "sdelete"} /\ frame[currpid].x = s
CountsMatchQueues ==
  \A s \in Sem : Draining(s) \/
    Len(semq[s]) = IF InUse(s) /\ semcnt[s] < 0 THEN -semcnt[s] ELSE 0

\* receive() reads pmsg after resched() without looking at phasmsg
\* (receive.c:24): nobody but send() gets a receiver going again, and no one
\* takes its message before it runs.
ReceiverFindsMessage ==
  \A p \in Pid : pstate[p] # "PRFREE" /\ frame[p].at = "receive"
                   => (phasmsg[p] <=> pstate[p] # "PRRECV")

\* clkint reads slnempty and *sltop only: they are the truth about the delta
\* list whenever an interrupt can come.
SleepPointerValid ==
  Running("user") => /\ slnempty <=> clockq # <<>>
                     /\ slnempty => sltop = Head(clockq)

\* No delta is negative when an interrupt can come, so no sleeper holds back
\* those behind it.
DeltasNotNegative ==
  Running("user") => \A i \in 1..Len(clockq) : qkey[clockq[i]] >= 0

\* A wait() that ends because its semaphore was deleted says so, and no other
\* does (wait.c:33, sdelete.c:30).
WaitVerdict ==
  [][\A p \in Pid : pstate[p] = "PRWAIT" /\ pstate'[p] \in {"PRREADY", "PRCURR"}
       => (pwaitret'[p] = DELETED <=> sstate'[psem[p]] = "SFREE")]_vars

\* Waiters leave a semaphore in the order they came, however priorities lie:
\* one who comes goes behind all others, and none is woken before those ahead
\* of it; only kill() takes one out of turn.
WaitersInOrder ==
  [][/\ \A p \in Pid : pstate[p] # "PRWAIT" /\ pstate'[p] = "PRWAIT"
                         => Last(semq'[psem'[p]]) = p
     /\ \A s \in Sem : \A i \in 1..Len(semq[s]) :
          pstate'[semq[s][i]] \in {"PRREADY", "PRCURR"} =>
            \A j \in 1..i - 1 : pstate'[semq[s][j]] # "PRWAIT"]_vars

\* Unless a running or ready process had its priority changed, a call or
\* interrupt that makes a process ready does not return to a process of lower
\* priority.
DispatchesHighest ==
  [][ frame'[currpid'].at = "user" /\ (currpid' # currpid \/ Len(rdy') > Len(rdy)
                                        \/ frame[currpid].at # "user")
       => \A i \in 1..Len(rdy') : qkey'[rdy'[i]] <= pprio'[currpid'] ]_vars

\* A process that asks for ticks gets them: every sleeper wakes (or is killed).
SleepersWake == \A p \in Pid : pstate[p] = "PRSLEEP" ~> pstate[p] # "PRSLEEP"

\* Processes of one priority share the CPU: each that is ready runs, or is
\* taken off the list, although the running one need never give it up.
ReadyRuns == \A p \in Pid \ {NULLPROC} : pstate[p] = "PRREADY" ~> pstate[p] # "PRREADY"

\* numproc is the number of "currently active processes" (proc.h:71).
NumprocCountsProcesses ==
  (\A p \in Pid : Taken(p) => frame[p].at # "kill")
    => numproc = Cardinality({p \in Pid \ {NULLPROC} : Taken(p)})
===============================================================================
