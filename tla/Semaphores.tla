------------------------------- MODULE Semaphores -------------------------------
(***************************************************************************)
(* Counting semaphores: screate.c, wait.c, signal.c, signaln.c, sreset.c   *)
(* and sdelete.c.  A count below zero is minus the number of waiters.      *)
(***************************************************************************)
EXTENDS KernelState

CONSTANTS
  Counts,     \* counts screate, signaln and sreset are called with
  MaxCount    \* bound of the model: no signal raises a count above it

ASSUME CountsAssumption == Counts \subseteq Nat /\ MaxCount \in Nat

OK == "OK"
DELETED == "DELETED"

InUse(s) == sstate[s] = "SUSED"
SemsInUse == {s \in Sem : InUse(s)}

Screate(count) ==
  /\ Calling("screate")
  /\ count \in Counts
  /\ FreeSlots(nextsem, NSEM, SemsInUse) # {}
  /\ LET s == FoundSlot(nextsem, NSEM, SemsInUse)
     IN  /\ sstate' = [sstate EXCEPT ![s] = "SUSED"]
         /\ semcnt' = [semcnt EXCEPT ![s] = count]
         /\ nextsem' = SlotAfter(s, 1, NSEM)
  /\ UNCHANGED <<semq, cpuVars, clockVars, tableVars, frame>>

\* Faulty: pwaitret keeps what an earlier wait left; the queue is kept in the
\* order of priorities.
WaitStale(s) ==
  /\ Calling("wait")
  /\ InUse(s)
  /\ semcnt' = [semcnt EXCEPT ![s] = @ - 1]
  /\ IF semcnt[s] > 0
     THEN UNCHANGED <<cpuVars, psem, semq>>
     ELSE /\ psem' = [psem EXCEPT ![currpid] = s]
          /\ semq' = [semq EXCEPT ![s] = Append(@, currpid)]
          /\ Resched(SetState(Tables, currpid, "PRWAIT"), preempt)
  /\ UNCHANGED <<sstate, nextsem, clockVars, frame,
                 nextproc, numproc, pprio, pwaitret, phasmsg, pnxtkin>>
WaitByPriority(s) ==
  /\ Calling("wait")
  /\ InUse(s)
  /\ semcnt' = [semcnt EXCEPT ![s] = @ - 1]
  /\ IF semcnt[s] > 0
     THEN UNCHANGED <<cpuVars, psem, semq, pwaitret>>
     ELSE /\ psem' = [psem EXCEPT ![currpid] = s]
          /\ semq' = [semq EXCEPT ![s] = Reverse(Insert(Reverse(@), pprio, currpid, pprio[currpid]))]
          /\ pwaitret' = [pwaitret EXCEPT ![currpid] = OK]
          /\ Resched(SetState(Tables, currpid, "PRWAIT"), preempt)
  /\ UNCHANGED <<sstate, nextsem, clockVars, frame,
                 nextproc, numproc, pprio, phasmsg, pnxtkin>>

Wait(s) ==
  /\ Calling("wait")
  /\ InUse(s)
  /\ semcnt' = [semcnt EXCEPT ![s] = @ - 1]
  /\ IF semcnt[s] > 0
     THEN UNCHANGED <<cpuVars, psem, semq, pwaitret>>
     ELSE /\ psem' = [psem EXCEPT ![currpid] = s]
          /\ semq' = [semq EXCEPT ![s] = Append(@, currpid)]
          /\ pwaitret' = [pwaitret EXCEPT ![currpid] = OK]
          /\ Resched(SetState(Tables, currpid, "PRWAIT"), preempt)
  /\ UNCHANGED <<sstate, nextsem, clockVars, frame,
                 nextproc, numproc, pprio, phasmsg, pnxtkin>>

\* One signal: the count goes up and, if it was negative, the first waiter
\* leaves the queue.  Woken(s) is that waiter, EMPTY if there is none.
Woken(s) == IF semcnt[s] < 0 THEN First(semq[s]) ELSE EMPTY
\* Faulty: the count goes up only when nobody waits.
CountUpIfNobodyWaits(s) ==
  IF semcnt[s] < 0 THEN semq' = [semq EXCEPT ![s] = Rest(@)] /\ UNCHANGED semcnt
  ELSE semcnt' = [semcnt EXCEPT ![s] = @ + 1] /\ UNCHANGED semq
CountUp(s) ==
  /\ semcnt' = [semcnt EXCEPT ![s] = @ + 1]
  /\ semq' = IF semcnt[s] < 0 THEN [semq EXCEPT ![s] = Rest(@)] ELSE semq

Signal(s) ==
  /\ Calling("signal")
  /\ InUse(s)
  /\ semcnt[s] < MaxCount
  /\ CountUp(s)
  /\ ReadyNow(Tables, Woken(s))
  /\ UNCHANGED <<sstate, nextsem, clockVars, tableVars, frame>>

(***************************************************************************)
(* The loops of signaln, sreset and sdelete: one step per turn, with       *)
(* interrupts disabled throughout, and resched() once at the end.          *)
(***************************************************************************)
Signaln(s, count) ==
  /\ Calling("signaln")
  /\ InUse(s)
  /\ count \in Counts \ {0}
  /\ semcnt[s] + count <= MaxCount
  /\ Leave(At("signaln", s, count))
  /\ UNCHANGED <<cpuVars, clockVars, semVars, tableVars>>

SignalnNext ==
  /\ Running("signaln")
  /\ LET f == frame[currpid]
     IN  /\ f.n > 0
         /\ CountUp(f.x)
         /\ Keep(Ready(Tables, Woken(f.x)))
         /\ Leave(At("signaln", f.x, f.n - 1))
  /\ UNCHANGED <<preempt, sstate, nextsem, clockVars, tableVars>>

SignalnEnd ==
  /\ Running("signaln")
  /\ frame[currpid].n = 0
  /\ Resched(Tables, preempt)
  /\ Leave(User)
  /\ UNCHANGED <<clockVars, semVars, tableVars>>

Sreset(s, count) ==
  /\ Calling("sreset")
  /\ InUse(s)
  /\ count \in Counts
  /\ Leave(At("sreset", s, count))
  /\ UNCHANGED <<cpuVars, clockVars, semVars, tableVars>>

SresetNext ==
  /\ Running("sreset")
  /\ LET s == frame[currpid].x
     IN  /\ semq[s] # <<>>
         /\ semq' = [semq EXCEPT ![s] = Tail(@)]
         /\ Keep(Ready(Tables, Head(semq[s])))
  /\ UNCHANGED <<preempt, sstate, semcnt, nextsem, clockVars, tableVars, frame>>

SresetEnd ==
  /\ Running("sreset")
  /\ LET f == frame[currpid]
     IN  /\ semq[f.x] = <<>>
         /\ semcnt' = [semcnt EXCEPT ![f.x] = f.n]
  /\ Resched(Tables, preempt)
  /\ Leave(User)
  /\ UNCHANGED <<sstate, semq, nextsem, clockVars, tableVars>>

Sdelete(s) ==
  /\ Calling("sdelete")
  /\ InUse(s)
  /\ sstate' = [sstate EXCEPT ![s] = "SFREE"]
  /\ IF semq[s] = <<>> THEN UNCHANGED frame ELSE Leave(At("sdelete", s, 0))
  /\ UNCHANGED <<cpuVars, semcnt, semq, nextsem, clockVars, tableVars>>

SdeleteNext ==
  /\ Running("sdelete")
  /\ LET s == frame[currpid].x
     IN  /\ semq[s] # <<>>
         /\ semq' = [semq EXCEPT ![s] = Tail(@)]
         /\ pwaitret' = [pwaitret EXCEPT ![Head(semq[s])] = DELETED]
         /\ Keep(Ready(Tables, Head(semq[s])))
  /\ UNCHANGED <<preempt, sstate, semcnt, nextsem, clockVars, frame,
                 nextproc, numproc, pprio, psem, phasmsg, pnxtkin>>

SdeleteEnd ==
  /\ Running("sdelete")
  /\ semq[frame[currpid].x] = <<>>
  /\ Resched(Tables, preempt)
  /\ Leave(User)
  /\ UNCHANGED <<semVars, clockVars, tableVars>>
===============================================================================
