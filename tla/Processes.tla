------------------------------- MODULE Processes -------------------------------
(***************************************************************************)
(* The life of a process: create.c, resume.c, suspend.c, kill.c, chprio.c  *)
(* and setnok.c.                                                           *)
(***************************************************************************)
EXTENDS Messages, Semaphores

CONSTANTS
  Kins,          \* processes that setnok makes the next of kin of others
  NumprocFloor   \* bound of the model: kill is not called below it

ASSUME KinsAssumption == Kins \subseteq Pid
ASSUME NumprocFloorAssumption == NumprocFloor \in Int

Taken(p) == pstate[p] # "PRFREE"
Occupied == {p \in Pid : Taken(p)}

\* create(): the slot newpid() finds becomes a suspended process.
Create(priority) ==
  /\ Calling("create")
  /\ priority \in Prios
  /\ FreeSlots(nextproc, NPROC, Occupied) # {}
  /\ LET p == FoundSlot(nextproc, NPROC, Occupied)
     IN  /\ nextproc' = SlotAfter(p, 1, NPROC)
         /\ pstate' = [pstate EXCEPT ![p] = "PRSUSP"]
         /\ pprio' = [pprio EXCEPT ![p] = priority]
         /\ psem' = [psem EXCEPT ![p] = 0]
         /\ phasmsg' = [phasmsg EXCEPT ![p] = FALSE]
         /\ pnxtkin' = [pnxtkin EXCEPT ![p] = BADPID]
         /\ frame' = [frame EXCEPT ![p] = User]
  /\ numproc' = numproc + 1
  /\ UNCHANGED <<currpid, preempt, rdy, qkey, pwaitret, clockVars, semVars>>

\* create() with a priority below 1 is refused after newpid() has moved on.
CreateRefused ==
  /\ Calling("create")
  /\ FreeSlots(nextproc, NPROC, Occupied) # {}
  /\ nextproc' = SlotAfter(FoundSlot(nextproc, NPROC, Occupied), 1, NPROC)
  /\ UNCHANGED <<cpuVars, clockVars, semVars, frame,
                 numproc, pprio, psem, pwaitret, phasmsg, pnxtkin>>

\* Faulty: a receiver is resumed too.
ResumeReceiver(p) ==
  /\ Calling("resume")
  /\ ~isbadpid(p)
  /\ pstate[p] \in {"PRSUSP", "PRRECV"}
  /\ ReadyNow(Tables, p)
  /\ UNCHANGED <<clockVars, semVars, tableVars, frame>>

Resume(p) ==
  /\ Calling("resume")
  /\ ~isbadpid(p)
  /\ pstate[p] = "PRSUSP"
  /\ ReadyNow(Tables, p)
  /\ UNCHANGED <<clockVars, semVars, tableVars, frame>>

Suspend(p) ==
  /\ Calling("suspend")
  /\ ~isbadpid(p)
  /\ \/ /\ pstate[p] = "PRREADY"
        /\ Keep([SetState(Tables, p, "PRSUSP") EXCEPT !.rdy = Dequeue(rdy, p)])
        /\ UNCHANGED preempt
     \/ /\ pstate[p] = "PRCURR"
        /\ Resched(SetState(Tables, p, "PRSUSP"), preempt)
  /\ UNCHANGED <<clockVars, semVars, tableVars, frame>>

Chprio(p, newprio) ==
  /\ Calling("chprio")
  /\ ~isbadpid(p)
  /\ newprio \in Prios
  /\ Taken(p)
  /\ pprio' = [pprio EXCEPT ![p] = newprio]
  /\ UNCHANGED <<cpuVars, clockVars, semVars, frame,
                 nextproc, numproc, psem, pwaitret, phasmsg, pnxtkin>>

\* setnok() looks at neither the state of p nor that of its kin.
Setnok(nok, p) ==
  /\ Calling("setnok")
  /\ nok \in Kins
  /\ ~isbadpid(p)
  /\ pnxtkin' = [pnxtkin EXCEPT ![p] = nok]
  /\ UNCHANGED <<cpuVars, clockVars, semVars, frame,
                 nextproc, numproc, pprio, psem, pwaitret, phasmsg>>

\* kill(p) up to the message to the next of kin, which may be waiting for it
\* and take the CPU before the rest of kill() has run.
Kill(p) ==
  /\ Calling("kill")
  /\ ~isbadpid(p)
  /\ Taken(p)
  /\ numproc > NumprocFloor
  /\ numproc' = numproc - 1
  /\ SendTo(pnxtkin[p])
  /\ Leave(At("kill", p, 0))
  /\ UNCHANGED <<semVars, nextproc, pprio, psem, pwaitret, pnxtkin>>

\* The switch of kill(p), on the state p is in by then.
KillEnd ==
  /\ Running("kill")
  /\ LET p == frame[currpid].x
         freed == SetState(Tables, p, "PRFREE")
     IN  \/ /\ pstate[p] = "PRCURR"
            /\ Resched(freed, preempt)
            /\ UNCHANGED <<clockVars, semcnt, semq>>
         \/ /\ pstate[p] = "PRWAIT"
            /\ semcnt' = [semcnt EXCEPT ![psem[p]] = @ + 1]
            /\ semq' = [semq EXCEPT ![psem[p]] = Dequeue(@, p)]
            /\ Keep(freed)
            /\ UNCHANGED <<preempt, clockVars>>
         \/ /\ pstate[p] = "PRREADY"
            /\ Keep([freed EXCEPT !.rdy = Dequeue(@, p)])
            /\ UNCHANGED <<preempt, clockVars, semcnt, semq>>
         \/ /\ pstate[p] \in {"PRSLEEP", "PRTRECV"}
            /\ Unsleep(p)
            /\ Keep([freed EXCEPT !.qkey = UnsleepKeys(p)])
            /\ UNCHANGED <<preempt, semcnt, semq>>
         \/ /\ pstate[p] \in {"PRSUSP", "PRRECV", "PRFREE"}
            /\ Keep(freed)
            /\ UNCHANGED <<preempt, clockVars, semcnt, semq>>
  /\ Leave(User)
  /\ UNCHANGED <<sstate, nextsem, tableVars>>
===============================================================================
