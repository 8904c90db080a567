------------------------------ MODULE KernelState ------------------------------
(***************************************************************************)
(* The tables of the XINU kernel (csc501-lab1/sys, default scheduling      *)
(* class) and the operations every other part goes through: the key-ordered *)
(* ready list, ready() and resched().                                      *)
(*                                                                         *)
(* A process runs with interrupts enabled only in user code.  A system     *)
(* call disables them, and the mask is kept per process by ctxsw, so what  *)
(* is left of a call after a resched() runs as soon as its process is      *)
(* dispatched, before any interrupt.  frame[p] is that remainder: the      *)
(* point in the kernel where p will go on ("user" when nothing is left to  *)
(* do but restore(ps) and return).                                         *)
(***************************************************************************)
EXTENDS Integers, Sequences, FiniteSets, SequencesExt

CONSTANTS
  NPROC,     \* size of the process table
  NSEM,      \* size of the semaphore table
  QUANTUM,   \* clock ticks given to a process by resched
  Prios,     \* priorities the processes of the instance use
  Calls      \* system calls the processes of the instance make

ASSUME NPROCAssumption == NPROC \in Nat /\ NPROC >= 2
ASSUME NSEMAssumption == NSEM \in Nat \ {0}
ASSUME QUANTUMAssumption == QUANTUM \in Nat \ {0}
ASSUME PriosAssumption == Prios \subseteq Nat \ {0}

VARIABLES
  currpid,   \* the running process
  preempt,   \* ticks left to it
  nextproc,  \* where newpid starts its search
  numproc,   \* processes alive, as the kernel counts them
  pstate,    \* proctab[].pstate
  pprio,     \* proctab[].pprio
  psem,      \* proctab[].psem
  pwaitret,  \* proctab[].pwaitret
  phasmsg,   \* proctab[].phasmsg
  pnxtkin,   \* proctab[].pnxtkin
  frame,     \* where each process goes on in the kernel
  qkey,      \* q[pid].qkey, shared by every list a process can be on
  rdy,       \* the ready list, from rdyhead to rdytail
  clockq,    \* the delta list of sleeping processes
  slnempty,  \* the clock interrupt looks at the list only when this is TRUE
  sltop,     \* the process whose key the clock interrupt decrements
  sstate,    \* semaph[].sstate
  semcnt,    \* semaph[].semcnt
  semq,      \* the queue between semaph[].sqhead and semaph[].sqtail
  nextsem    \* where newsem starts its search

cpuVars   == <<currpid, preempt, pstate, rdy, qkey>>
clockVars == <<clockq, slnempty, sltop>>
semVars   == <<sstate, semcnt, semq, nextsem>>
tableVars == <<nextproc, numproc, pprio, psem, pwaitret, phasmsg, pnxtkin>>
vars == <<cpuVars, clockVars, semVars, tableVars, frame>>

Pid == 0..NPROC - 1
Sem == 0..NSEM - 1
NULLPROC == 0
BADPID == -1
States == {"PRCURR", "PRFREE", "PRREADY", "PRRECV",
           "PRSLEEP", "PRSUSP", "PRWAIT", "PRTRECV"}

\* Faulty: the null process counts as any other.
isbadpidButNotNull(x) == x < 0 \/ x >= NPROC
isbadpid(x) == x <= 0 \/ x >= NPROC

(***************************************************************************)
(* Frames.  x and n are the locals the remainder of the call still needs.  *)
(***************************************************************************)
Points == {"user", "receive", "recvtim", "kill", "signaln", "sreset",
           "sdelete", "wakeup", "clpreem"}
At(point, x, n) == [at |-> point, x |-> x, n |-> n]
User == At("user", 0, 0)
Running(point) == frame[currpid].at = point

\* The running process may call `c': it is in user code, and it is not the
\* null process, which loops for ever (initialize.c, nulluser).
Calling(c) == c \in Calls /\ currpid # NULLPROC /\ Running("user")

\* newpid() and newsem(): the slots of a table of size N are tried from
\* `start' downwards, wrapping to N - 1, until one is free.
\* Faulty: the search does not wrap round.
SlotAfterNoWrap(start, i, N) == start - i
SlotAfter(start, i, N) == IF i <= start THEN start - i ELSE start - i + N
FreeSlots(start, N, used) == {i \in 0..N - 1 : SlotAfter(start, i, N) \notin used}
\* Faulty: the first slot tried is taken, free or not.
FoundSlotUntested(start, N, used) == SlotAfter(start, 0, N)
FoundSlot(start, N, used) == SlotAfter(start, Min(FreeSlots(start, N, used)), N)

-------------------------------------------------------------------------------
(***************************************************************************)
(* The lists of q[].                                                       *)
(***************************************************************************)

\* Faulty: insert() with the comparison the wrong way round, and one that lets
\* p go behind its equals.
InsertDescending(list, key, p, k) ==
  InsertAt(list, Min({i \in 1..Len(list) : key[list[i]] <= k} \cup {Len(list) + 1}), p)
InsertBehindEquals(list, key, p, k) ==
  InsertAt(list, Min({i \in 1..Len(list) : key[list[i]] > k} \cup {Len(list) + 1}), p)

\* insert(): p goes before the first entry whose key is not below k.
Insert(list, key, p, k) ==
  LET stop == {i \in 1..Len(list) : key[list[i]] >= k} \cup {Len(list) + 1}
  IN  InsertAt(list, Min(stop), p)

\* getfirst(): the head of the list, EMPTY when there is none.
EMPTY == -1
First(list) == IF list = <<>> THEN EMPTY ELSE Head(list)
Rest(list) == IF list = <<>> THEN <<>> ELSE Tail(list)

\* Faulty: nothing is unlinked.
DequeueNothing(list, p) == list

\* dequeue() unlinks p from whatever list it is on.
Dequeue(list, p) == RemoveFirst(list, p)

\* `list' holds exactly the processes of S, each once.
Holds(list, S) ==
  /\ \A p \in Pid : Contains(list, p) <=> p \in S
  /\ \A i, j \in 1..Len(list) : list[i] = list[j] => i = j

\* The fields of the tables that ready() and resched() work on, as the
\* kernel sees them in the middle of a call.
Tables == [pstate |-> pstate, rdy |-> rdy, qkey |-> qkey]
SetState(T, p, st) == [T EXCEPT !.pstate[p] = st]

\* ready(p, RESCHNO).  isbadpid refuses the null process.
Ready(T, p) ==
  IF isbadpid(p) THEN T
  ELSE [pstate |-> [T.pstate EXCEPT ![p] = "PRREADY"],
        rdy    |-> Insert(T.rdy, T.qkey, p, pprio[p]),
        qkey   |-> [T.qkey EXCEPT ![p] = pprio[p]]]

\* No reschedule: the tables become T and the running process keeps the CPU.
Keep(T) ==
  /\ pstate' = T.pstate
  /\ rdy' = T.rdy
  /\ qkey' = T.qkey
  /\ UNCHANGED currpid

\* resched() with the default class: the running process keeps the CPU only if
\* it is still PRCURR and every ready process has a smaller key; then preempt
\* keeps the value it has.  Otherwise the last entry of the ready list is
\* dispatched for a new quantum.
Resched(T, ticks) ==
  IF T.pstate[currpid] = "PRCURR" /\ (T.rdy = <<>> \/ T.qkey[Last(T.rdy)] < pprio[currpid])
  THEN Keep(T) /\ preempt' = ticks
  ELSE LET yields == T.pstate[currpid] = "PRCURR"
           key  == IF yields THEN [T.qkey EXCEPT ![currpid] = pprio[currpid]] ELSE T.qkey
           list == IF yields THEN Insert(T.rdy, T.qkey, currpid, pprio[currpid]) ELSE T.rdy
           old  == IF yields THEN [T.pstate EXCEPT ![currpid] = "PRREADY"] ELSE T.pstate
           new  == Last(list)
       IN  /\ currpid' = new
           /\ pstate' = [old EXCEPT ![new] = "PRCURR"]
           /\ rdy' = Front(list)
           /\ qkey' = key
           /\ preempt' = QUANTUM

\* Faulty: RESCHNO is passed instead.
ReadyNowNoResched(T, p) == Keep(Ready(T, p)) /\ UNCHANGED preempt

\* ready(p, RESCHYES).
ReadyNow(T, p) ==
  IF isbadpid(p) THEN Keep(T) /\ UNCHANGED preempt ELSE Resched(Ready(T, p), preempt)

\* The running process leaves its kernel code at `f' if it is switched out.
Leave(f) == frame' = [frame EXCEPT ![currpid] = f]
===============================================================================
