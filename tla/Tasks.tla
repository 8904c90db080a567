--------------------------------- MODULE Tasks ---------------------------------
(***************************************************************************)
(* The processes that use pools, queues and the terminal, and the          *)
(* semaphores they wait on (csc501-lab1/sys/wait.c, signal.c, screate.c,   *)
(* sdelete.c).  Kernel has the whole of these calls; here a process that   *)
(* does not wait may take its next step at any time, whoever the           *)
(* dispatcher would choose, since the clock may interrupt a process        *)
(* wherever it has interrupts enabled.                                     *)
(***************************************************************************)
EXTENDS Integers, Sequences, FiniteSets

CONSTANTS
  Procs,
  NSEM,
  COMBUFSZ     \* what the semaphore of the serial line starts with

ASSUME ProcsAssumption == IsFiniteSet(Procs)
ASSUME SemaphoresAssumption == NSEM \in Nat /\ NSEM >= 2 /\ COMBUFSZ \in Nat \ {0}

VARIABLES
  doing,       \* the rest of the call each process is in
  semaph       \* semaph[]: sstate, semcnt and the queue

tasks == <<doing, semaph>>

SYSERR == -1
Semaphores == 0..NSEM - 1
Free == [used |-> FALSE, semcnt |-> 0, queue |-> <<>>]
Counting(count) == [used |-> TRUE, semcnt |-> count, queue |-> <<>>]
Idle == [call |-> "idle"]

\* The drivers get theirs when the system starts: com_osema and tty_isema.
OSEMA == NSEM - 1
ISEMA == NSEM - 2

TasksInit ==
  /\ doing = [p \in Procs |-> Idle]
  /\ semaph = [s \in Semaphores |-> CASE s = OSEMA -> Counting(COMBUFSZ)
                                      [] s = ISEMA -> Counting(0)
                                      [] OTHER -> Free]

Blocked(p) == \E s \in Semaphores : \E i \in DOMAIN semaph[s].queue : semaph[s].queue[i] = p

Calls(p) == doing[p] = Idle
At(p, call) == doing[p].call = call /\ ~Blocked(p)
Goes(p, rest) == doing' = [doing EXCEPT ![p] = rest]
Returns(p) == Goes(p, Idle)

\* A semaphore that is free or was never had is left alone.
Known(s) == s \in Semaphores /\ semaph[s].used

\* wait() and signal(), on a table of semaphores.
Waited(table, p, s) ==
  [table EXCEPT ![s].semcnt = @ - 1,
                ![s].queue = IF table[s].semcnt < 1 THEN Append(@, p) ELSE @]

Signalled(table, s) ==
  [table EXCEPT ![s].semcnt = @ + 1,
                ![s].queue = IF table[s].semcnt < 0 THEN Tail(@) ELSE @]

wait(p, s) == IF Known(s) THEN Waited(semaph, p, s) ELSE semaph

signal(s) == IF Known(s) THEN Signalled(semaph, s) ELSE semaph

\* screate() takes any free semaphore: which one is of no account here.
newsem == IF \E s \in Semaphores : ~semaph[s].used
          THEN CHOOSE s \in Semaphores : ~semaph[s].used
          ELSE SYSERR

screate(s, count) == IF s = SYSERR THEN semaph ELSE [semaph EXCEPT ![s] = Counting(count)]

\* Whoever waits is released.
sdelete(s) == IF Known(s) THEN [semaph EXCEPT ![s] = Free] ELSE semaph
===============================================================================
