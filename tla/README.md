# A formal model of the XINU kernel of csc501

The repository holds four copies of XINU, a small teaching kernel in C for one
x86 processor, each extended by one assignment: `csc501-lab0` (instrumentation),
`csc501-lab1` (two scheduling classes), `csc501-lab2-qemu` (reader/writer locks
with priority inheritance) and `csc501-lab3` (demand paging). What the trees have
in common is modelled from lab 1, as are its scheduling classes; the locks are
modelled from lab 2 and demand paging from lab 3.

This directory holds TLA+ modules translated from that source, TLC runs that
check them on small instances, and theorems that hold for tables of every size,
checked by TLAPS. `PROJECT.json` ties each definition to its source lines.

## 1. The system

### Components, their state and their operations

| component (source) | state | operations | here |
|---|---|---|---|
| tables, ready list, dispatcher (`resched.c`, `ready.c`, `insert.c`, `getitem.c`, `queue.c`) | `proctab[]`, `q[]`, `currpid`, `preempt` | `ready`, `resched`, `insert`, `dequeue` | `KernelState` |
| processes (`create.c`, `resume.c`, `suspend.c`, `kill.c`, `chprio.c`, `setnok.c`) | process states, priorities, `nextproc`, `numproc`, next of kin | one system call each | `Processes` |
| semaphores (`screate.c` ... `sdelete.c`) | `semaph[]`, a queue each, `nextsem` | `screate wait signal signaln sreset sdelete` | `Semaphores` |
| messages (`send.c`, `receive.c`, `recvclr.c`, `recvtim.c`) | one slot per process | `send receive recvclr recvtim` | `Messages` |
| clock (`clkint.S`, `wakeup.c`, `insertd.c`, `sleep*.c`, `unsleep.c`) | delta list, `slnempty`, `sltop` | the interrupt, `sleep`, `unsleep` | `Clock` |
| locks of lab 2 (`lock.c`, `releaseall.c`, `lcreate.c`, `ldelete.c`, `chprio.c`, `kill.c`) | `locks[]`, lock queues, inherited priorities | `lcreate lock releaseall ldelete chprio kill` | `RWLock` |
| scheduling classes of lab 1 (`resched.c`: `agingsched`, `linuxsched`) | priorities and keys; goodness, shares, `epoch` | a branch of `resched` | `SchedClasses` |
| memory (`getmem.c`, `freemem.c`, `getstk.c`, `mem.h`) | `memlist` | allocate and free memory and stacks | `Memory` |
| buffer pools (`mkpool.c`, `getbuf.c`, `freebuf.c`) | `bptab[]`, a chain and a semaphore each | `mkpool getbuf nbgetbuf freebuf` | `Pools` |
| general priority queues (`gpq.c`) | `Q[]`, two arrays and a mutex each | `newq enq deq freeq` | `Gpq` |
| terminal and serial line (`tty/ttyiin.c`, `ttyread.c`, `ttycntl.c`, `com/comoutput.c`, `comintr.c`) | input line and its semaphore; output ring and its semaphore | `ttyiin ttyread nextc computc comintr` | `Terminal` |
| paging of lab 3 (`paging/*.c`, `resched.c`, `create.c`, `kill.c`) | frames, page tables, backing stores, replacement queues | the fault handler, the switch, `xmmap xmunmap get_bs release_bs vcreate create kill` | `Paging` |
| monitor, C library, configuration, lab 0 | | | not modelled |

Components interact through shared tables only. Nearly every system call turns
interrupts off with `disable(ps)`, changes the tables and may end in `ready(...,
RESCHYES)` or `resched()`, which gives the CPU to another process in the middle
of the call. `q[]` has exactly one entry per process: the ready list, the sleep
queue and all semaphore queues are threaded through it, so a process can be on
one list at most, and a mistake in one component corrupts another's list. The
clock interrupt works on the sleep queue through two cached variables and
reschedules from inside the interrupt.

### What is hard

There is one CPU, and the kernel is entered with interrupts disabled. So the
interleavings are those of *switches*: a call that reschedules before it is done
goes on later, in a state that others have changed. `kill()` does this in the
worst place: it sends a message to the next of kin, who may have the CPU at
once, before it looks at the state its victim is in. `receive`, `recvtim`,
`wait`, the clock interrupt and `releaseall()` have code behind a switch too.
The other difficulties are data kept twice by hand: `slnempty`/`sltop`
and the delta list; semaphore counts and queues; `lock_acquired[]` and
`plocksacquired[]`; a lock's priority and those of its waiters. `PROJECT.json`
lists the hazards line by line with the properties that cover them.

Not all code keeps interrupts disabled from end to end. `getbuf()`, `freebuf()`,
`enq()`, `deq()`, `newq()` and `ttyread()` let other processes in between a test,
a `wait()` and what they do next, without any `resched()` of their own: there
every point is one where the clock may take the CPU away. `get_bs()` of lab 3 never
turns them off, so that `vcreate()` may come between its test and what it sets. And
`ttyiin()`, which runs inside an interrupt, echoes with `computc()`, which may wait. In lab 3 the hardware
is an actor as well: it sets the accessed and dirty bits from which replacement
and the copies at a switch decide, and a page is in up to three places (frames of
several processes and the store).

## 2. The modules

`KernelState` <- `Clock` <- `Messages`, `KernelState` <- `Semaphores`; both meet in
`Processes`, and `Kernel` puts them together.

* **KernelState** has all variables of the kernel and what every part uses:
  `Insert` (`insert.c`), `Dequeue`, `Ready`, `Resched` (`defaultsched`),
  the circular search for a free slot. A list is a sequence of process ids from
  head to tail. `qkey` is one function for all lists, as in `q[]`. `Ready` and
  `Resched` work on a record of tables, so that a call may be followed through
  several changes in one step.
* **Frames.** `frame[p]` says where process `p` goes on in the kernel: `"user"`
  for user code, otherwise the point behind a `resched()` or inside a loop.
  `ctxsw` keeps the interrupt mask per process, so what is left of a call runs
  as soon as its process is dispatched and before any interrupt: a system
  call or a tick needs the current process at `"user"`; every other step needs
  it at that step's point. `ctxsw` itself comes as an object file
  (`ctxsw.S` is a stub) and is external.
* **Clock**: `Sleep`, and the interrupt as `Tick`, `WakeupNext` (once for each
  process that is due), `WakeupEnd`, `Clpreem`. `Residue` is what is left of a
  delay after each entry of the delta list, as `insertd()` computes it.
* **Semaphores**, **Messages**, **Processes**: one action per system call, and
  one per turn of its loop or rest after a switch. A call that is refused
  without an effect is no action; `CreateRefused` is one because `nextproc` has
  moved. `Kill` is the part of `kill()` up to the message, `KillEnd` the switch.
* **Kernel**: the state when `main()` runs, the next-state relation, fairness,
  the properties.
* **Alarms** is the abstract specification of the sleep queue: a map from
  sleepers to ticks left. **SleepTimes** states that `Kernel` implements it,
  with the sum of the deltas up to a process as its time left.
* **RWLock** is the lock package of lab 2. It leaves the dispatcher out: whoever
  is not blocked may run next, which covers every order that priorities, sleeps
  and preemption can produce. `releaseall()` is a call, a step for each lock
  and an end, since it reschedules after each lock it hands over.
  `priority_inherit()` is the loop `LastRound`: a round of it (`InheritRound`) is one
  turn of the innermost of the loops over the process table that its recursion has
  open. The operator gives it `Rounds` rounds; that it never needs them all is
  `InheritEnds`.
* **SchedClasses** has the two scheduling classes of lab 1, chosen once by
  `main()`, on tables of their own (`goodness`, `quantum`, `unused_quantum`,
  `epoch`). `linuxsched()` is `Pay`, `Deal` and `GiveAway` one after the other.
  What processes wait for is left out: a sleeper is due when the clock says so.
  Frames are as in `KernelState`: who is switched out inside the interrupt has
  `clpreem` before it.
* **Memory** is the free list by bytes: a set of blocks, since the code keeps it
  in the order of addresses. `held` has the memory given away, with its true
  length, so that `getstk()` rounding to 4 bytes and `freestk()` rounding to 8
  can differ. **MemoryProofs** proves its properties.
* **Tasks** has the processes and semaphores that the next three share: `doing[p]`
  is the rest of the call that `p` is in. Whoever does not wait may take the next
  step; `Kernel` has the dispatcher.
* **Pools** and **Gpq** extend `Memory` and `Tasks`: what they take with `getmem()`
  comes from the same list. Their calls are cut where interrupts are enabled or a
  `wait()` may block.
* **Terminal** extends `Tasks`: the input line between `ttyiin()` and its readers,
  the output ring between `computc()` and the transmitter's interrupt. `ttyiin()` is cut
  where its echo may wait for room in the ring: a line end is in the buffer then and not
  yet announced (`echoing`); `ttyiinAnnounces` is what comes behind the echo.
* **Services** puts these together with the stacks of `create()` and `kill()`. `kill()`
  is cut at its message to the next of kin, who may kill the same victim, so that
  `killEnds` may come to a slot that is free by then, or has another process: `stack`
  keeps `pbase` and `pstklen` of each slot as long as somebody is killing there. The
  module states that all this uses memory as the specification of `Memory` by itself
  allows (`UsesMemoryWell`): each step of the composition is a step of
  `MemoryNext` or leaves memory alone.
* **Paging** is lab 3: `bsm_tab[]`, `frame_tab[]`, page directories and tables, both
  replacement queues. Contents are abstracted to one bit: a copy of a page holds
  what was last written to it or something older. Each operation but `get_bs()` disables
  interrupts and is one step, on a record of the tables, including all that
  `free_frm()` does inside it. `GetBs` is the step of `get_bs()` that marks a store; the
  test before it is no guard of it, as `vcreate()` may have made the store private since.
  `VCreate` is also a `vcreate()` whose `create()` failed: for "process" -1 stores are taken
  all the same. `Switch` is `resched()` with its copies to and from shared stores.
* **MCKernel**, **MCRWLock**, **MCServices**, **MCPaging** give TLC the mixes of
  calls and the symmetries.
* **ListProofs** has the lemmas about lists; **KernelProofs** and
  **ClockProofs** the theorems about `Kernel`, the second on top of the first;
  **SchedProofs**, **MemoryProofs**, **ServicesProofs**, **PagingProofs** and **RWLockProofs**
  those about the classes, the free list, what the kernel lends, paging, and the locks
  (section 5).

`strayed`, `unlinked` and `broken` mark the point at which the source no longer says
what happens (a write into memory in use, a link taken from an empty chain, an
entry behind an array). The models stop there, and a property says when that
point can be reached at all.

In each module some operators are marked *Faulty*: variants of the next
definition with a plausible mistake. They are part of no specification; the
mutants of `PROJECT.json` put them in place of the original to show that each
property can tell the difference.

## 3. The runs

| run | shows | instance | distinct states |
|---|---|---|---|
| KernelSem | Three processes of two priorities on a semaphore that is signalled, reset, deleted and created again while they wait, are killed and have their priorities changed: counts, queues and states stay in step, waiters are served in order and `wait()` tells the truth. | 4 processes (null, main, 2 created before the start), 1 semaphore, quantum 1; priorities {1,2}, counts {0,1,2}, `MaxCount` 2 | 715,232 |
| KernelClock | Sleeps, timed receives, messages, suspends and kills against the clock interrupt: the delta list implements `Alarms`, and the pointer the interrupt follows is right. | 4 processes (null, main, 2 created before the start), 1 semaphore, quantum 1; priorities {1,2}, delays {0,1,2} | 2,300,425 |
| KernelKill | Kills overtaken at the message to the next of kin, with process slots freed and used again meanwhile: the lists survive it. | 4 processes (null, main, 2 created before the start), 1 semaphore, quantum 1; priority 1, count 0, next of kin process 2, `MaxCount` 1, `NumprocFloor` 0 | 492,460 |
| KernelLive | With a clock that ticks, processes of one priority that never give the CPU up share it, and every sleeper wakes. | 4 processes (null, main, 2 created before the start), 1 semaphore, quantum 1; priority 1, delays {0,1,2}, `FairSpec` | 2,324 |
| SchedClasses | Under both classes: shares are charged and dealt fairly, nobody idles while others are ready, ageing ends every wait, and every ready process runs. | 4 processes (null, main, 2 that are created), priorities {1,2}, quantum 1, `MaxDebt` 1, `MaxPrio` 3, `FairSpec` | 558,549 |
| Services | Memory, stacks, pools, queues and the console, used by processes that are interrupted anywhere: nothing is lost, lent twice, passed over or overwritten but where the code lets it. | 2 processes, a region of 32 bytes, stacks of 8 and 12; 1 pool of two buffers of 4 bytes; 1 queue of two places, 3 elements, 2 keys, both types; `COMBUFSZ` 3, `IBLEN` 3, 2 process slots, `MaxLeaked` 1, `MaxEchoes` 2 | 3,707,152 |
| Paging | Two processes sharing and unsharing a store through faults, replacement by either policy, switches and deaths: tables, frames and queues agree, and reads see the last write. | 2 processes, 6 frames, 1 store of 2 pages, 2 virtual pages, `Written` {1}, `MaxTotal` 2, `MaxLeaked` 0 | 2,564,408 |
| KernelNumproc | **Violated** (finding 1): one process counted out of `numproc` twice. | as KernelKill | counterexample |
| RWLock | Three processes and two locks under every call: the queues, the two records of who holds what, and the priorities kept by hand agree, and inheritance along the waits comes to an end. | 3 processes, 2 locks, lock priorities {1,2}, new priority 2, `MaxTime` 1, `MaxCalls` 4 | 2,831,107 |
| RWLockExclusion | **Violated**: a writer that was handed the lock is recorded as a reader and counted as nobody. | 3 processes, 1 lock, `MaxCalls` 5, `MaxTime` 0 | counterexample |
| RWLockInherit | **Violated**: a holder of two locks inherits through the wrong one. | 3 processes, 2 locks, `MaxCalls` 5, `MaxTime` 0 | counterexample |
| RWLockDelete | **Violated**: of the processes waiting for a deleted lock only the first is woken. | 3 processes, 1 lock, `MaxCalls` 5, `MaxTime` 0 | counterexample |

The bounds are constants, named in the modules: `MaxCount` (no signal raises a
count above it), `NumprocFloor` (kill is not called below it), `MaxCalls`,
`MaxTime` and `MaxCount` of `RWLock`. Three processes beside the null process
are what the hazards need: two that wait, sleep or are killed and one that acts,
or a victim, its killer and its next of kin; three entries are the least a delta
list needs for an insertion between two others. One semaphore suffices because
its slot is the one created again. Two clock ticks of delay, and 0, give equal,
smaller and larger deltas; a quantum of 1 makes every tick a preemption. The
kernel runs are not bounded in length: only the counters are. `RWLock` is bounded to
four calls besides `lcreate` and `releaseall` (it also passes with five when
time stands still): two that lock, one that waits and one that kills, deletes or
changes a priority. Its runs do not check deadlock: after the last
call, or in the loop of `ldelete()`, nothing more need happen. The kernel runs do:
the clock ticks on.

`SchedClasses`: `MaxPrio` ends ageing, which has no end in the code, and `MaxDebt`
is how far below 0 `preempt` may run where it is tested only after it is
decremented. Two processes beside `main()` give a waiting one, one that has just been
created and one that sleeps; shares of 2 to 4 ticks are used up, carried over
and cut by half.

`Services`: `use` (in `MCServices`) lets a run borrow, read the console or write to
it; the three share no variable but `doing` and the semaphore table, in which each
has semaphores of its own. 32 bytes are four blocks of 8, enough for a free block
with neighbours on both sides and for every request to fail. A stack of 12 is
the least that the two roundings disagree on. Two buffers and two places are the
least at which a process is let through beside another and one waits; three elements
fill a queue and wait for it. A ring of three has the two places of a line end and
one to lose. `MaxLeaked` bounds the stacks that a failing `create()` leaves behind,
`MaxEchoes` the line ends that are being echoed at a time: with two, a reader and another
line may come between a line and its announcement. Two slots and two processes that kill are
what it takes to kill a victim twice while somebody else has its memory, or its slot.

`Paging`: six frames are two directories, two page tables and two pages, so that
with two processes at work every further page is a replacement. `MaxTotal` bounds the
count of mappings of a store, which the code never limits; `Written` is the pages
that programs write to (they read both); `MaxLeaked` is the page tables that `kill()`
leaves behind, a leak that takes frames away and changes nothing else.

Deadlock is not checked in these three. `SchedClasses` and `Paging` may come to their
bounds, and `Paging` and `Services` stop at `strayed`, `unlinked` or `broken`; and in
`Services` processes really can wait for ever: for a buffer, for input, or, when as
many write a line end at a time as the ring has places, each for its second place
while the interrupt handler has nothing left to send (`comoutput.c:41`; needs
`COMBUFSZ` writers).

### Properties of the kernel

`KernelSem` and `KernelKill` check `QueuesMatchStates`, `KernelClock` checks
`ReceiverFindsMessage`: each where its calls are.

* `QueuesMatchStates`: each list holds exactly the processes whose state says so.
* `NullProcessRunnable`, `ReadyListSorted`: what `resched()` takes for granted.
* `CountsMatchQueues`: a negative count is the number of waiters, also when the
  semaphore was deleted with waiters and its slot used again.
* `WaitVerdict`, `WaitersInOrder`: `wait()` returns `DELETED` exactly when the
  semaphore was deleted; waiters are served in order.
* `ReceiverFindsMessage`: `receive()` never returns without a message.
* `SleepPointerValid`, `DeltasNotNegative`: what the interrupt takes for granted.
* `SleepImplementsAlarms`: nobody sleeps less than it asked for. The abstract
  specification lets a process whose delay was 0, overdue by the tick that wakes
  it, hold the others up by that one tick: the code does.
* `DispatchesHighest`: a call or an interrupt that makes a process ready returns
  to the most urgent one. Its run has no `chprio`, which neither requeues nor
  reschedules.
* `SleepersWake`, `ReadyRuns`: liveness, under the fairness of section 4.

### Properties of the locks

* `WaitersAgree`, `HoldersAgree`: the queue, the process table and the lock
  table tell the same.
* `LprioIsHighestWaiter`, `PriorityGivenBack`: the priorities kept by hand. The second is
  about those who gave all their locks back. Who lost one to `ldelete()` keeps what it
  inherited, as `DELETED` counts as held (`releaseall.c:109`); no property is about that.
* `InheritEnds`: the recursion that keeps them comes to an end.
* `LockQueueInOrder`, `HandedToTheMostUrgent`: who is served.

### Properties of the scheduling classes

* `RunsOnItsShare`: goodness and share, two records of the same thing, run out
  together, and whoever runs has between one tick and its whole share.
* `IdleOnlyWhenNobodyReady`: the null process runs only if no other is ready. It does
  not hold while `main()` owes ticks that it ran over before it chose the class.
* `EpochOnlyWhenSpent`: no new shares before the old ones are used.
* `ReadyRuns`: who is ready runs user code, whatever the others do.
* `AgingCatchesUp`: at each reschedule that leaves a process waiting, it gets closer
  to all that are ahead, which bounds its wait.

### Properties of memory, pools, queues and the console

* `MemoryApart`: free blocks are apart and merged; no byte is free and in use.
* `StraysExplained`: memory strays, or a stack is lost, only where a region or a stack is
  no multiple of 8 (the two roundings), or after a process was killed twice and its stack
  freed under whoever had that memory by then. The run reaches both.
* `UsesMemoryWell`: what is given back was given, once, with its size, also when the slot
  of a victim has another process before its killer goes on. The one exception is the
  stack of a process that was killed already (`kill.c:40`, `:42`), which `freemem()`
  refuses while it is free.
* `BuffersAccounted`: no buffer is lost or given twice, and the semaphore tells the
  truth up to those on their way. `mkpool()` does not look whether it got its
  semaphore; without one `getbuf()` takes from an empty chain, and `nbgetbuf()` never
  takes a buffer, as `scount()` is `SYSERR` then.
* `QueueInOrder`: greatest key first, equal keys in the order they came, unless two
  enqueue or two dequeue at a time.
* `OnlyRacesBreak`: only then, or when two `newq()` take one slot, can `q_count` run
  over or under. The run reaches both: `enq()` tests `q_count` before it takes the mutex.
  Queues that got no mutex are excepted, as `q_count` is then not changed in one piece.
* `LineAnnounced`: while a complete line is unread a reader is let in, though many
  lines are announced by one `signal()`. It does not hold after a read that took only
  part of a line: the rest is not announced again. Nor does it while a line end is being
  echoed, which may take until the ring has room (`ttyiin.c:79`): a reader may sleep over
  a line until then, and the announcement behind the echo makes good for it.
* `OutputKept`: each place of the ring is free, filled or promised; what is sent is
  what was written. A line end settles its place before it waits for its second: who
  writes meanwhile is overwritten (`overtaken`).

### Properties of paging

* `FramesMatchTables`: page tables and frame table tell the same; no frame has
  two pages and nothing of a dead process is left.
* `QueuesKnowPages`: both replacement queues hold the pages, under either policy.
* `StoresKept`: a store in use is not given up; a private one is not handed out, also
  when it is private to nobody, because `vcreate()` did not ask whether `create()` failed,
  or was marked by a `get_bs()` whose test came before it was made private.
* `ReadsLastWrite`: who reads a page finds what was last written to it through
  replacement, switches, unmapping and death, unless two processes had dirty copies
  of it at a time, one maps a store a second time, or a store was made private under
  another (`disputed`).

### Disagreements between the code and its comments

* `KernelNumproc`: `proc.h:71` calls `numproc` the "currently active processes".
  If the next of kin, woken by `kill()`, kills the victim too, it goes down twice.
* `RWLockExclusion`: `lock.c:108` lets a reader in if no writer has the lock. After
  a lock is handed to a writer, `type = READ` (`releaseall.c:77`) and the raised
  `lcnt` (`:47`) let readers and writers in beside it.
* `RWLockInherit`: `lock.c:124` promises inheritance for the holders.
  `priority_inherit()` compares the wrong priorities (`releaseall.c:111`), so a
  holder of two locks can inherit from the less urgent one.
* `RWLockDelete`: `ldelete.c:36` says that those waiting are woken; the loop wakes
  the first one for ever.

## 4. Fairness

`Kernel!FairSpec` asks weak fairness of `Continue` (code in the kernel runs on) and
strong fairness of `Tick`. A tick that comes while interrupts are disabled stays
pending in the interrupt controller and is taken when they are enabled next, so
it is only put off: enabled again and again, it happens. No process is assumed
to make any call, to finish or to give up the CPU. `ReadyRuns` holds for
processes of one priority; with two priorities the more urgent may run for
ever, by design.

`SchedClasses!FairSpec` asks strong fairness of `Tick` and that user code runs again
and again: a tick and what it leads to is a finite piece of code, and during it
nobody else takes a step. `ReadyRuns` is the point of the class: it holds although
no process ever gives the CPU up and others are created, killed and wake all the
time.

`RWLock!FairSpec` asks weak fairness of `Continue`: a process in the middle of a
call that may run goes on. It is needed to say that `ldelete()` runs, and it is the
loop there that refutes `DeletedLockWakes`.

## 5. What is proved

### The kernel

For every `NPROC >= 2`, `NSEM >= 1`, every quantum, set of priorities and mix of
calls (`NPROCAssumption` and the other assumptions on the constants, which TLC
evaluates on each run), every safety and action property of `Kernel` that the runs
check, each as a theorem about `Spec`:

| theorem | property | module |
|---|---|---|
| `QueuesAlwaysMatchStates` | `QueuesMatchStates` | `KernelProofs` |
| `NullProcessAlwaysRunnable` | `NullProcessRunnable` | `KernelProofs` |
| `ReceiverAlwaysFindsMessage` | `ReceiverFindsMessage` | `KernelProofs` |
| `WaitTellsTheTruth` | `WaitVerdict` | `KernelProofs` |
| `WaitersServedInOrder` | `WaitersInOrder` | `KernelProofs` |
| `CountsAlwaysMatchQueues` | `CountsMatchQueues` | `KernelProofs` |
| `SleepPointerAlwaysValid` | `SleepPointerValid` | `KernelProofs` |
| `ReadyListAlwaysSorted` | `ReadyListSorted` | `ClockProofs` |
| `TypesHold` | `TypeOK` | `ClockProofs` |
| `DeltasNeverNegative` | `DeltasNotNegative` | `ClockProofs` |
| `SleepQueueImplementsAlarms` | `SleepImplementsAlarms` | `ClockProofs` |
| `HighestAlwaysDispatched` | `DispatchesHighest` | `ClockProofs` |

`QueuesMatchStates` is not inductive: a call goes on after a switch and trusts
what its frame holds, `resched()` needs somebody on the ready list, and an update of a
table outside its domain would change nothing. The invariant of the proof is
`IInv == Dispatched /\ Blocked /\ Resumable`:

* `Dispatched`: the current process, the ready list, and the null process, running or
  on it;
* `Blocked`: the sleep queue and the semaphore queues;
* `Resumable`: a frame inside `kill` names a process that may be killed, one
  inside a loop names a semaphore; `nextproc` is in the table.

The argument has three layers. `ListProofs` shows what `InsertAt`,
`RemoveFirst`, `Tail`, `Front` and `Append` do to a list that holds a set of
elements, each once. `KernelProofs` then shows that `Ready` and `Resched` keep a
record of tables consistent (`ReadyQueued`, `ReschedDispatched`), and one lemma
for each way a process moves between lists (`WakeNow`, `BlockNow`,
`LeavesSleepers`, `JoinsWaiters`, ...). On these rest `ClockSteps`,
`MessageSteps`, `SemaphoreSteps` and `ProcessSteps`, with one step per action;
`NextIInv` puts them together.

The other theorems add invariants of their own to `IInv`, each with a lemma per
group of actions:

* `Mailboxes`: who is behind the switch in `receive()` has a message, since only
  `send()` makes a `PRRECV` process ready.
* `Looping`: only the running process is inside one of the loops that wake
  several processes, as those do not reschedule before their end. `WaitVerdict` and
  `WaitersInOrder` are action properties and follow from a case distinction
  on what a step may do to a semaphore's queue (`Passes`, `Joins`, `Wakes`).
* `Waiting`: a process in `wait()` is on the queue of its semaphore, and `pwaitret`
  tells it why it left.
* `Counting`: the count against the length of the queue, also for a slot that is free
  or inside `sdelete()`.
* `Pointed`, `Flags`: `slnempty` and `sltop` against the head of the delta list, through
  every way of putting in and taking out.
* `Ordered`: keys are integers and the ready list is sorted by them.
* `Deltas`: no delta is negative, and the interrupt's loop sees the head reach 0.
* `Fair` (for `DispatchesHighest`): keys on the ready list are the priorities, and
  nobody ready is above the running process unless that one is in a loop. `chprio()`
  breaks this, so the theorem is about mixes of calls without it (`"chprio" \notin
  Calls`); TLC checks the property with the same restriction.

`Residue` is a recursive function. What `insertd()` subtracts is reasoned about
through `Falls`, which says of a function that it counts the deltas off: one exists
for every list (`FallsExists`, from the least list length without one), and `Residue` is
it (`ResidueFalls`). The refinement maps each step of the clock component to a step of
`Alarms` or to none: `ClockStep` lists what may happen to the delta list (nothing, an entry
put in, an entry taken out, the head counted down, the head removed), and `AlarmStep`
shows for each that `Remaining` takes the abstract step.

### The scheduling classes

For every table of at least two processes, every quantum, all positive priorities and
any debt of `main()`'s: `EachRunsOnItsShare`, `IdleRunsLast`, `EpochsBeginWhenSpent` and
`AgingAlwaysCatchesUp` (`RunsOnItsShare`, `IdleOnlyWhenNobodyReady`, `EpochOnlyWhenSpent`,
`AgingCatchesUp`).

For the first three the invariant is `SchedInv`: under the aging class nobody has a share; under the
Linux-like class the tables are `Settled`: the ready list holds who is ready, one process
runs, goodness is never below what is left of a share and runs out with it, the
running process has between one tick and its share, and the null process leaves nobody
waiting but a `main()` that owes ticks. A call hands `linuxsched()` tables that are only
`Payable` (the running process may have blocked, or have no tick left), and it makes
them `Settled` (`LinuxFacts`): `PayFacts` for the charge, `EpochFacts` for the new shares,
`NotOverFacts` for the case in which everybody on the list has used up its share and yet
no epoch begins, `GiveAwayFacts` for the choice. `Spent` carries the condition
of a new epoch through it. The list is not sorted under this class, and nothing
depends on it.

For the fourth it is `AgingInv`: under the aging class the tables are `Aged`, the ready list
is in the order of its keys, also where `chprio()` has put a key out of date. `AgingFacts`
says who is raised, `DefaultFacts` that the one dispatched is not below any that
waits on when the keys are the priorities, and `Joined` that what runs before a
`resched()` (waking, blocking, dying) raises nobody. How far a process is behind is a sum over
the others that are alive: `SumsExist` gives the sums of all subsets at once, `SumsCompare`
compares two of them as one more process is counted, both with `UpToTheLast`, and
`BehindFalls` is what the step needs of them.

### Memory

For all regions that begin at a multiple of 8, have a multiple of 4 bytes and do
not touch (`RegionsAssumption`, what `sysinit()` makes), and all positive sizes
(`SizesAssumption`):

* `MemoryAlwaysApart`: `MemorySpec => []MemoryApart`
* `StraysAlwaysExplained`: `MemorySpec => []StraysExplained`

The second is not inductive: whether a stack is lost depends on where everything
begins and ends. The invariant is `MemoryInv == TypeOK /\ MemoryApart /\ AllEven`;
`AllEven` says that as long as nothing was `Odd` (uneven, or freed when it was no longer
its process's), each block and each area in use
begins at a multiple of 8, is a multiple of 8 long and lies in a region. `RoundUp`
has the arithmetic of the two macros, `CutApart` what `getmem()` and
`getstk()` do to the list, `MergeApart` what `freemem()` does: merging with the block
before and the block behind neither joins with a third nor covers anything in use.
`NeverRefused` shows that nothing even is refused. The actions follow, `FreestkAgain` among
them, and `MemoryInductive` puts them together. `FreeInRegion`, that free memory lies in the regions until
memory strays, is an invariant beside it (`FreeInRegionKeeps`): `Services` needs it to say where
a stack can have been. `MemoryUsedWell` (below) carries both to the pools,
queues and processes of `Services`.

### What the kernel lends

For any finite set of processes (`ProcsAssumption`), any numbers of semaphores (two at least,
for the drivers), pools, queues and places in the ring, any sizes of buffers and queues, any
elements and integer keys (the other assumptions on the constants; `AskedAssumption` says that
`Sizes` has what `mkpool()` and `newq()` ask for), every property that `Services` states or checks,
as a theorem about its `Spec`:

| theorem | property |
|---|---|
| `MemoryUsedWell` | `UsesMemoryWell`, a refinement of `MemorySpec` |
| `BuffersAlwaysAccounted` | `BuffersAccounted` |
| `QueuesAlwaysInOrder` | `QueueInOrder` |
| `OnlyRacesEverBreak` | `OnlyRacesBreak` |
| `LinesAlwaysAnnounced` | `LineAnnounced` |
| `OutputAlwaysKept` | `OutputKept` |

The invariant is `ServicesInv`. What the parts share has one part of it: `SemsOwned` says that every
semaphore in use belongs to one pool, queue or driver, and `MemoryInv` is the one of the free
list. Each part then has its own:

* `PoolsInv`: each buffer is in its chain, once, or with one process (`BuffersKept`), and the
  semaphore's count is the chain less those on their way (`PoolCounted`). A pool is never
  without a buffer for somebody let in because those let in are the ones in `getbuf()`
  that are not in the semaphore's row (`RowCounted`).
* `InputInv`: `Announcement`, in terms of who was let in and has not yet looked.
* `StacksInv`: each process has a stack of its own, in use, and who is in the middle of a
  `kill()` finds in its victim's slot what `create()` was given for a stack, be it that of
  the victim, of who has the slot by then, or one that was freed.
* `OutputInv`: the count is what the ring has left and nobody was promised, and until somebody is
  overtaken each character is in its place. `RingApart` shows that the places of a
  ring that is not overfull are different ones.
* `QueuesInv`: who has a queue to itself (`QueueLive`), the arrays as memory in use, each its own
  (`ArraysHeld`), the mutex (`MutexHeld`), and for a queue that nobody raced for `QueueOrdered`: what
  `q_count` is between `enq()`'s placing and its counting, and that the list is `Arranged` as
  the arrivals are. `PlacedArranged` and `ShiftedArranged` show that for `enq()` and `deq()`.

A wait is reasoned about through `QueueFits`: as many are in the row of a semaphore as its count
says, each once and each in a call on what the semaphore belongs to. `WaitFits` and `SignalFits`
show what `wait()` and `signal()` do to it. There is one lemma for each action (`getbufKeeps`,
`enqPlacesKeeps`, `ttyreadWaitsKeeps`, ...), which also says that the step is `Local`: no
call and no semaphore of another part changes. So the invariants of the others stay
(`PoolsAlone`, `QueuesAlone`, `ConsoleAlone`), and `ServicesInductive` puts all together.
The refinement follows from the same invariant: `LentUsesWell` shows that what `freeq()` gives back is in
use as `newq()` got it, which is `ArraysHeld`, and that of a stack `StacksInv`.

### Demand paging

For any processes, any positive numbers of frames, stores, pages of a store, virtual pages
and entries of a page table (`ProcsAssumption`, `SizesAssumption`), and any heaps and bounds
(`HeapsAssumption`, `BoundsAssumption`), every property of `Paging` that the run checks:

| theorem | property |
|---|---|
| `FramesAlwaysMatchTables` | `FramesMatchTables` |
| `QueuesAlwaysKnowPages` | `QueuesKnowPages` |
| `StoresAlwaysKept` | `StoresKept` |
| `EveryoneReadsLastWrite` | `ReadsLastWrite` |

None of the four is inductive alone. A page that is replaced goes to the store that
`bsm_lookup()` finds for it, so the contents depend on the page tables, the mappings and
the queues; and what a process reads at this moment says too little about what it will
read after a switch. The invariant is `PagingInv`; its main part, `Sound(M, D)`, is about the record
of tables that the operations work on, with `D` the pages that are `disputed`:

* `Framed` and `Directed`: frames against page tables and directories, both ways;
* `Queued`: the list of the first policy, and the count and pointer of the second;
* `Stored`: who maps a store is alive and counted, a private store is in use;
* `Apart`: no process maps two stores at a page, so that `bsm_lookup()` finds the only one;
* `Fresh`: what was last written to a page of a store is in the store or in a frame
  that is `Ahead` of it, and in every frame that `Counts`. A frame counts when its
  content goes back to the store or its process can read it as it is: dirty, of the running
  process, or of a private store. The clean frames of others do not count, as
  `resched()` loads them again.

The argument follows the code from the inside out. `LookupFinds` and `PageFacts` say
what `bsm_lookup()` finds. `FreeFrameKeeps`, `GetFrameFinds`, `WithPageTableKeeps`,
`LoadKeeps`, `SwitchToKeeps`, `MapKeeps` and `UnmapKeeps` show for `free_frm()`, `get_frm()`,
`pfint()`, `resched()`, `bsm_map()` and `bsm_unmap()` that each keeps `Sound`, or sets
`strayed`. The loops of `kill()` and `vcreate()` are recursive functions. What
they compute is reasoned about as in a program with an invariant: `UpToTheLast` takes a round that
keeps something to the last round, by way of the least one that does not.
`WithoutProcessKeeps` and `WithHeapKeeps` rest on it. `TakenKeeps` is about the stores that
`vcreate()` takes for nobody, `StatusKeeps` about marks on a store that change nothing for
those who map it, which is what `GetBs` comes to without its test. `InstallKeeps` goes from the record
to the variables. Then there is one lemma for each action (`CreateKeeps`, ...,
`SwitchStep`), which `StepKeeps` puts together, and one for each property that follows
(`FramesFit`, `QueuesFit`, `StoresFit`, `ReadsFit`).

`ReadsLastWrite` leaves out the pages that are `disputed`, and the proof shows that it need not
leave out more. There are three ways to get there: a `Write` to a page of which
another process has a dirty copy, or that is private and mapped by another; `xmmap()` of a store
that the process has mapped elsewhere and changed there; and `vcreate()` taking
over a store that somebody still maps.

### The locks

For any finite set of processes, any number of locks, any priorities above 0 and any
bounds (`ProcsAssumption`, `NLOCKSAssumption`, `PriosAssumption`, `BoundsAssumption`;
`StrayAssumption` for `q[-1]`, see section 6), every property that the run `RWLock` checks:

| theorem | property |
|---|---|
| `LocksTyped` | `TypeOK` |
| `WaitersAlwaysAgree` | `WaitersAgree` |
| `HoldersAlwaysAgree` | `HoldersAgree` |
| `LprioAlwaysHighest` | `LprioIsHighestWaiter` |
| `PriorityAlwaysGivenBack` | `PriorityGivenBack` |
| `InheritAlwaysEnds` | `InheritEnds` |
| `LockQueueAlwaysInOrder` | `LockQueueInOrder` |
| `AlwaysHandedToTheMostUrgent` | `HandedToTheMostUrgent` |

The invariant is `LocksInv`. To the properties it adds what they lean on:

* `QueuesRight`: each queue holds exactly the processes that wait for that lock, each once
  (`WaitersAgree` in the form that the lemmas about lists use);
* `WaitersReal`: who waits has a key and a type, and does not hold what it waits for;
* `TimesPast`: nobody began to wait later than now, so a waiter put before its equals
  is the last of them to have come;
* `FreeUnheld`, `DeletingForEver`: a free lock has no holders, and has waiters only while
  `ldelete()` is in its loop: `lcreate()`, which needs interrupts, finds an empty queue;
* `EndsAhead`: a `releaseall()` that was switched out still has its end before it, where
  `PriorityGivenBack` is made good (`InheritAndReturnKeeps`).

`priority_inherit()` works on a record of the tables (`Prios`). `Fits(T, L)` says that
each lock of `L` has the greatest priority of its waiters; `VisitedKeeps` shows that one
visit keeps it, although the visit changes the priority of a process that waits
elsewhere: that process waits for one lock only, the one whose priority the visit computes again.
`InheritRoundKeeps` and `PriorityInheritKeeps` take this through the recursion. `chprio()`
and `kill()` break it for one lock, which `Requeued` puts right (`RequeuedFits`). Dequeueing, the
best of the locks held and the recursion are loops: `LoopsExist` and `UpToTheLast`
(see *Demand paging*) serve all of them.

That the recursion ends needs one more invariant, `Ascending`: who waits, waits for a
lock above all it holds. It rests on `InOrder` and on what is not obvious from it: a process
that was handed a lock waits for none when it runs again; and the one that `ldelete()`
wakes, which still says that it waits, could break it, but `ldelete()` never
comes back. A visit to a process whose lock has `n - 1` above it then needs no
more than `most[n]` rounds, whatever `priority_inherit()` changes meanwhile, as it changes
neither who waits nor who holds (`LevelsEnd`, by one level after another; `LoopEnds` within a
level, by the number of processes the loop has still to come to). `InheritReturns` puts
them together. TLC compared `LastRound` with a RECURSIVE operator that follows the code call by
call, on all states of the run: they agree.

### Model-checked only

* The liveness properties (`SleepersWake` and `ReadyRuns` of both modules):
  TLAPS proves nothing under fairness.

## 6. What is not modelled

* In `Kernel`: the stack of a process (`Services` has it), its devices and file
  descriptors; its name and arguments; the
  contents of messages; the time of day; `printf`.
* Semaphores and processes made at start-up by `clkinit()` and the terminal driver.
  `Init` has the null process, `main()` and `NBORN` processes it has created.
* 32-bit overflow of delays (`recvtim.c:25`), counts and `numproc`.
* In `RWLock`: of what is on the list given to `releaseall()`, only the locks that the caller
  holds, each once, in any order: the rest is skipped (`releaseall.c:28`) and changes
  nothing. The message that `kill()` sends. A new process in the slot of a killed one. Its predecessor's
  entries in `lock_acquired[]` are still set, and `priority_inherit()` can then
  recurse without end. Circular waits are excluded for the same reason (`InOrder`), by
  processes that take locks in ascending order. `InheritEnds` says that nothing else
  stands in its way. `q[-1]`, which `release_lock()` reads when only readers or
  only writers wait, is taken to have a key below every waiter's (`StrayKey`,
  `StrayAssumption`); with a higher key a lone writer would never be handed the
  lock.
* In `Kernel`, known and without a property: `recvtim.c:25` multiplies by 1000 and
  overflows; `setnok()` keeps an id whose slot may have a new process by the time the
  message is sent; `chprio.c:24` leaves a ready process where it was in the list. The
  model does the last two as the code does; nothing in the repository says what
  else is expected.
* In `SchedClasses`: semaphores, messages and delays, which `Kernel` has; a change of
  class after `main()` has made it.
* In `Pools` and `Gpq`: `bpmaxused` and `q_seen`, which nothing depends on; `headq()`,
  `seeq()` and `lenq()`, which only look. A failing `newq()` leaves its slot taken
  for good: the model does so too.
* In `Terminal`: modes that nothing sets, synchronous output, opening and closing,
  the interrupt character, and reprinting. The echo is one of the calls of `computc()`, and
  what `ttyiin()` does after it waits with it; that the process it is called in is one that
  was interrupted, maybe in another call, is not modelled: that call may take as long as it
  likes anyway. When the null process is interrupted and its echo has to wait, `resched()` finds
  the ready list empty; `Tasks` has no dispatcher and says nothing of that.
* In `Paging`: `vgetmem()` and `vfreemem()`, a free list inside a mapped store;
  `fr_refcnt`, `fr_dirty` and the control registers; which process is next. Programs
  touch only pages they map: elsewhere `pfint.c:58` ignores that `bsm_lookup()` failed.
  `paging_helper.c:148` indexes `frame_tab[]` with an absolute frame number and counts
  down a word behind it, and `free_frm()` does not flush the processor's translations:
  the model may stop whenever a page is removed, or goes on as if neither mattered.
  `release_bs.c:20` returns with interrupts disabled. A `vcreate()` that did not see `create()`
  fail hangs the list of its heap up in `proctab[-1]`, and a `kill()` whose next of kin has
  killed the victim first (`kill.c:42`) frees a directory `pdfrm` that has no value: after
  either the model may stop, or goes on as if nothing was hit. The run has one store, so that
  `bsm_unmap()` taking the pages of other mappings too is left to the theorems.
* Lab 0 counts system calls and prints stacks: it reads what the other labs have and
  changes nothing. The monitor, `pci.c`, descriptor tables, the interrupt controller and
  the UART's set-up talk to devices. The C library and the lexer and parser of the
  configuration tool are vendored or generated.

The map covers a small share of the lines in the repository, and would if everything
above were added: four trees are near copies of one another (each line is mapped in
one), and most of their lines are the library, headers, generated parsers, drivers and
the monitor.

## 7. Plan

1. *(done)* The kernel common to all labs; the locks of lab 2; the first theorems.
2. *(done)* The scheduling classes of lab 1; memory, pools, queues and the console;
   paging of lab 3; the theorems about the free list.
3. *(done)* Proofs about `Kernel` and `SchedClasses`: all their safety and action properties.
4. *(done)* Proofs about `Paging`: all its properties.
5. *(done)* Proofs about the services: `UsesMemoryWell` as a refinement for every size, and all
   properties of pools, queues and the console.
6. *(done)* Proofs about `RWLock`: all its properties, and that `priority_inherit()` ends.
7. `vgetmem()` and `vfreemem()` on the blocks of `Memory`.
