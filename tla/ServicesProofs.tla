------------------------------ MODULE ServicesProofs ------------------------------
(***************************************************************************)
(* What the kernel lends, for any processes, sizes and numbers of pools,   *)
(* queues and semaphores: memory is used as Memory expects it, no buffer   *)
(* is lost, lines and characters are kept, and queues stay in order unless *)
(* calls of one kind race.                                                 *)
(*                                                                         *)
(* The parts share the processes, the semaphores and the free memory.      *)
(* Each part has an invariant of its own, about its calls and its          *)
(* semaphores; a step of one part leaves those of the others alone.        *)
(***************************************************************************)
EXTENDS Services, MemoryProofs, ListProofs

PoolCalls == {"getbuf", "freebuf"}
QueueCalls == Enqueuing \cup Dequeuing \cup {"newq", "newqKeys", "freeq"}
InputCalls == {"ttyread", "ttyreadEnd", "ttyreadTakes", "nextc"}
OutputCalls == {"computc", "computcLine"}

\* The processes in one of the calls, and those in one on a pool.
InCall(calls) == {p \in Procs : doing[p].call \in calls}
OnPool(calls, pool) == {p \in Procs : doing[p].call \in calls /\ doing[p].pool = pool}

-------------------------------------------------------------------------------
\* Who waits at a semaphore.
Row(sem) == {sem.queue[i] : i \in 1..Len(sem.queue)}

\* Of a semaphore at which those of W may wait: as many wait as its count says, each once.
QueueFits(sem, W) ==
  /\ Len(sem.queue) = (IF sem.semcnt < 0 THEN -sem.semcnt ELSE 0)
  /\ \A i \in 1..Len(sem.queue) : sem.queue[i] \in W
  /\ \A i, j \in 1..Len(sem.queue) : sem.queue[i] = sem.queue[j] => i = j

\* The semaphores that pools and queues have.
PoolSems == {bptab[pool].bpsem : pool \in DOMAIN bptab} \ {SYSERR}
Mutexes == {Q[q].mutex : q \in Queues} \ {SYSERR}

\* Types of what all calls share.
TasksTyped ==
  /\ doing = [p \in Procs |-> doing[p]]
  /\ semaph \in [Semaphores -> [used : BOOLEAN, semcnt : Int, queue : Seq(Procs)]]

\* Every semaphore in use belongs to one driver, pool or queue.
SemsOwned ==
  /\ PoolSems \cup Mutexes \subseteq Semaphores
  /\ PoolSems \cap Mutexes = {}
  /\ OSEMA \notin PoolSems \cup Mutexes /\ ISEMA \notin PoolSems \cup Mutexes
  /\ \A i, j \in DOMAIN bptab : bptab[i].bpsem = bptab[j].bpsem /\ bptab[i].bpsem # SYSERR => i = j
  /\ \A q, r \in Queues : Q[q].mutex = Q[r].mutex /\ Q[q].mutex # SYSERR => q = r
  /\ \A s \in Semaphores : semaph[s].used <=> s \in PoolSems \cup Mutexes \cup {OSEMA, ISEMA}
  /\ \A s \in Semaphores : ~semaph[s].used => semaph[s] = Free

-------------------------------------------------------------------------------
\* The buffers of a pool that were given out.
Out(pool) == {buf \in UNION {buffers[p] : p \in Procs} : buf[1] = pool}

Pool == [bptotal : Nat, bpsem : Semaphores \cup {SYSERR}, bpnext : Seq(Nat)]

PoolsTyped ==
  /\ bptab \in Seq(Pool)
  /\ buffers \in [Procs -> SUBSET (Nat \X Nat)]
  /\ \A p \in Procs : doing[p].call \in PoolCalls =>
       /\ doing[p] = [call |-> doing[p].call, pool |-> doing[p].pool]
       /\ doing[p].pool \in DOMAIN bptab
  /\ unlinked \in BOOLEAN

PoolKept(pool) ==
  LET chain == bptab[pool].bpnext IN
  /\ IsFiniteSet(Out(pool))
  /\ Len(chain) + Cardinality(Out(pool)) = bptab[pool].bptotal
  /\ \A i, j \in 1..Len(chain) : chain[i] = chain[j] => i = j
  /\ \A i \in 1..Len(chain) : <<pool, chain[i]>> \notin Out(pool)

\* Every buffer of a pool is in its chain, once, or with one process.
BuffersKept ==
  /\ \A p \in Procs : \A buf \in buffers[p] : buf[1] \in DOMAIN bptab
  /\ \A p, q \in Procs : p # q => buffers[p] \cap buffers[q] = {}
  /\ \A pool \in DOMAIN bptab : PoolKept(pool)

\* The semaphore of a pool counts the buffers that nobody was let in for.
PoolCounted(pool) ==
  LET B == bptab[pool] IN
  B.bpsem # SYSERR =>
    /\ QueueFits(semaph[B.bpsem], OnPool({"getbuf"}, pool))
    /\ semaph[B.bpsem].semcnt = Len(B.bpnext) - Cardinality(OnPool({"getbuf"}, pool))
                                              - Cardinality(OnPool({"freebuf"}, pool))

PoolsInv ==
  /\ PoolsTyped /\ BuffersKept
  /\ \A pool \in DOMAIN bptab : PoolCounted(pool)
  /\ unlinked => \E pool \in DOMAIN bptab : bptab[pool].bpsem = SYSERR

-------------------------------------------------------------------------------
Characters == {"x", " ", "\n", "eof", "erase", "werase"}

LineTyped == \E i \in DOMAIN line : line[i] \in {"\n", "eof"}

\* A line is announced by the count, or somebody was let in and has not yet gone on.
Announcement ==
  LineTyped /\ ~rest /\ echoing = 0 =>
    \/ semaph[ISEMA].semcnt > 0
    \/ \E p \in InCall({"ttyreadTakes", "nextc"}) : p \notin Row(semaph[ISEMA])

InputInv ==
  /\ line \in Seq(Characters) /\ eof \in BOOLEAN /\ rest \in BOOLEAN /\ echoing \in Nat
  /\ \A p \in Procs : doing[p].call = "ttyread" =>
       doing[p] = [call |-> "ttyread", len |-> doing[p].len] /\ doing[p].len \in Nat
  /\ \A p \in Procs : doing[p].call = "ttyreadTakes" => doing[p].len \in Nat
  /\ QueueFits(semaph[ISEMA], InCall({"ttyreadTakes", "nextc"}))
  /\ Announcement

\* Places that were promised to processes, who get one with each wait().
Writers(call) == {p \in Procs : doing[p].call = call}
Promised == Cardinality(Writers("computc")) + 2 * Cardinality(Writers("computcLine"))

Sendable == {"x", "\r", "\n"}

OutputInv ==
  /\ com.start \in 0..COMBUFSZ - 1 /\ com.count \in 0..COMBUFSZ
  /\ com = [start |-> com.start, count |-> com.count, buf |-> com.buf]
  /\ com.buf = [i \in 0..COMBUFSZ - 1 |-> com.buf[i]]
  /\ written \in Seq(Procs \X Sendable)
  /\ thre \in BOOLEAN /\ ier \in BOOLEAN /\ overtaken \in BOOLEAN
  /\ \A p \in Procs : doing[p].call = "computc" => doing[p].ch \in {"x", "\n"}
  /\ \A p \in Procs : doing[p].call = "computcLine" => doing[p].pos \in 0..2 * COMBUFSZ
  /\ QueueFits(semaph[OSEMA], InCall(OutputCalls))
  /\ semaph[OSEMA].semcnt = COMBUFSZ - com.count - Promised
  /\ com.count = Len(written)
  /\ ~overtaken => \A i \in 1..Len(written) : com.buf[Ring(com.start + i - 1)] = written[i]

-------------------------------------------------------------------------------
\* Processes in newq() or freeq() that have queue q to themselves.
Making(q) == Past({"newqKeys", "freeq"}, q)
Holding(q) == Past({"enqPlaces", "enqCounts", "deqShifts", "deqCounts"}, q)

\* The arrays of a queue that it still has.
ArraysOf(q) == IF Past({"freeq"}, q) = {} THEN 1..Len(arrays[q]) ELSE {1}

QueueTyped(q) ==
  /\ Q[q] = [valid |-> Q[q].valid, type |-> Q[q].type, max |-> Q[q].max,
             count |-> Q[q].count, mutex |-> Q[q].mutex, list |-> Q[q].list]
  /\ Q[q].valid \in BOOLEAN /\ Q[q].max \in QueueSizes \cup {0}
  /\ Q[q].valid => Q[q].max \in QueueSizes
  /\ NoWait(q) => Q[q].mutex = SYSERR
  /\ ~Q[q].valid => Q[q] = NoQueue /\ arrived[q] = <<>>

CallTyped(p) ==
  LET d == doing[p] IN
  /\ d.call \in QueueCalls => d.q \in Queues
  /\ d.call \in Enqueuing => d = [call |-> d.call, q |-> d.q, entry |-> d.entry]
                             /\ d.entry \in [key : Keys, elt : Elements]
  /\ d.call \in Dequeuing => d = [call |-> d.call, q |-> d.q]
  /\ d.call = "newq" => d.size \in QueueSizes /\ d.type \in QueueTypes

QueuesTyped ==
  /\ Q = [q \in Queues |-> Q[q]] /\ arrays = [q \in Queues |-> arrays[q]]
  /\ arrived = [q \in Queues |-> arrived[q]]
  /\ usable \subseteq Queues /\ raced \subseteq Queues /\ broken \in BOOLEAN
  /\ \A q \in Queues : QueueTyped(q)
  /\ \A p \in Procs : CallTyped(p)

\* A queue is used between newq() and freeq(), which have it to themselves.
QueueLive(q) ==
  /\ InUse(q) => q \in usable
  /\ q \in usable => Making(q) = {} /\ Len(arrays[q]) = 2
  /\ \A p, r \in Making(q) : p = r
  /\ q \in usable \/ Making(q) # {} => Q[q].valid
  /\ Past({"newqKeys"}, q) # {} => Len(arrays[q]) <= 1
  /\ Past({"freeq"}, q) # {} => Len(arrays[q]) = 2
  /\ NoWait(q) => Past({"enq", "enqCounts", "deq", "deqCounts"}, q) = {}
  /\ ~Q[q].valid => arrays[q] = <<>>

\* The arrays of the queues are memory in use, every one its own.
ArraysHeld ==
  /\ \A q \in Queues : arrays[q] \in Seq(Areas)
  /\ \A q \in Queues : \A i \in ArraysOf(q) :
       /\ arrays[q][i] \in held /\ arrays[q][i].use = "heap"
       /\ \A r \in Queues : \A j \in ArraysOf(r) : arrays[q][i] = arrays[r][j] => q = r /\ i = j

\* The mutex of a queue lets in one at a time.
MutexHeld(q) ==
  Q[q].mutex # SYSERR =>
    /\ QueueFits(semaph[Q[q].mutex], Past({"enqPlaces", "deqShifts"}, q))
    /\ semaph[Q[q].mutex].semcnt = 1 - Cardinality(Holding(q))

\* A list of n entries in the order of keys, and of arrival among equals.
Arranged(list, n, came) ==
  /\ n = Len(came)
  /\ \A i \in 1..n : \E k \in 1..n : list[i] = came[k]
  /\ \A k \in 1..n : \E i \in 1..n : list[i] = came[k]
  /\ \A i, j, k, l \in 1..n : i < j /\ list[i] = came[k] /\ list[j] = came[l] =>
       \/ list[i].key > list[j].key
       \/ list[i].key = list[j].key /\ k < l

Entries == [key : Keys, elt : Elements]

QueueOrdered(q) ==
  /\ \A p, r \in Past(Enqueuing, q) : p = r
  /\ \A p, r \in Past(Dequeuing, q) : p = r
  /\ Q[q].valid /\ (NoWait(q) \/ Q[q].mutex # SYSERR) =>
    /\ Q[q].count \in 0..Q[q].max
    /\ arrived[q] \in Seq(Entries)
    /\ Q[q].list \in Seq(Entries \cup {NOTHING}) /\ Len(Q[q].list) = Q[q].max
    /\ Past({"enqCounts"}, q) # {} => Past({"deqCounts"}, q) = {}
    /\ Q[q].count = IF Past({"enqCounts"}, q) # {} THEN Len(arrived[q]) - 1
                    ELSE IF Past({"deqCounts"}, q) # {} THEN Len(arrived[q]) + 1
                    ELSE Len(arrived[q])
    /\ Past(Enqueuing, q) # {} => Q[q].count < Q[q].max
    /\ Past(Dequeuing, q) # {} => Q[q].count > 0
    /\ \A i, j \in 1..Len(arrived[q]) : arrived[q][i].elt = arrived[q][j].elt => i = j
    /\ \A p \in Past({"enq", "enqPlaces"}, q) : \A i \in 1..Len(arrived[q]) :
         arrived[q][i].elt # doing[p].entry.elt
    /\ Arranged(Q[q].list, Len(arrived[q]), arrived[q])

BrokenByRaces ==
  broken => \E q \in Queues :
    \/ q \in raced
    \/ ~NoWait(q) /\ Q[q].mutex = SYSERR
    \/ Q[q].valid /\ Past({"newq"}, q) # {}

QueuesInv ==
  /\ QueuesTyped /\ ArraysHeld /\ BrokenByRaces
  /\ \A q \in Queues : QueueLive(q) /\ MutexHeld(q)
  /\ \A q \in Queues \ raced : QueueOrdered(q)

\* What create() may have been given for a stack.
StackGiven(h) ==
  \E r \in Regions, n \in StackSizes : \E at \in r.at..End(r) : h = Area(at, roundew(n), "stack")

\* Every process has a stack of its own, and a killer finds the one of its victim, or of
\* who has the slot by then, or what is left behind in the slot.
StacksInv ==
  /\ alive \subseteq Pids /\ stack = [pid \in Pids |-> stack[pid]]
  /\ \A pid \in alive : stack[pid] \in held /\ stack[pid].use = "stack" /\ StackGiven(stack[pid])
  /\ \A a, b \in alive : stack[a] = stack[b] => a = b
  /\ \A p \in Procs : doing[p].call = "kill" =>
       /\ doing[p] = Killing(doing[p].pid) /\ doing[p].pid \in Pids
       /\ StackGiven(stack[doing[p].pid])

-------------------------------------------------------------------------------
(***************************************************************************)
(* Semaphores.                                                             *)
(***************************************************************************)
Sems == [used : BOOLEAN, semcnt : Int, queue : Seq(Procs)]

\* There are semaphores enough for the drivers.
LEMMA Drivers ==
  /\ OSEMA \in Semaphores /\ ISEMA \in Semaphores /\ OSEMA # ISEMA
  /\ SYSERR \notin Semaphores
  /\ COMBUFSZ \in Nat /\ COMBUFSZ >= 1
  /\ IsFiniteSet(Procs)
BY SemaphoresAssumption, ProcsAssumption DEF OSEMA, ISEMA, Semaphores, SYSERR

\* Sets of processes are finite.
LEMMA SomeProcs ==
  ASSUME NEW W \in SUBSET Procs
  PROVE  IsFiniteSet(W) /\ Cardinality(W) \in Nat
BY Drivers, FS_Subset, FS_CardinalityType

\* As many wait as the count says; the others of W do not.
LEMMA RowCounted ==
  ASSUME NEW sem \in Sems, NEW W \in SUBSET Procs, QueueFits(sem, W)
  PROVE  /\ Row(sem) \subseteq W
         /\ Cardinality(Row(sem)) = Len(sem.queue)
         /\ Cardinality(W \ Row(sem)) = Cardinality(W) - Len(sem.queue)
         /\ Len(sem.queue) \in Nat
         /\ Len(sem.queue) = (IF sem.semcnt < 0 THEN -sem.semcnt ELSE 0)
<1>. DEFINE n == Len(sem.queue)
<1>1. n \in Nat /\ sem.queue \in [1..n -> Procs]
  BY DEF Sems
<1>2. Row(sem) \subseteq W
  BY DEF Row, QueueFits
<1>3. sem.queue \in Bijection(1..n, Row(sem))
  BY <1>1 DEF QueueFits, Row, Bijection, Injection, Surjection, IsInjective
<1>4. Cardinality(Row(sem)) = n
  BY <1>1, <1>3, FS_CountingElements DEF ExistsBijection
<1>5. W \cap Row(sem) = Row(sem)
  BY <1>2
<1>6. Cardinality(W \ Row(sem)) = Cardinality(W) - Cardinality(W \cap Row(sem))
  BY SomeProcs, FS_Difference
<1>. QED
  BY <1>1, <1>2, <1>4, <1>5, <1>6 DEF QueueFits

\* After wait() by p: who may wait is in V, and p does unless the count let it in.
Joined(T, N, s, p, V) ==
  /\ N \in [Semaphores -> Sems]
  /\ \A t \in Semaphores : t # s => N[t] = T[t]
  /\ N[s].used = T[s].used /\ N[s].semcnt = T[s].semcnt - 1
  /\ QueueFits(N[s], V)
  /\ T[s].semcnt >= 1 => Row(N[s]) = {}
  /\ T[s].semcnt < 1 => p \in Row(N[s])
  /\ Row(N[s]) \subseteq Row(T[s]) \cup {p}

\* After signal(): if anybody waited, one of them does so no more.
GoneOn(T, N, s, W) ==
  /\ N \in [Semaphores -> Sems]
  /\ \A t \in Semaphores : t # s => N[t] = T[t]
  /\ N[s].used = T[s].used /\ N[s].semcnt = T[s].semcnt + 1
  /\ QueueFits(N[s], W)
  /\ Row(N[s]) \subseteq Row(T[s])
  /\ T[s].semcnt < 0 => \E p \in Row(T[s]) : p \notin Row(N[s])

\* wait() and signal() change one semaphore.
LEMMA OthersWait ==
  ASSUME NEW T \in [Semaphores -> Sems], NEW s \in Semaphores, NEW p,
         NEW t \in Semaphores, t # s
  PROVE  Waited(T, p, s)[t] = T[t] /\ Signalled(T, s)[t] = T[t]
BY DEF Waited, Signalled

\* wait(): who waits joins the row (wait.c).
LEMMA WaitFits ==
  ASSUME NEW T \in [Semaphores -> Sems], NEW s \in Semaphores, NEW p \in Procs,
         NEW W \in SUBSET Procs, QueueFits(T[s], W), p \notin Row(T[s]),
         NEW V, p \in V, \A q \in W : q \in V,
         NEW N, N = Waited(T, p, s)
  PROVE  Joined(T, N, s, p, V)
<1>. SUFFICES /\ N \in [Semaphores -> Sems]
              /\ N[s].used = T[s].used /\ N[s].semcnt = T[s].semcnt - 1
              /\ QueueFits(N[s], V)
              /\ T[s].semcnt >= 1 => Row(N[s]) = {}
              /\ T[s].semcnt < 1 => p \in Row(N[s])
              /\ Row(N[s]) \subseteq Row(T[s]) \cup {p}
  BY OthersWait DEF Joined
<1>. DEFINE row == T[s].queue
<1>0. T[s] \in Sems
  OBVIOUS
<1>1. row \in Seq(Procs) /\ T[s].semcnt \in Int /\ T[s].used \in BOOLEAN /\ Len(row) \in Nat
  BY <1>0 DEF Sems
<1>2. N = [T EXCEPT ![s] = [used |-> T[s].used, semcnt |-> T[s].semcnt - 1,
                            queue |-> IF T[s].semcnt < 1 THEN Append(row, p) ELSE row]]
  <2>1. N = [T EXCEPT ![s] = [T[s] EXCEPT !.semcnt = T[s].semcnt - 1,
                              !.queue = IF T[s].semcnt < 1 THEN Append(row, p) ELSE row]]
    BY DEF Waited
  <2>2. T[s] = [used |-> T[s].used, semcnt |-> T[s].semcnt, queue |-> T[s].queue]
    BY <1>0 DEF Sems
  <2>. QED
    BY <2>1, <2>2
<1>3. /\ N[s].used = T[s].used /\ N[s].semcnt = T[s].semcnt - 1
      /\ N[s].queue = IF T[s].semcnt < 1 THEN Append(row, p) ELSE row
  BY <1>2
<1>4. /\ Append(row, p) \in Seq(Procs) /\ Len(Append(row, p)) = Len(row) + 1
      /\ \A i \in 1..Len(row) : Append(row, p)[i] = row[i]
      /\ Append(row, p)[Len(row) + 1] = p
  BY <1>1, AppendProperties
<1>5. N \in [Semaphores -> Sems]
  BY <1>1, <1>2, <1>4 DEF Sems
<1>6. CASE T[s].semcnt >= 1
  <2>1. N[s].queue = row /\ Len(row) = 0
    BY <1>1, <1>3, <1>6 DEF QueueFits
  <2>. QED
    BY <1>1, <1>3, <1>5, <1>6, <2>1 DEF QueueFits, Row
<1>7. CASE T[s].semcnt < 1
  <2>1. N[s].queue = Append(row, p) /\ Len(N[s].queue) = -N[s].semcnt /\ N[s].semcnt < 0
    BY <1>1, <1>3, <1>4, <1>7 DEF QueueFits
  <2>2. \A i \in 1..Len(row) : row[i] # p /\ row[i] \in W
    BY DEF Row, QueueFits
  <2>3. QueueFits(N[s], V)
    <3>1. \A i \in 1..Len(row) + 1 : N[s].queue[i] \in V
      BY <1>1, <1>4, <2>1, <2>2
    <3>2. \A i, j \in 1..Len(row) + 1 : N[s].queue[i] = N[s].queue[j] => i = j
      BY <1>1, <1>4, <2>1, <2>2 DEF QueueFits
    <3>3. Len(N[s].queue) = Len(row) + 1
      BY <1>4, <2>1
    <3>. QED
      BY <2>1, <3>1, <3>2, <3>3 DEF QueueFits
  <2>4. p \in Row(N[s])
    BY <1>1, <1>4, <2>1 DEF Row
  <2>5. Row(N[s]) \subseteq Row(T[s]) \cup {p}
    <3>1. \A i \in 1..Len(row) + 1 : i \in 1..Len(row) \/ i = Len(row) + 1
      BY <1>1
    <3>. QED
      BY <1>4, <2>1, <3>1 DEF Row
  <2>. QED
    BY <1>1, <1>3, <1>5, <1>7, <2>3, <2>4, <2>5
<1>. QED
  BY <1>1, <1>6, <1>7

\* signal(): the first of the row goes on (signal.c).
LEMMA SignalFits ==
  ASSUME NEW T \in [Semaphores -> Sems], NEW s \in Semaphores,
         NEW W \in SUBSET Procs, QueueFits(T[s], W),
         NEW N, N = Signalled(T, s)
  PROVE  GoneOn(T, N, s, W)
<1>. SUFFICES /\ N \in [Semaphores -> Sems]
              /\ N[s].used = T[s].used /\ N[s].semcnt = T[s].semcnt + 1
              /\ QueueFits(N[s], W)
              /\ Row(N[s]) \subseteq Row(T[s])
              /\ T[s].semcnt < 0 => \E p \in Row(T[s]) : p \notin Row(N[s])
  BY OthersWait DEF GoneOn
<1>. DEFINE row == T[s].queue
<1>0. T[s] \in Sems
  OBVIOUS
<1>1. row \in Seq(Procs) /\ T[s].semcnt \in Int /\ T[s].used \in BOOLEAN /\ Len(row) \in Nat
  BY <1>0 DEF Sems
<1>2. N = [T EXCEPT ![s] = [used |-> T[s].used, semcnt |-> T[s].semcnt + 1,
                            queue |-> IF T[s].semcnt < 0 THEN Tail(row) ELSE row]]
  <2>1. N = [T EXCEPT ![s] = [T[s] EXCEPT !.semcnt = T[s].semcnt + 1,
                              !.queue = IF T[s].semcnt < 0 THEN Tail(row) ELSE row]]
    BY DEF Signalled
  <2>2. T[s] = [used |-> T[s].used, semcnt |-> T[s].semcnt, queue |-> T[s].queue]
    BY <1>0 DEF Sems
  <2>. QED
    BY <2>1, <2>2
<1>3. /\ N[s].used = T[s].used /\ N[s].semcnt = T[s].semcnt + 1
      /\ N[s].queue = IF T[s].semcnt < 0 THEN Tail(row) ELSE row
  BY <1>2
<1>6. CASE T[s].semcnt >= 0
  <2>1. N[s].queue = row /\ Len(row) = 0
    BY <1>1, <1>3, <1>6 DEF QueueFits
  <2>2. N \in [Semaphores -> Sems]
    BY <1>1, <1>2, <1>6 DEF Sems
  <2>. QED
    BY <1>1, <1>3, <1>6, <2>1, <2>2 DEF QueueFits, Row
<1>7. CASE T[s].semcnt < 0
  <2>1. Len(row) = -T[s].semcnt /\ row # <<>>
    BY <1>1, <1>7 DEF QueueFits
  <2>2. /\ Tail(row) \in Seq(Procs) /\ Len(Tail(row)) = Len(row) - 1
        /\ \A i \in 1..Len(Tail(row)) : Tail(row)[i] = row[i + 1]
    BY <1>1, <2>1, HeadTailProperties
  <2>3. N[s].queue = Tail(row)
    BY <1>3, <1>7
  <2>4. N \in [Semaphores -> Sems]
    BY <1>1, <1>2, <1>7, <2>2 DEF Sems
  <2>5. \A i \in 1..Len(row) - 1 : i + 1 \in 1..Len(row)
    BY <1>1
  <2>6. QueueFits(N[s], W)
    <3>1. \A i \in 1..Len(row) - 1 : N[s].queue[i] \in W
      BY <2>2, <2>3, <2>5 DEF QueueFits
    <3>2. \A i, j \in 1..Len(row) - 1 : N[s].queue[i] = N[s].queue[j] => i = j
      <4>1. \A i, j \in 1..Len(row) : row[i] = row[j] => i = j
        BY DEF QueueFits
      <4>. QED
        BY <1>1, <2>2, <2>3, <2>5, <4>1
    <3>. QED
      BY <1>1, <1>3, <1>7, <2>1, <2>2, <2>3, <3>1, <3>2 DEF QueueFits
  <2>7. Row(N[s]) \subseteq Row(T[s])
    BY <1>1, <2>2, <2>3, <2>5 DEF Row
  <2>8. row[1] \in Row(T[s]) /\ row[1] \notin Row(N[s])
    <3>1. 1 \in 1..Len(row)
      BY <1>1, <1>7, <2>1
    <3>2. \A i \in 1..Len(row) - 1 : row[i + 1] # row[1]
      BY <1>1, <2>5, <3>1 DEF QueueFits
    <3>. QED
      BY <1>1, <2>2, <2>3, <3>1, <3>2 DEF Row
  <2>. QED
    BY <1>3, <2>4, <2>6, <2>7, <2>8
<1>. QED
  BY <1>1, <1>6, <1>7

\* What fits one set of processes fits any that has the row.
LEMMA OthersFit ==
  ASSUME NEW sem, NEW W, NEW V, QueueFits(sem, W), Row(sem) \subseteq V
  PROVE  QueueFits(sem, V)
BY DEF QueueFits, Row

\* A new semaphore for which there is something to count.
LEMMA CountingFits ==
  ASSUME NEW count \in Nat, NEW W
  PROVE  /\ Counting(count) \in Sems /\ QueueFits(Counting(count), W)
         /\ Counting(count).used /\ Counting(count).semcnt = count /\ Row(Counting(count)) = {}
<1>1. Len(<<>>) = 0 /\ <<>> \in Seq(Procs)
  OBVIOUS
<1>. QED
  BY <1>1 DEF Counting, Sems, QueueFits, Row

-------------------------------------------------------------------------------
(***************************************************************************)
(* What a step of one part leaves alone.                                   *)
(***************************************************************************)
\* Processes change only from and to the given calls, and only the given semaphores change.
Local(calls, sems) ==
  /\ \A p \in Procs : doing'[p] # doing[p] =>
       doing[p].call \in calls \cup {"idle"} /\ doing'[p].call \in calls \cup {"idle"}
  /\ \A s \in Semaphores : semaph'[s] # semaph[s] => s \in sems

SameCalls(calls) ==
  \A p \in Procs : doing[p].call \in calls \/ doing'[p].call \in calls => doing'[p] = doing[p]

\* A step between calls of one kind is not seen by those in other calls.
LEMMA LocalCalls ==
  ASSUME NEW calls, NEW sems, NEW others, Local(calls, sems), "idle" \notin others,
         \A call \in calls : call \notin others
  PROVE  SameCalls(others)
BY DEF Local, SameCalls

\* A process whose call changes, and no other.
LEMMA GoesFrom ==
  ASSUME TasksTyped, NEW p \in Procs, NEW cont, Goes(p, cont)
  PROVE  /\ doing' = [q \in Procs |-> doing'[q]] /\ doing'[p] = cont
         /\ \A q \in Procs \ {p} : doing'[q] = doing[q]
BY DEF TasksTyped, Goes

\* Who is at a step of its call waits nowhere.
LEMMA AtStep ==
  ASSUME TasksTyped, NEW p \in Procs, NEW call, At(p, call)
  PROVE  doing[p].call = call /\ \A s \in Semaphores : p \notin Row(semaph[s])
<1>1. \A s \in Semaphores : semaph[s].queue \in Seq(Procs)
  BY DEF TasksTyped
<1>2. \A s \in Semaphores : DOMAIN semaph[s].queue = 1..Len(semaph[s].queue)
  BY <1>1
<1>. QED
  BY <1>2 DEF At, Blocked, Row

\* A new call of a process in none: its call is "idle".
LEMMA CallsIdle ==
  ASSUME NEW p, Calls(p)
  PROVE  doing[p].call = "idle"
BY DEF Calls, Idle

\* The semaphores that nobody makes or deletes keep their owners.
LEMMA OwnersKept ==
  ASSUME SemsOwned,
         DOMAIN bptab' = DOMAIN bptab, \A i \in DOMAIN bptab : bptab'[i].bpsem = bptab[i].bpsem,
         \A q \in Queues : Q'[q].mutex = Q[q].mutex,
         \A s \in Semaphores : semaph'[s] = semaph[s] \/ (semaph[s].used /\ semaph'[s].used)
  PROVE  SemsOwned' /\ PoolSems' = PoolSems /\ Mutexes' = Mutexes
<1>1. PoolSems' = PoolSems
  BY DEF PoolSems
<1>2. Mutexes' = Mutexes
  BY DEF Mutexes
<1>. QED
  BY <1>1, <1>2 DEF SemsOwned

\* What pools keep of steps of others.
LEMMA PoolsFrame ==
  ASSUME PoolsInv, SameCalls(PoolCalls), \A s \in PoolSems : semaph'[s] = semaph[s],
         UNCHANGED pools
  PROVE  PoolsInv' /\ PoolSems' = PoolSems
<1>1. /\ bptab' = bptab /\ buffers' = buffers /\ unlinked' = unlinked
      /\ PoolSems' = PoolSems
  BY DEF pools, PoolSems
<1>2. PoolsTyped'
  BY <1>1 DEF PoolsInv, PoolsTyped, SameCalls
<1>3. \A pool : Out(pool)' = Out(pool)
  BY <1>1 DEF Out
<1>4. BuffersKept'
  BY <1>1, <1>3 DEF PoolsInv, BuffersKept, PoolKept
<1>5. \A pool : OnPool({"getbuf"}, pool)' = OnPool({"getbuf"}, pool)
             /\ OnPool({"freebuf"}, pool)' = OnPool({"freebuf"}, pool)
  BY DEF OnPool, SameCalls, PoolCalls
<1>6. \A pool \in DOMAIN bptab : bptab[pool].bpsem # SYSERR => bptab[pool].bpsem \in PoolSems
  BY DEF PoolSems
<1>7. \A pool \in DOMAIN bptab : PoolCounted(pool)'
  BY <1>1, <1>5, <1>6 DEF PoolsInv, PoolCounted
<1>. QED
  BY <1>1, <1>2, <1>4, <1>7 DEF PoolsInv

\* What the input of the console keeps of steps of others.
LEMMA InputFrame ==
  ASSUME InputInv, SameCalls(InputCalls), semaph'[ISEMA] = semaph[ISEMA], UNCHANGED input
  PROVE  InputInv'
<1>1. InCall({"ttyreadTakes", "nextc"})' = InCall({"ttyreadTakes", "nextc"})
  BY DEF InCall, SameCalls, InputCalls
<1>2. \A p \in Procs : doing'[p].call \in InputCalls => doing'[p] = doing[p]
  BY DEF SameCalls
<1>. QED
  BY <1>1, <1>2 DEF InputInv, Announcement, LineTyped, input, InputCalls

\* What the output of the console keeps of steps of others.
LEMMA OutputFrame ==
  ASSUME OutputInv, SameCalls(OutputCalls), semaph'[OSEMA] = semaph[OSEMA], UNCHANGED output
  PROVE  OutputInv'
<1>1. InCall(OutputCalls)' = InCall(OutputCalls) /\ UNCHANGED Promised
  <2>1. InCall(OutputCalls)' = InCall(OutputCalls)
    BY DEF InCall, SameCalls
  <2>2. UNCHANGED <<Writers("computc"), Writers("computcLine")>>
    BY DEF Writers, SameCalls, OutputCalls
  <2>. QED
    BY <2>1, <2>2 DEF Promised
<1>2. \A p \in Procs : doing'[p].call \in OutputCalls => doing'[p] = doing[p]
  BY DEF SameCalls
<1>. QED
  BY <1>1, <1>2 DEF OutputInv, output, OutputCalls

\* The calls on a queue that a step leaves alone.
SameOn(q) ==
  \A p \in Procs :
    (doing[p].call \in QueueCalls /\ doing[p].q = q) \/ (doing'[p].call \in QueueCalls /\ doing'[p].q = q)
      => doing'[p] = doing[p]

\* Who is in which call on such a queue stays as it was.
LEMMA PastKept ==
  ASSUME NEW q, SameOn(q), NEW calls \in SUBSET QueueCalls
  PROVE  Past(calls, q)' = Past(calls, q)
BY DEF SameOn, Past

\* What a queue keeps of steps that are not on it.
LEMMA QueueFrame ==
  ASSUME NEW q \in Queues, SameOn(q), Q'[q] = Q[q], arrays'[q] = arrays[q], arrived'[q] = arrived[q],
         q \in usable' <=> q \in usable,
         Q[q].mutex # SYSERR => semaph'[Q[q].mutex] = semaph[Q[q].mutex]
  PROVE  /\ QueueTyped(q) => QueueTyped(q)'
         /\ QueueLive(q) => QueueLive(q)'
         /\ MutexHeld(q) => MutexHeld(q)'
         /\ QueueOrdered(q) => QueueOrdered(q)'
         /\ ArraysOf(q)' = ArraysOf(q)
<1>1. \A calls \in SUBSET QueueCalls : Past(calls, q)' = Past(calls, q)
  BY PastKept
<1>2. /\ Past(Enqueuing, q)' = Past(Enqueuing, q) /\ Past(Dequeuing, q)' = Past(Dequeuing, q)
      /\ Past(Enqueuing \cup Dequeuing, q)' = Past(Enqueuing \cup Dequeuing, q)
      /\ Making(q)' = Making(q) /\ Holding(q)' = Holding(q)
      /\ Past({"newqKeys"}, q)' = Past({"newqKeys"}, q) /\ Past({"freeq"}, q)' = Past({"freeq"}, q)
      /\ Past({"enq", "enqCounts", "deq", "deqCounts"}, q)' = Past({"enq", "enqCounts", "deq", "deqCounts"}, q)
      /\ Past({"enqPlaces", "deqShifts"}, q)' = Past({"enqPlaces", "deqShifts"}, q)
      /\ Past({"enqCounts"}, q)' = Past({"enqCounts"}, q)
      /\ Past({"deqCounts"}, q)' = Past({"deqCounts"}, q)
      /\ Past({"enq", "enqPlaces"}, q)' = Past({"enq", "enqPlaces"}, q)
  BY <1>1 DEF QueueCalls, Enqueuing, Dequeuing, Making, Holding
<1>3. \A p \in Past({"enq", "enqPlaces"}, q) : doing'[p] = doing[p]
  BY DEF SameOn, Past, QueueCalls, Enqueuing
<1>4. NoWait(q)' = NoWait(q) /\ InUse(q)' = InUse(q)
  BY <1>2 DEF NoWait, InUse
<1>5. QueueTyped(q) => QueueTyped(q)'
  BY <1>4 DEF QueueTyped
<1>6. QueueLive(q) => QueueLive(q)'
  BY <1>2, <1>4 DEF QueueLive
<1>7. MutexHeld(q) => MutexHeld(q)'
  BY <1>2 DEF MutexHeld
<1>8. QueueOrdered(q) => QueueOrdered(q)'
  <2>. SUFFICES ASSUME QueueOrdered(q) PROVE QueueOrdered(q)'
    OBVIOUS
  <2>1. \A p \in Past({"enq", "enqPlaces"}, q) : doing'[p].entry.elt = doing[p].entry.elt
    BY <1>3
  <2>2. Arranged(Q[q].list, Len(arrived[q]), arrived[q])' <=> Arranged(Q[q].list, Len(arrived[q]), arrived[q])
    BY DEF Arranged
  <2>. QED
    BY <1>2, <1>4, <2>1, <2>2 DEF QueueOrdered
<1>9. ArraysOf(q)' = ArraysOf(q)
  BY <1>2 DEF ArraysOf
<1>. QED
  BY <1>5, <1>6, <1>7, <1>8, <1>9

\* What queues keep of steps of others.
LEMMA QueuesFrame ==
  ASSUME QueuesInv, SameCalls(QueueCalls), \A s \in Mutexes : semaph'[s] = semaph[s],
         UNCHANGED queues, \A h \in held : h.use = "heap" => h \in held'
  PROVE  QueuesInv' /\ Mutexes' = Mutexes
<1>1. /\ Q' = Q /\ arrays' = arrays /\ broken' = broken /\ usable' = usable
      /\ arrived' = arrived /\ raced' = raced /\ Mutexes' = Mutexes
  BY DEF queues, Mutexes
<1>2. \A q \in Queues : SameOn(q)
  BY DEF SameCalls, SameOn
<1>3. \A q \in Queues : Q[q].mutex # SYSERR => semaph'[Q[q].mutex] = semaph[Q[q].mutex]
  BY DEF Mutexes
<1>4. \A q \in Queues : /\ QueueTyped(q) => QueueTyped(q)'
                        /\ QueueLive(q) => QueueLive(q)'
                        /\ MutexHeld(q) => MutexHeld(q)'
                        /\ QueueOrdered(q) => QueueOrdered(q)'
                        /\ ArraysOf(q)' = ArraysOf(q)
  BY <1>1, <1>2, <1>3, QueueFrame
<1>5. \A p \in Procs : CallTyped(p)'
  <2>. SUFFICES ASSUME NEW p \in Procs PROVE CallTyped(p)'
    OBVIOUS
  <2>1. doing'[p].call \in QueueCalls => doing'[p] = doing[p]
    BY DEF SameCalls
  <2>2. CallTyped(p)
    BY DEF QueuesInv, QueuesTyped
  <2>. QED
    BY <2>1, <2>2 DEF CallTyped, QueueCalls
<1>6. QueuesTyped'
  BY <1>1, <1>4, <1>5 DEF QueuesInv, QueuesTyped
<1>7. ArraysHeld'
  BY <1>1, <1>4 DEF QueuesInv, ArraysHeld
<1>8. BrokenByRaces'
  <2>1. \A q \in Queues : Past({"newq"}, q)' = Past({"newq"}, q) /\ NoWait(q)' = NoWait(q)
    BY <1>1, <1>2, PastKept DEF QueueCalls, NoWait
  <2>. QED
    BY <1>1, <2>1 DEF QueuesInv, BrokenByRaces
<1>. QED
  BY <1>1, <1>4, <1>6, <1>7, <1>8 DEF QueuesInv

-------------------------------------------------------------------------------
(***************************************************************************)
(* Buffer pools.                                                           *)
(***************************************************************************)
\* A pool's semaphore is one that screate() gave.
LEMMA PoolSem ==
  ASSUME TasksTyped, SemsOwned, PoolsInv, NEW pool \in DOMAIN bptab
  PROVE  /\ bptab[pool] \in Pool /\ pool \in Nat
         /\ bptab[pool].bpsem # SYSERR =>
              /\ bptab[pool].bpsem \in Semaphores /\ bptab[pool].bpsem \in PoolSems
              /\ semaph[bptab[pool].bpsem] \in Sems /\ semaph[bptab[pool].bpsem].used
         /\ Known(bptab[pool].bpsem) <=> bptab[pool].bpsem # SYSERR
         /\ OnPool({"getbuf"}, pool) \in SUBSET Procs /\ OnPool({"freebuf"}, pool) \in SUBSET Procs
<1>1. bptab[pool] \in Pool /\ pool \in Nat
  <2>1. bptab \in Seq(Pool)
    BY DEF PoolsInv, PoolsTyped
  <2>. QED
    BY <2>1
<1>2. bptab[pool].bpsem # SYSERR => bptab[pool].bpsem \in PoolSems
  BY DEF PoolSems
<1>3. bptab[pool].bpsem # SYSERR => bptab[pool].bpsem \in Semaphores
  BY <1>1 DEF Pool
<1>4. bptab[pool].bpsem # SYSERR => semaph[bptab[pool].bpsem].used
  BY <1>2, <1>3 DEF SemsOwned
<1>5. SYSERR \notin Semaphores
  BY Drivers
<1>6. OnPool({"getbuf"}, pool) \in SUBSET Procs /\ OnPool({"freebuf"}, pool) \in SUBSET Procs
  BY DEF OnPool
<1>. QED
  BY <1>1, <1>2, <1>3, <1>4, <1>5, <1>6 DEF Known, TasksTyped, Sems

\* Whose semaphore has a count or a process that it let in has a buffer to take.
LEMMA BufferThere ==
  ASSUME TasksTyped, SemsOwned, PoolsInv, NEW pool \in DOMAIN bptab, bptab[pool].bpsem # SYSERR,
         \/ semaph[bptab[pool].bpsem].semcnt > 0
         \/ \E p \in OnPool({"getbuf"}, pool) : p \notin Row(semaph[bptab[pool].bpsem])
  PROVE  bptab[pool].bpnext # <<>>
<1>. DEFINE sem == semaph[bptab[pool].bpsem]
            G == OnPool({"getbuf"}, pool)
            F == OnPool({"freebuf"}, pool)
            chain == bptab[pool].bpnext
<1>1. sem \in Sems /\ G \in SUBSET Procs /\ F \in SUBSET Procs /\ chain \in Seq(Nat)
  BY PoolSem DEF Pool
<1>2. sem.semcnt \in Int
  BY <1>1 DEF Sems
<1>3. /\ QueueFits(sem, G)
      /\ sem.semcnt = Len(chain) - Cardinality(G) - Cardinality(F)
  BY DEF PoolsInv, PoolCounted
<1>4. /\ Cardinality(G) \in Nat /\ Cardinality(F) \in Nat /\ Cardinality(G \ Row(sem)) \in Nat
      /\ IsFiniteSet(G \ Row(sem))
  BY <1>1, SomeProcs
<1>5. /\ Cardinality(G \ Row(sem)) = Cardinality(G) - Len(sem.queue)
      /\ Len(sem.queue) = (IF sem.semcnt < 0 THEN -sem.semcnt ELSE 0)
  BY <1>1, <1>3, RowCounted
<1>6. CASE sem.semcnt > 0
  <2>1. Len(chain) >= 1
    BY <1>1, <1>2, <1>3, <1>4, <1>6
  <2>. QED
    BY <2>1
<1>7. CASE \E p \in G : p \notin Row(sem)
  <2>1. G \ Row(sem) # {}
    BY <1>7
  <2>2. Cardinality(G \ Row(sem)) # 0
    BY <1>4, <2>1, FS_EmptySet
  <2>3. Len(chain) >= 1
    BY <1>1, <1>2, <1>3, <1>4, <1>5, <2>2
  <2>. QED
    BY <2>3
<1>. QED
  BY <1>6, <1>7

\* A pool whose chain is as long as before, and on which nothing goes on.
LEMMA CountedFrame ==
  ASSUME NEW pool, PoolCounted(pool),
         bptab'[pool].bpsem = bptab[pool].bpsem, Len(bptab'[pool].bpnext) = Len(bptab[pool].bpnext),
         bptab[pool].bpsem # SYSERR => semaph'[bptab[pool].bpsem] = semaph[bptab[pool].bpsem],
         OnPool({"getbuf"}, pool)' = OnPool({"getbuf"}, pool),
         OnPool({"freebuf"}, pool)' = OnPool({"freebuf"}, pool)
  PROVE  PoolCounted(pool)'
BY DEF PoolCounted

\* A pool with another chain.
LEMMA PoolWith ==
  ASSUME NEW B \in Pool, NEW chain
  PROVE  [B EXCEPT !.bpnext = chain] = [bptotal |-> B.bptotal, bpsem |-> B.bpsem, bpnext |-> chain]
BY DEF Pool

\* The first buffer of the chain goes to the process (getbuf.c, nbgetbuf()).
LEMMA PopKeeps ==
  ASSUME TasksTyped, SemsOwned, PoolsInv, NEW p \in Procs, NEW pool \in DOMAIN bptab,
         bptab[pool].bpnext # <<>>, Pop(p, pool)
  PROVE  /\ bptab' \in Seq(Pool) /\ DOMAIN bptab' = DOMAIN bptab
         /\ buffers' \in [Procs -> SUBSET (Nat \X Nat)] /\ unlinked' = unlinked
         /\ \A i \in DOMAIN bptab \ {pool} : bptab'[i] = bptab[i]
         /\ bptab'[pool].bpsem = bptab[pool].bpsem
         /\ Len(bptab'[pool].bpnext) = Len(bptab[pool].bpnext) - 1
         /\ BuffersKept'
<1>. DEFINE chain == bptab[pool].bpnext  buf == <<pool, Head(chain)>>
            old == bptab[pool]
            new == [bptotal |-> old.bptotal, bpsem |-> old.bpsem, bpnext |-> Tail(chain)]
<1>1. old \in Pool /\ pool \in Nat /\ chain \in Seq(Nat) /\ bptab \in Seq(Pool)
  BY PoolSem DEF Pool, PoolsInv, PoolsTyped
<1>2. /\ Tail(chain) \in Seq(Nat) /\ Len(Tail(chain)) = Len(chain) - 1 /\ Len(chain) \in Nat
      /\ \A i \in 1..Len(Tail(chain)) : Tail(chain)[i] = chain[i + 1]
      /\ Head(chain) = chain[1] /\ Head(chain) \in Nat /\ Len(chain) >= 1
  BY <1>1, HeadTailProperties
<1>3. bptab' = [bptab EXCEPT ![pool] = new]
  <2>1. bptab' = [bptab EXCEPT ![pool] = [old EXCEPT !.bpnext = Tail(chain)]]
    BY DEF Pop
  <2>. QED
    BY <1>1, <2>1, PoolWith
<1>4. /\ buffers' = [buffers EXCEPT ![p] = buffers[p] \cup {buf}] /\ unlinked' = unlinked
  BY DEF Pop
<1>5. new \in Pool
  BY <1>1, <1>2 DEF Pool
<1>6. bptab' \in Seq(Pool) /\ DOMAIN bptab' = DOMAIN bptab /\ bptab'[pool] = new
      /\ \A i \in DOMAIN bptab \ {pool} : bptab'[i] = bptab[i]
  BY <1>1, <1>3, <1>5
<1>7. buffers \in [Procs -> SUBSET (Nat \X Nat)]
  BY DEF PoolsInv, PoolsTyped
<1>8. buf \in Nat \X Nat /\ buf[1] = pool /\ buf[2] = chain[1]
  BY <1>1, <1>2
<1>9. buffers' \in [Procs -> SUBSET (Nat \X Nat)] /\ buffers'[p] = buffers[p] \cup {buf}
      /\ \A q \in Procs \ {p} : buffers'[q] = buffers[q]
  BY <1>4, <1>7, <1>8
<1>10. Out(pool)' = Out(pool) \cup {buf} /\ \A i \in DOMAIN bptab \ {pool} : Out(i)' = Out(i)
  BY <1>8, <1>9 DEF Out
<1>11. PoolKept(pool) /\ \A i \in DOMAIN bptab : PoolKept(i)
  BY DEF PoolsInv, BuffersKept
<1>12. 1 \in 1..Len(chain)
  BY <1>2
<1>13. buf \notin Out(pool)
  BY <1>8, <1>11, <1>12, <1>2 DEF PoolKept
<1>14. \A q \in Procs : buf \notin buffers[q]
  BY <1>8, <1>13 DEF Out
<1>15. PoolKept(pool)'
  <2>1. IsFiniteSet(Out(pool)) /\ Cardinality(Out(pool)) \in Nat
    BY <1>11, FS_CardinalityType DEF PoolKept
  <2>2. IsFiniteSet(Out(pool)') /\ Cardinality(Out(pool)') = Cardinality(Out(pool)) + 1
    <3>1. /\ IsFiniteSet(Out(pool) \cup {buf})
          /\ Cardinality(Out(pool) \cup {buf}) = Cardinality(Out(pool)) + 1
      BY <1>13, <2>1, FS_AddElement
    <3>. QED
      BY <1>10, <3>1
  <2>3. Len(Tail(chain)) + Cardinality(Out(pool)') = old.bptotal
    BY <1>2, <1>11, <2>1, <2>2 DEF PoolKept
  <2>4. \A i \in 1..Len(chain) - 1 : i + 1 \in 1..Len(chain)
    BY <1>2
  <2>5. \A i, j \in 1..Len(chain) : chain[i] = chain[j] => i = j
    BY <1>11 DEF PoolKept
  <2>6. \A i, j \in 1..Len(chain) - 1 : Tail(chain)[i] = Tail(chain)[j] => i = j
    BY SMTT(30), ZenonT(30), <1>2, <2>4, <2>5
  <2>7. \A i \in 1..Len(chain) - 1 : <<pool, Tail(chain)[i]>> \notin Out(pool)
    BY <1>2, <1>11, <2>4 DEF PoolKept
  <2>8. \A i \in 1..Len(chain) - 1 : Tail(chain)[i] # chain[1]
    BY <1>2, <1>12, <2>4, <2>5
  <2>9. \A i \in 1..Len(chain) - 1 : <<pool, Tail(chain)[i]>> \notin Out(pool)'
    BY <1>8, <1>10, <2>7, <2>8
  <2>10. bptab'[pool].bpnext = Tail(chain) /\ bptab'[pool].bptotal = old.bptotal
    BY <1>6
  <2>. QED
    BY <1>2, <2>2, <2>3, <2>6, <2>9, <2>10 DEF PoolKept
<1>16. \A i \in DOMAIN bptab : PoolKept(i)'
  BY <1>6, <1>10, <1>11, <1>15 DEF PoolKept
<1>17. BuffersKept'
  <2>1. \A q, r \in Procs : q # r => buffers[q] \cap buffers[r] = {}
    BY DEF PoolsInv, BuffersKept
  <2>2. \A q, r \in Procs : q # r => buffers'[q] \cap buffers'[r] = {}
    BY <1>9, <1>14, <2>1
  <2>3. \A q \in Procs : \A b \in buffers'[q] : b[1] \in DOMAIN bptab
    BY <1>8, <1>9 DEF PoolsInv, BuffersKept
  <2>. QED
    BY <1>6, <1>16, <2>2, <2>3 DEF BuffersKept
<1>. QED
  BY <1>2, <1>4, <1>6, <1>9, <1>17

\* A step of a call on one pool: what is left to show is what it does to that pool.
LEMMA PoolStep ==
  ASSUME TasksTyped, SemsOwned, PoolsInv, UNCHANGED queues,
         NEW p \in Procs, NEW pool \in DOMAIN bptab, NEW cont, Goes(p, cont),
         doing[p].call = "idle" \/ (doing[p].call \in PoolCalls /\ doing[p].pool = pool),
         cont.call = "idle" \/ (cont.call \in PoolCalls /\ cont = [call |-> cont.call, pool |-> pool]),
         semaph' \in [Semaphores -> Sems],
         \A s \in Semaphores : s # bptab[pool].bpsem => semaph'[s] = semaph[s],
         bptab[pool].bpsem # SYSERR => semaph'[bptab[pool].bpsem].used,
         bptab' \in Seq(Pool), DOMAIN bptab' = DOMAIN bptab,
         \A i \in DOMAIN bptab : i # pool => bptab'[i] = bptab[i],
         bptab'[pool].bpsem = bptab[pool].bpsem,
         buffers' \in [Procs -> SUBSET (Nat \X Nat)], unlinked' \in BOOLEAN,
         unlinked' => unlinked \/ bptab[pool].bpsem = SYSERR,
         BuffersKept', PoolCounted(pool)'
  PROVE  PoolsInv' /\ TasksTyped' /\ SemsOwned' /\ Local(PoolCalls, PoolSems)
<1>1. /\ doing' = [q \in Procs |-> doing'[q]] /\ doing'[p] = cont
      /\ \A q \in Procs \ {p} : doing'[q] = doing[q]
  BY GoesFrom
<1>2. TasksTyped'
  BY <1>1 DEF TasksTyped, Sems
<1>3. \A i \in DOMAIN bptab : bptab'[i].bpsem = bptab[i].bpsem
  OBVIOUS
<1>4. \A i \in DOMAIN bptab : bptab[i].bpsem # SYSERR =>
        /\ bptab[i].bpsem \in Semaphores /\ bptab[i].bpsem \in PoolSems
        /\ semaph[bptab[i].bpsem].used
  BY PoolSem
<1>5. SemsOwned'
  <2>1. \A s \in Semaphores : semaph'[s] = semaph[s] \/ (semaph[s].used /\ semaph'[s].used)
    BY <1>4, Drivers
  <2>2. \A q \in Queues : Q'[q].mutex = Q[q].mutex
    BY DEF queues
  <2>. QED
    BY <1>3, <2>1, <2>2, OwnersKept
<1>6. Local(PoolCalls, PoolSems)
  <2>1. \A q \in Procs : doing'[q] # doing[q] =>
          doing[q].call \in PoolCalls \cup {"idle"} /\ doing'[q].call \in PoolCalls \cup {"idle"}
    BY <1>1
  <2>2. \A s \in Semaphores : semaph'[s] # semaph[s] => s \in PoolSems
    BY <1>4, Drivers
  <2>. QED
    BY <2>1, <2>2 DEF Local
<1>7. \A i \in DOMAIN bptab \ {pool} : PoolCounted(i)'
  <2>. SUFFICES ASSUME NEW i \in DOMAIN bptab \ {pool} PROVE PoolCounted(i)'
    OBVIOUS
  <2>1. OnPool({"getbuf"}, i)' = OnPool({"getbuf"}, i) /\ OnPool({"freebuf"}, i)' = OnPool({"freebuf"}, i)
    <3>1. cont.call = "idle" \/ cont.pool = pool
      OBVIOUS
    <3>2. doing[p].call = "idle" \/ doing[p].pool = pool
      OBVIOUS
    <3>. QED
      BY <1>1, <3>1, <3>2 DEF OnPool
  <2>2. bptab[i].bpsem # SYSERR => bptab[i].bpsem # bptab[pool].bpsem
    BY DEF SemsOwned
  <2>3. bptab[i].bpsem # SYSERR => semaph'[bptab[i].bpsem] = semaph[bptab[i].bpsem]
    BY <1>4, <2>2
  <2>4. PoolCounted(i)
    BY DEF PoolsInv
  <2>. QED
    BY <2>1, <2>3, <2>4, CountedFrame
<1>8. PoolsTyped'
  <2>1. \A q \in Procs : doing'[q].call \in PoolCalls =>
          /\ doing'[q] = [call |-> doing'[q].call, pool |-> doing'[q].pool]
          /\ doing'[q].pool \in DOMAIN bptab
    <3>. SUFFICES ASSUME NEW q \in Procs, doing'[q].call \in PoolCalls
                  PROVE  /\ doing'[q] = [call |-> doing'[q].call, pool |-> doing'[q].pool]
                         /\ doing'[q].pool \in DOMAIN bptab
      OBVIOUS
    <3>1. CASE q = p
      <4>1. cont.call # "idle" /\ cont.pool = pool
        BY <1>1, <3>1 DEF PoolCalls
      <4>. QED
        BY <1>1, <3>1, <4>1
    <3>2. CASE q # p
      BY <1>1, <3>2 DEF PoolsInv, PoolsTyped
    <3>. QED
      BY <3>1, <3>2
  <2>. QED
    BY <2>1 DEF PoolsTyped
<1>9. unlinked' => \E i \in DOMAIN bptab' : bptab'[i].bpsem = SYSERR
  BY <1>3 DEF PoolsInv
<1>. QED
  BY <1>2, <1>5, <1>6, <1>7, <1>8, <1>9 DEF PoolsInv

\* What stays of the buffers when none moves.
LEMMA BuffersStay ==
  ASSUME BuffersKept, bptab' = bptab, buffers' = buffers
  PROVE  BuffersKept'
<1>1. \A pool : Out(pool)' = Out(pool)
  BY DEF Out
<1>. QED
  BY <1>1 DEF BuffersKept, PoolKept

\* getbuf(): the wait() for a buffer (getbuf.c).
LEMMA getbufKeeps ==
  ASSUME TasksTyped, SemsOwned, PoolsInv, UNCHANGED queues,
         NEW p \in Procs, NEW pool \in DOMAIN bptab, getbuf(p, pool)
  PROVE  PoolsInv' /\ TasksTyped' /\ SemsOwned' /\ Local(PoolCalls, PoolSems)
<1>. DEFINE cont == [call |-> "getbuf", pool |-> pool]  s == bptab[pool].bpsem
            G == OnPool({"getbuf"}, pool)  F == OnPool({"freebuf"}, pool)
<1>1. /\ doing[p].call = "idle" /\ Goes(p, cont) /\ semaph' = wait(p, s)
      /\ bptab' = bptab /\ buffers' = buffers /\ unlinked' = unlinked
  BY CallsIdle DEF getbuf, pools
<1>2. OnPool({"getbuf"}, pool)' = G \cup {p} /\ OnPool({"freebuf"}, pool)' = F \ {p}
  <2>1. doing'[p] = cont /\ \A q \in Procs \ {p} : doing'[q] = doing[q]
    BY <1>1, GoesFrom
  <2>. QED
    BY <2>1 DEF OnPool
<1>3. p \notin G /\ p \notin F
  BY <1>1 DEF OnPool
<1>4. semaph \in [Semaphores -> Sems]
  BY DEF TasksTyped, Sems
<1>5. /\ semaph' \in [Semaphores -> Sems]
      /\ \A t \in Semaphores : t # s => semaph'[t] = semaph[t]
      /\ s # SYSERR => semaph'[s].used
      /\ PoolCounted(pool)'
  <2>1. CASE s = SYSERR
    <3>1. semaph' = semaph
      BY <1>1, <2>1, PoolSem DEF wait
    <3>. QED
      BY <1>1, <1>4, <2>1, <3>1 DEF PoolCounted
  <2>2. CASE s # SYSERR
    <3>1. s \in Semaphores /\ Known(s) /\ semaph[s].used /\ semaph[s] \in Sems
      BY <2>2, PoolSem
    <3>2. semaph' = Waited(semaph, p, s)
      BY <1>1, <3>1 DEF wait
    <3>3. /\ QueueFits(semaph[s], G)
          /\ semaph[s].semcnt = Len(bptab[pool].bpnext) - Cardinality(G) - Cardinality(F)
      BY <2>2 DEF PoolsInv, PoolCounted
    <3>4. p \notin Row(semaph[s]) /\ G \in SUBSET Procs
      BY <1>3, <3>1, <3>3, RowCounted, PoolSem
    <3>. DEFINE V == G \cup {p}
    <3>12. p \in V /\ \A q \in G : q \in V
      OBVIOUS
    <3>. HIDE DEF s, G, V
    <3>5. Joined(semaph, semaph', s, p, V)
      BY <1>4, <3>1, <3>2, <3>3, <3>4, <3>12, WaitFits
    <3>13. /\ semaph' \in [Semaphores -> Sems]
           /\ semaph'[s].used = semaph[s].used /\ semaph'[s].semcnt = semaph[s].semcnt - 1
           /\ \A t \in Semaphores : t # s => semaph'[t] = semaph[t]
           /\ QueueFits(semaph'[s], V)
      BY <3>5 DEF Joined
    <3>6. Cardinality(G \cup {p}) = Cardinality(G) + 1 /\ Cardinality(G) \in Nat
      BY <1>3, <3>4, SomeProcs, FS_AddElement
    <3>7. F \ {p} = F
      BY <1>3
    <3>8. Len(bptab[pool].bpnext) \in Nat
      BY PoolSem DEF Pool
    <3>9. Cardinality(F) \in Nat
      BY PoolSem, SomeProcs
    <3>10. semaph[s].semcnt \in Int
      BY <3>1 DEF Sems
    <3>. HIDE DEF F
    <3>11. semaph'[s].semcnt = Len(bptab[pool].bpnext) - Cardinality(G \cup {p}) - Cardinality(F)
      <4>1. semaph'[s].semcnt = semaph[s].semcnt - 1
        BY <3>13
      <4>2. semaph[s].semcnt = Len(bptab[pool].bpnext) - Cardinality(G) - Cardinality(F)
        BY <3>3 DEF F
      <4>. QED
        BY <3>6, <3>8, <3>9, <3>10, <4>1, <4>2 DEF F
    <3>. QED
      BY <1>1, <1>2, <2>2, <3>1, <3>7, <3>11, <3>13 DEF PoolCounted, s, G, F, V
  <2>. QED
    BY <2>1, <2>2
<1>6. BuffersKept'
  BY <1>1, BuffersStay DEF PoolsInv
<1>. QED
  <2>1. /\ bptab' \in Seq(Pool) /\ buffers' \in [Procs -> SUBSET (Nat \X Nat)] /\ unlinked' \in BOOLEAN
    BY <1>1 DEF PoolsInv, PoolsTyped
  <2>2. cont.call \in PoolCalls /\ cont = [call |-> cont.call, pool |-> pool]
    BY DEF PoolCalls
  <2>. HIDE DEF cont
  <2>. QED
    BY <1>1, <1>5, <1>6, <2>1, <2>2, PoolStep

\* Nothing of a pool's chain is in the way: who is let in takes a buffer (getbuf.c).
LEMMA getbufTakesKeeps ==
  ASSUME TasksTyped, SemsOwned, PoolsInv, UNCHANGED queues,
         NEW p \in Procs, NEW pool, pool = doing[p].pool, getbufTakes(p)
  PROVE  PoolsInv' /\ TasksTyped' /\ SemsOwned' /\ Local(PoolCalls, PoolSems)
<1>. DEFINE s == bptab[pool].bpsem
            G == OnPool({"getbuf"}, pool)  F == OnPool({"freebuf"}, pool)
<1>1. /\ doing[p].call = "getbuf" /\ \A t \in Semaphores : p \notin Row(semaph[t])
      /\ Goes(p, Idle) /\ Pop(p, pool) /\ semaph' = semaph
  BY AtStep DEF getbufTakes, Returns
<1>2. pool \in DOMAIN bptab /\ doing[p].call \in PoolCalls
  BY <1>1 DEF PoolsInv, PoolsTyped, PoolCalls
<1>3. OnPool({"getbuf"}, pool)' = G \ {p} /\ OnPool({"freebuf"}, pool)' = F \ {p}
  <2>1. doing'[p] = Idle /\ \A q \in Procs \ {p} : doing'[q] = doing[q]
    BY <1>1, GoesFrom
  <2>. QED
    BY <2>1 DEF OnPool, Idle
<1>4. semaph \in [Semaphores -> Sems]
  BY DEF TasksTyped, Sems
<1>5. s # SYSERR => semaph'[s].used
  BY <1>1, <1>2, PoolSem
<1>6. p \in G /\ p \notin F
  BY <1>1 DEF OnPool
<1>7. CASE bptab[pool].bpnext = <<>>
  <2>1. s = SYSERR
    <3>1. s # SYSERR => p \notin Row(semaph[s])
      BY <1>1, <1>2, PoolSem
    <3>. QED
      BY <1>2, <1>6, <1>7, <3>1, BufferThere
  <2>2. unlinked' = TRUE /\ bptab' = bptab /\ buffers' = buffers
    BY <1>1, <1>7 DEF Pop
  <2>3. PoolCounted(pool)' /\ BuffersKept'
    BY <2>1, <2>2, BuffersStay DEF PoolCounted, PoolsInv
  <2>4. bptab' \in Seq(Pool) /\ buffers' \in [Procs -> SUBSET (Nat \X Nat)]
    BY <2>2 DEF PoolsInv, PoolsTyped
  <2>5. Idle.call = "idle"
    BY DEF Idle
  <2>. QED
    BY <1>1, <1>2, <1>4, <1>5, <2>1, <2>2, <2>3, <2>4, <2>5, PoolStep
<1>8. CASE bptab[pool].bpnext # <<>>
  <2>1. /\ bptab' \in Seq(Pool) /\ DOMAIN bptab' = DOMAIN bptab
        /\ buffers' \in [Procs -> SUBSET (Nat \X Nat)] /\ unlinked' = unlinked
        /\ \A i \in DOMAIN bptab \ {pool} : bptab'[i] = bptab[i]
        /\ bptab'[pool].bpsem = bptab[pool].bpsem
        /\ Len(bptab'[pool].bpnext) = Len(bptab[pool].bpnext) - 1
        /\ BuffersKept'
    BY <1>1, <1>2, <1>8, PopKeeps
  <2>2. PoolCounted(pool)'
    <3>. SUFFICES ASSUME s # SYSERR PROVE PoolCounted(pool)'
      BY <2>1 DEF PoolCounted
    <3>1. s \in Semaphores /\ G \in SUBSET Procs /\ F \in SUBSET Procs
      BY <1>2, PoolSem
    <3>2. QueueFits(semaph[s], G) /\ semaph[s].semcnt = Len(bptab[pool].bpnext) - Cardinality(G) - Cardinality(F)
      BY <1>2 DEF PoolsInv, PoolCounted
    <3>3. Row(semaph[s]) \subseteq G \ {p}
      BY <1>1, <3>1, <3>2 DEF Row, QueueFits
    <3>4. QueueFits(semaph[s], G \ {p})
      BY <3>2, <3>3, OthersFit
    <3>5. /\ Cardinality(G \ {p}) = Cardinality(G) - 1 /\ Cardinality(G) \in Nat
          /\ Cardinality(F) \in Nat
      BY <1>6, <3>1, SomeProcs, FS_RemoveElement
    <3>6. Len(bptab[pool].bpnext) \in Nat
      BY <1>2, PoolSem DEF Pool
    <3>7. semaph[s].semcnt = Len(bptab'[pool].bpnext) - Cardinality(G \ {p}) - Cardinality(F)
      <4>. DEFINE old == Len(bptab[pool].bpnext)  new == Len(bptab'[pool].bpnext)
                  count == semaph[s].semcnt
      <4>1. new = old - 1 /\ old \in Nat /\ count \in Int
        BY <2>1, <3>1, <3>6, <1>4 DEF Sems
      <4>2. count = old - Cardinality(G) - Cardinality(F)
        BY <3>2
      <4>. HIDE DEF G, F, old, new, count
      <4>3. count = new - Cardinality(G \ {p}) - Cardinality(F)
        BY <3>5, <4>1, <4>2
      <4>. QED
        BY <4>3 DEF old, new, count
    <3>8. OnPool({"freebuf"}, pool)' = F
      BY <1>3, <1>6
    <3>. QED
      BY <1>1, <1>3, <2>1, <3>4, <3>7, <3>8 DEF PoolCounted
  <2>3. unlinked \in BOOLEAN
    BY DEF PoolsInv, PoolsTyped
  <2>5. Idle.call = "idle"
    BY DEF Idle
  <2>. QED
    BY <1>1, <1>2, <1>4, <1>5, <2>1, <2>2, <2>3, <2>5, PoolStep
<1>. QED
  BY <1>7, <1>8

\* nbgetbuf(): the count is taken down with the buffer.
LEMMA nbgetbufKeeps ==
  ASSUME TasksTyped, SemsOwned, PoolsInv, UNCHANGED queues,
         NEW p \in Procs, NEW pool \in DOMAIN bptab, nbgetbuf(p, pool)
  PROVE  PoolsInv' /\ TasksTyped' /\ SemsOwned' /\ Local(PoolCalls, PoolSems)
<1>. DEFINE s == bptab[pool].bpsem
            G == OnPool({"getbuf"}, pool)  F == OnPool({"freebuf"}, pool)
<1>1. /\ doing[p].call = "idle" /\ Goes(p, doing[p]) /\ Pop(p, pool)
      /\ doing' = doing /\ semaph' = wait(p, s)
      /\ Known(s) /\ semaph[s].semcnt > 0
  BY CallsIdle DEF nbgetbuf, Goes, TasksTyped
<1>2. OnPool({"getbuf"}, pool)' = G /\ OnPool({"freebuf"}, pool)' = F
  BY <1>1 DEF OnPool
<1>3. semaph \in [Semaphores -> Sems]
  BY DEF TasksTyped, Sems
<1>4. unlinked \in BOOLEAN
  BY DEF PoolsInv, PoolsTyped
<1>5. s # SYSERR
  BY <1>1, Drivers DEF Known
<1>6. s \in Semaphores /\ Known(s) /\ semaph[s].used /\ semaph[s] \in Sems
      /\ G \in SUBSET Procs /\ F \in SUBSET Procs
  BY <1>5, PoolSem
<1>7. semaph' = Waited(semaph, p, s) /\ semaph[s].semcnt > 0 /\ semaph[s].semcnt \in Int
  BY <1>1, <1>6 DEF wait, Sems
<1>8. QueueFits(semaph[s], G) /\ semaph[s].semcnt = Len(bptab[pool].bpnext) - Cardinality(G) - Cardinality(F)
  BY <1>5 DEF PoolsInv, PoolCounted
<1>9. bptab[pool].bpnext # <<>>
  BY <1>5, <1>7, BufferThere
<1>10. /\ bptab' \in Seq(Pool) /\ DOMAIN bptab' = DOMAIN bptab
       /\ buffers' \in [Procs -> SUBSET (Nat \X Nat)] /\ unlinked' = unlinked
       /\ \A i \in DOMAIN bptab \ {pool} : bptab'[i] = bptab[i]
       /\ bptab'[pool].bpsem = bptab[pool].bpsem
       /\ Len(bptab'[pool].bpnext) = Len(bptab[pool].bpnext) - 1
       /\ BuffersKept'
  BY <1>1, <1>9, PopKeeps
<1>11. Row(semaph[s]) \subseteq G /\ p \notin G
  BY <1>1, <1>6, <1>8, RowCounted DEF OnPool
<1>. DEFINE V == G \cup {p}
<1>12. p \in V /\ \A q \in G : q \in V
  OBVIOUS
<1>. HIDE DEF s, G, V
<1>13. Joined(semaph, semaph', s, p, V)
  BY <1>3, <1>6, <1>7, <1>8, <1>11, <1>12, WaitFits
<1>14. /\ semaph' \in [Semaphores -> Sems]
       /\ semaph'[s].used = semaph[s].used /\ semaph'[s].semcnt = semaph[s].semcnt - 1
       /\ \A t \in Semaphores : t # s => semaph'[t] = semaph[t]
       /\ QueueFits(semaph'[s], V) /\ Row(semaph'[s]) = {}
  BY <1>7, <1>13 DEF Joined
<1>15. QueueFits(semaph'[s], G)
  BY <1>14, OthersFit
<1>16. Len(bptab[pool].bpnext) \in Nat /\ Cardinality(G) \in Nat /\ Cardinality(F) \in Nat
  BY <1>6, PoolSem, SomeProcs DEF Pool
<1>. HIDE DEF F
<1>17. semaph'[s].semcnt = Len(bptab'[pool].bpnext) - Cardinality(G) - Cardinality(F)
  <2>1. semaph'[s].semcnt = semaph[s].semcnt - 1
    BY <1>14
  <2>2. semaph[s].semcnt = Len(bptab[pool].bpnext) - Cardinality(G) - Cardinality(F)
    BY <1>8 DEF F
  <2>3. Len(bptab'[pool].bpnext) = Len(bptab[pool].bpnext) - 1
    BY <1>10
  <2>. QED
    BY <1>16, <2>1, <2>2, <2>3
<1>18. PoolCounted(pool)'
  BY <1>2, <1>10, <1>15, <1>17 DEF PoolCounted, s, G, F
<1>. QED
  BY <1>1, <1>4, <1>6, <1>10, <1>14, <1>18, PoolStep DEF s

\* freebuf() puts the buffer in front of the chain (freebuf.c).
LEMMA PushKeeps ==
  ASSUME TasksTyped, SemsOwned, PoolsInv, NEW p \in Procs, NEW buf \in buffers[p], NEW pool,
         pool = buf[1],
         bptab' = [bptab EXCEPT ![pool].bpnext = <<buf[2]>> \o @],
         buffers' = [buffers EXCEPT ![p] = @ \ {buf}]
  PROVE  /\ pool \in DOMAIN bptab /\ bptab' \in Seq(Pool) /\ DOMAIN bptab' = DOMAIN bptab
         /\ buffers' \in [Procs -> SUBSET (Nat \X Nat)]
         /\ \A i \in DOMAIN bptab \ {pool} : bptab'[i] = bptab[i]
         /\ bptab'[pool].bpsem = bptab[pool].bpsem
         /\ Len(bptab'[pool].bpnext) = Len(bptab[pool].bpnext) + 1
         /\ BuffersKept'
<1>. DEFINE chain == bptab[pool].bpnext  longer == <<buf[2]>> \o chain
            old == bptab[pool]
            new == [bptotal |-> old.bptotal, bpsem |-> old.bpsem, bpnext |-> longer]
<1>1. pool \in DOMAIN bptab /\ BuffersKept
  BY DEF PoolsInv, BuffersKept
<1>2. old \in Pool /\ pool \in Nat /\ chain \in Seq(Nat) /\ bptab \in Seq(Pool) /\ Len(chain) \in Nat
  BY <1>1, PoolSem DEF Pool, PoolsInv, PoolsTyped
<1>3. buffers \in [Procs -> SUBSET (Nat \X Nat)]
  BY DEF PoolsInv, PoolsTyped
<1>4. buf \in Nat \X Nat /\ buf = <<pool, buf[2]>> /\ buf[2] \in Nat
  BY <1>3
<1>5. /\ <<buf[2]>> \in Seq(Nat) /\ Len(<<buf[2]>>) = 1 /\ <<buf[2]>>[1] = buf[2]
  BY <1>4
<1>6. /\ longer \in Seq(Nat) /\ Len(longer) = Len(chain) + 1 /\ longer[1] = buf[2]
      /\ \A i \in 1..Len(chain) : longer[i + 1] = chain[i]
  <2>1. /\ longer \in Seq(Nat) /\ Len(longer) = 1 + Len(chain)
        /\ \A i \in 1..Len(longer) : longer[i] = IF i <= 1 THEN <<buf[2]>>[i] ELSE chain[i - 1]
    BY <1>2, <1>5, ConcatProperties
  <2>2. \A i \in 1..Len(chain) : i + 1 \in 1..Len(longer) /\ ~(i + 1 <= 1) /\ (i + 1) - 1 = i
    BY SMTT(30), ZenonT(30), <1>2, <2>1
  <2>. QED
    BY SMTT(30), ZenonT(30), <1>2, <1>5, <2>1, <2>2
<1>7. bptab' = [bptab EXCEPT ![pool] = new]
  <2>1. bptab' = [bptab EXCEPT ![pool] = [old EXCEPT !.bpnext = longer]]
    OBVIOUS
  <2>. QED
    BY <1>2, <2>1, PoolWith
<1>8. new \in Pool
  BY <1>2, <1>6 DEF Pool
<1>9. bptab' \in Seq(Pool) /\ DOMAIN bptab' = DOMAIN bptab /\ bptab'[pool] = new
      /\ \A i \in DOMAIN bptab \ {pool} : bptab'[i] = bptab[i]
  BY <1>1, <1>2, <1>7, <1>8
<1>10. buffers' \in [Procs -> SUBSET (Nat \X Nat)] /\ buffers'[p] = buffers[p] \ {buf}
       /\ \A q \in Procs \ {p} : buffers'[q] = buffers[q]
  BY <1>3
<1>11. \A q \in Procs \ {p} : buf \notin buffers[q]
  BY <1>1 DEF BuffersKept
<1>12. Out(pool)' = Out(pool) \ {buf} /\ \A i \in DOMAIN bptab \ {pool} : Out(i)' = Out(i)
  BY <1>10, <1>11 DEF Out
<1>13. buf \in Out(pool)
  BY DEF Out
<1>14. PoolKept(pool) /\ \A i \in DOMAIN bptab : PoolKept(i)
  BY <1>1 DEF BuffersKept
<1>15. PoolKept(pool)'
  <2>1. IsFiniteSet(Out(pool)) /\ Cardinality(Out(pool)) \in Nat
    BY <1>14, FS_CardinalityType DEF PoolKept
  <2>2. IsFiniteSet(Out(pool)') /\ Cardinality(Out(pool)') = Cardinality(Out(pool)) - 1
    <3>1. /\ IsFiniteSet(Out(pool) \ {buf})
          /\ Cardinality(Out(pool) \ {buf}) = Cardinality(Out(pool)) - 1
      BY <1>13, <2>1, FS_RemoveElement
    <3>. QED
      BY <1>12, <3>1
  <2>3. Len(longer) + Cardinality(Out(pool)') = old.bptotal
    <3>1. Len(chain) + Cardinality(Out(pool)) = old.bptotal
      BY <1>14 DEF PoolKept
    <3>. DEFINE n == Len(chain)  m == Len(longer)
    <3>2. n \in Nat /\ m = n + 1 /\ n + Cardinality(Out(pool)) = old.bptotal
      BY <1>2, <1>6, <3>1
    <3>. HIDE DEF n, m
    <3>3. m + Cardinality(Out(pool)') = old.bptotal
      BY <2>1, <2>2, <3>2
    <3>. QED
      BY <3>3 DEF m
  <2>4. \A i \in 1..Len(chain) + 1 : i = 1 \/ (i - 1 \in 1..Len(chain) /\ longer[i] = chain[i - 1])
    <3>1. \A i \in 1..Len(chain) + 1 : i = 1 \/ (i - 1 \in 1..Len(chain) /\ (i - 1) + 1 = i)
      BY <1>2
    <3>. QED
      BY <1>6, <3>1
  <2>5. \A i \in 1..Len(chain) : chain[i] # buf[2] /\ <<pool, chain[i]>> \notin Out(pool)
    BY <1>4, <1>13, <1>14 DEF PoolKept
  <2>6. \A i, j \in 1..Len(chain) + 1 : longer[i] = longer[j] => i = j
    <3>1. \A i, j \in 1..Len(chain) : chain[i] = chain[j] => i = j
      BY <1>14 DEF PoolKept
    <3>2. \A i, j \in 1..Len(chain) + 1 : i - 1 = j - 1 => i = j
      BY <1>2
    <3>. SUFFICES ASSUME NEW i \in 1..Len(chain) + 1, NEW j \in 1..Len(chain) + 1,
                         longer[i] = longer[j]
                  PROVE  i = j
      OBVIOUS
    <3>3. longer[1] = buf[2]
      BY <1>6
    <3>. HIDE DEF longer
    <3>4. CASE i = 1
      BY <2>4, <2>5, <3>3, <3>4
    <3>5. CASE j = 1
      BY <2>4, <2>5, <3>3, <3>5
    <3>6. CASE i # 1 /\ j # 1
      <4>1. i - 1 \in 1..Len(chain) /\ j - 1 \in 1..Len(chain) /\ chain[i - 1] = chain[j - 1]
        BY <2>4, <3>6
      <4>2. i - 1 = j - 1
        BY <3>1, <4>1
      <4>. QED
        BY <3>2, <4>2
    <3>. QED
      BY <3>4, <3>5, <3>6
  <2>7. \A i \in 1..Len(chain) + 1 : <<pool, longer[i]>> \notin Out(pool)'
    BY <1>4, <1>6, <1>12, <2>4, <2>5
  <2>8. bptab'[pool].bpnext = longer /\ bptab'[pool].bptotal = old.bptotal
    BY <1>9
  <2>. QED
    BY SMTT(30), ZenonT(30), <1>6, <2>2, <2>3, <2>6, <2>7, <2>8 DEF PoolKept
<1>16. \A i \in DOMAIN bptab : PoolKept(i)'
  <2>1. ASSUME NEW i \in DOMAIN bptab, i # pool PROVE PoolKept(i)'
    <3>1. bptab'[i] = bptab[i] /\ Out(i)' = Out(i) /\ PoolKept(i)
      BY <1>9, <1>12, <1>14, <2>1
    <3>. QED
      BY SMTT(30), ZenonT(30), <3>1 DEF PoolKept
  <2>. QED
    BY <1>15, <2>1
<1>17. BuffersKept'
  BY <1>1, <1>9, <1>10, <1>16 DEF BuffersKept
<1>18. bptab'[pool].bpsem = bptab[pool].bpsem /\ bptab'[pool].bpnext = longer
  BY <1>9
<1>. HIDE DEF longer
<1>. QED
  BY <1>1, <1>6, <1>9, <1>10, <1>17, <1>18

\* freebuf(): the buffer is back before it is counted.
LEMMA freebufKeeps ==
  ASSUME TasksTyped, SemsOwned, PoolsInv, UNCHANGED queues,
         NEW p \in Procs, NEW buf \in buffers[p], NEW pool, pool = buf[1], freebuf(p, buf)
  PROVE  PoolsInv' /\ TasksTyped' /\ SemsOwned' /\ Local(PoolCalls, PoolSems)
<1>. DEFINE s == bptab[pool].bpsem  cont == [call |-> "freebuf", pool |-> pool]
            G == OnPool({"getbuf"}, pool)  F == OnPool({"freebuf"}, pool)
<1>1. /\ doing[p].call = "idle" /\ Goes(p, cont) /\ semaph' = semaph /\ unlinked' = unlinked
      /\ bptab' = [bptab EXCEPT ![pool].bpnext = <<buf[2]>> \o @]
      /\ buffers' = [buffers EXCEPT ![p] = @ \ {buf}]
  BY CallsIdle DEF freebuf
<1>2. /\ pool \in DOMAIN bptab /\ bptab' \in Seq(Pool) /\ DOMAIN bptab' = DOMAIN bptab
      /\ buffers' \in [Procs -> SUBSET (Nat \X Nat)]
      /\ \A i \in DOMAIN bptab \ {pool} : bptab'[i] = bptab[i]
      /\ bptab'[pool].bpsem = bptab[pool].bpsem
      /\ Len(bptab'[pool].bpnext) = Len(bptab[pool].bpnext) + 1
      /\ BuffersKept'
  BY <1>1, PushKeeps
<1>3. OnPool({"getbuf"}, pool)' = G /\ OnPool({"freebuf"}, pool)' = F \cup {p}
  <2>1. doing'[p] = cont /\ \A q \in Procs \ {p} : doing'[q] = doing[q]
    BY <1>1, GoesFrom
  <2>. QED
    BY <1>1, <2>1 DEF OnPool
<1>4. semaph \in [Semaphores -> Sems] /\ unlinked \in BOOLEAN
  BY DEF TasksTyped, Sems, PoolsInv, PoolsTyped
<1>5. p \notin F
  BY <1>1 DEF OnPool
<1>6. PoolCounted(pool)'
  <2>. SUFFICES ASSUME s # SYSERR PROVE PoolCounted(pool)'
    BY <1>2 DEF PoolCounted
  <2>1. s \in Semaphores /\ G \in SUBSET Procs /\ F \in SUBSET Procs
    BY <1>2, PoolSem
  <2>2. QueueFits(semaph[s], G) /\ semaph[s].semcnt = Len(bptab[pool].bpnext) - Cardinality(G) - Cardinality(F)
    BY <1>2 DEF PoolsInv, PoolCounted
  <2>3. Cardinality(F \cup {p}) = Cardinality(F) + 1 /\ Cardinality(G) \in Nat /\ Cardinality(F) \in Nat
    BY <1>5, <2>1, SomeProcs, FS_AddElement
  <2>4. Len(bptab[pool].bpnext) \in Nat
    BY <1>2, PoolSem DEF Pool
  <2>5. semaph[s].semcnt = Len(bptab'[pool].bpnext) - Cardinality(G) - Cardinality(F \cup {p})
    <3>. DEFINE old == Len(bptab[pool].bpnext)  new == Len(bptab'[pool].bpnext)
                count == semaph[s].semcnt
    <3>1. new = old + 1 /\ old \in Nat /\ count \in Int
      BY <1>2, <1>4, <2>1, <2>4 DEF Sems
    <3>2. count = old - Cardinality(G) - Cardinality(F)
      BY <2>2
    <3>. HIDE DEF G, F, old, new, count
    <3>3. count = new - Cardinality(G) - Cardinality(F \cup {p})
      BY <2>3, <3>1, <3>2
    <3>. QED
      BY <3>3 DEF old, new, count
  <2>. QED
    BY <1>1, <1>2, <1>3, <2>2, <2>5 DEF PoolCounted
<1>7. cont.call \in PoolCalls /\ cont = [call |-> cont.call, pool |-> pool]
  BY DEF PoolCalls
<1>8. s # SYSERR => semaph'[s].used
  BY <1>1, <1>2, PoolSem
<1>. HIDE DEF cont
<1>. QED
  BY <1>1, <1>2, <1>4, <1>6, <1>7, <1>8, PoolStep

\* freebuf(): the buffer is counted, or goes to who waits for it.
LEMMA freebufSignalsKeeps ==
  ASSUME TasksTyped, SemsOwned, PoolsInv, UNCHANGED queues,
         NEW p \in Procs, NEW pool, pool = doing[p].pool, freebufSignals(p)
  PROVE  PoolsInv' /\ TasksTyped' /\ SemsOwned' /\ Local(PoolCalls, PoolSems)
<1>. DEFINE s == bptab[pool].bpsem
            G == OnPool({"getbuf"}, pool)  F == OnPool({"freebuf"}, pool)
<1>1. /\ doing[p].call = "freebuf" /\ Goes(p, Idle) /\ semaph' = signal(s)
      /\ bptab' = bptab /\ buffers' = buffers /\ unlinked' = unlinked
  BY AtStep DEF freebufSignals, Returns, pools
<1>2. pool \in DOMAIN bptab /\ doing[p].call \in PoolCalls
  BY <1>1 DEF PoolsInv, PoolsTyped, PoolCalls
<1>3. OnPool({"getbuf"}, pool)' = G /\ OnPool({"freebuf"}, pool)' = F \ {p}
  <2>1. doing'[p] = Idle /\ \A q \in Procs \ {p} : doing'[q] = doing[q]
    BY <1>1, GoesFrom
  <2>. QED
    BY <1>1, <2>1 DEF OnPool, Idle
<1>4. semaph \in [Semaphores -> Sems]
  BY DEF TasksTyped, Sems
<1>5. p \in F
  BY <1>1 DEF OnPool
<1>6. /\ semaph' \in [Semaphores -> Sems]
      /\ \A t \in Semaphores : t # s => semaph'[t] = semaph[t]
      /\ s # SYSERR => semaph'[s].used
      /\ PoolCounted(pool)'
  <2>1. CASE s = SYSERR
    <3>1. semaph' = semaph
      BY <1>1, <1>2, <2>1, PoolSem DEF signal
    <3>. QED
      BY <1>1, <1>4, <2>1, <3>1 DEF PoolCounted
  <2>2. CASE s # SYSERR
    <3>1. s \in Semaphores /\ Known(s) /\ semaph[s].used /\ semaph[s] \in Sems
          /\ G \in SUBSET Procs /\ F \in SUBSET Procs
      BY <1>2, <2>2, PoolSem
    <3>2. semaph' = Signalled(semaph, s)
      BY <1>1, <3>1 DEF signal
    <3>3. /\ QueueFits(semaph[s], G)
          /\ semaph[s].semcnt = Len(bptab[pool].bpnext) - Cardinality(G) - Cardinality(F)
      BY <1>2, <2>2 DEF PoolsInv, PoolCounted
    <3>. HIDE DEF s, G
    <3>5. GoneOn(semaph, semaph', s, G)
      BY <1>4, <3>1, <3>2, <3>3, SignalFits
    <3>6. /\ semaph' \in [Semaphores -> Sems]
          /\ semaph'[s].used = semaph[s].used /\ semaph'[s].semcnt = semaph[s].semcnt + 1
          /\ \A t \in Semaphores : t # s => semaph'[t] = semaph[t]
          /\ QueueFits(semaph'[s], G)
      BY <3>5 DEF GoneOn
    <3>7. Cardinality(F \ {p}) = Cardinality(F) - 1 /\ Cardinality(G) \in Nat /\ Cardinality(F) \in Nat
      BY <1>5, <3>1, SomeProcs, FS_RemoveElement
    <3>8. semaph'[s].semcnt = Len(bptab[pool].bpnext) - Cardinality(G) - Cardinality(F \ {p})
      <4>. DEFINE chain == Len(bptab[pool].bpnext)  old == semaph[s].semcnt  new == semaph'[s].semcnt
      <4>1. chain \in Nat /\ old \in Int /\ new = old + 1
        BY <1>2, <3>1, <3>6, PoolSem DEF Sems, Pool
      <4>2. old = chain - Cardinality(G) - Cardinality(F)
        BY <3>3
      <4>. HIDE DEF F, chain, old, new
      <4>3. new = chain - Cardinality(G) - Cardinality(F \ {p})
        BY <3>7, <4>1, <4>2
      <4>. QED
        BY <4>3 DEF chain, new
    <3>. QED
      BY <1>1, <1>3, <2>2, <3>1, <3>6, <3>8 DEF PoolCounted, s, G, F
  <2>. QED
    BY <2>1, <2>2
<1>7. BuffersKept'
  BY <1>1, BuffersStay DEF PoolsInv
<1>8. /\ bptab' \in Seq(Pool) /\ buffers' \in [Procs -> SUBSET (Nat \X Nat)] /\ unlinked' \in BOOLEAN
  BY <1>1 DEF PoolsInv, PoolsTyped
<1>9. Idle.call = "idle"
  BY DEF Idle
<1>. QED
  BY <1>1, <1>2, <1>6, <1>7, <1>8, <1>9, PoolStep

\* Buffers follow each other in memory.
LEMMA Spaced ==
  ASSUME NEW at \in Nat, NEW size \in Nat \ {0}, NEW i \in Nat \ {0}, NEW j \in Nat \ {0}
  PROVE  /\ at + (i - 1) * size \in Nat
         /\ at + (i - 1) * size = at + (j - 1) * size => i = j
<1>1. \A k \in Nat : k * size \in Nat
  OBVIOUS
<1>2. i - 1 \in Nat /\ j - 1 \in Nat
  OBVIOUS
<1>3. ASSUME NEW k \in Nat, NEW l \in Nat, k < l PROVE k * size # l * size
  <2>1. PICK d \in Nat \ {0} : l = k + d
    <3>1. l - k \in Nat \ {0} /\ l = k + (l - k)
      BY <1>3
    <3>. QED
      BY <3>1
  <2>2. l * size = k * size + d * size
    BY <2>1
  <2>3. d * size \in Nat /\ d * size > 0
    BY <2>1
  <2>4. k * size \in Nat
    BY <1>1
  <2>. QED
    BY <2>2, <2>3, <2>4
<1>4. (i - 1) * size = (j - 1) * size => i = j
  <2>1. i - 1 < j - 1 \/ j - 1 < i - 1 \/ i = j
    OBVIOUS
  <2>. QED
    BY <1>2, <1>3, <2>1
<1>. QED
  BY <1>1, <1>2, <1>4

\* getmem() gives memory that was not in use.
LEMMA NewArea ==
  ASSUME MemoryInv, ~strayed, NEW n \in Nat \ {0}, NEW use \in Uses, Getmem(n, use)
  PROVE  \E a \in Areas : a \notin held /\ held' = held \cup {a} /\ a.use = use /\ held' \ held = {a}
<1>1. PICK b \in memlist : held' = held \cup {Area(b.at, roundmb(n), use)}
  BY DEF Getmem
<1>. DEFINE a == Area(b.at, roundmb(n), use)
<1>2. b \in Blocks /\ roundmb(n) \in Nat \ {0}
  BY RoundUp DEF MemoryInv, TypeOK
<1>3. a \in Areas /\ a.at = b.at /\ a.len = roundmb(n) /\ a.use = use
  BY <1>2 DEF Area, Areas, Blocks
<1>4. a \notin held
  <2>1. ~Apart(b, a)
    BY <1>2, <1>3 DEF Apart, End, Blocks
  <2>. QED
    BY <2>1 DEF MemoryInv, MemoryApart
<1>. HIDE DEF a
<1>. QED
  BY <1>1, <1>3, <1>4 DEF a

\* screate() takes a semaphore that nobody has, if there is one.
LEMMA NewSem ==
  newsem \in Semaphores \cup {SYSERR} /\ (newsem # SYSERR => newsem \in Semaphores /\ ~semaph[newsem].used)
<1>1. CASE \E s \in Semaphores : ~semaph[s].used
  BY <1>1 DEF newsem
<1>2. CASE ~\E s \in Semaphores : ~semaph[s].used
  BY <1>2 DEF newsem
<1>. QED
  BY <1>1, <1>2

\* A new semaphore is like no other.
LEMMA Created ==
  ASSUME TasksTyped, SemsOwned, NEW sem, sem = newsem, NEW count \in Nat,
         semaph' = screate(sem, count)
  PROVE  /\ semaph' \in [Semaphores -> Sems] /\ sem \in Semaphores \cup {SYSERR}
         /\ \A t \in Semaphores : t # sem => semaph'[t] = semaph[t]
         /\ sem # SYSERR => /\ sem \in Semaphores /\ ~semaph[sem].used
                            /\ semaph'[sem] = Counting(count)
                            /\ sem \notin PoolSems \cup Mutexes \cup {OSEMA, ISEMA}
<1>1. semaph \in [Semaphores -> Sems]
  BY DEF TasksTyped, Sems
<1>2. sem \in Semaphores \cup {SYSERR} /\ (sem # SYSERR => sem \in Semaphores /\ ~semaph[sem].used)
  BY NewSem
<1>3. Counting(count) \in Sems
  BY CountingFits
<1>4. CASE sem = SYSERR
  BY <1>1, <1>2, <1>4, Drivers DEF screate
<1>5. CASE sem # SYSERR
  <2>1. semaph' = [semaph EXCEPT ![sem] = Counting(count)]
    BY <1>5 DEF screate
  <2>2. sem \notin PoolSems \cup Mutexes \cup {OSEMA, ISEMA}
    BY <1>2, <1>5 DEF SemsOwned
  <2>. QED
    BY <1>1, <1>2, <1>3, <1>5, <2>1, <2>2
<1>. QED
  BY <1>4, <1>5

\* mkpool(): a new pool, with all its buffers in the chain (mkpool.c).
LEMMA mkpoolKeeps ==
  ASSUME TasksTyped, SemsOwned, PoolsInv, MemoryInv, ~strayed, UNCHANGED queues,
         NEW p \in Procs, NEW bufsiz \in BufferSizes, NEW numbufs \in BufferCounts,
         mkpool(p, bufsiz, numbufs)
  PROVE  PoolsInv' /\ TasksTyped' /\ SemsOwned' /\ Local(PoolCalls, PoolSems \cup PoolSems')
<1>. DEFINE size == bufsiz + Word
<1>0. PICK n : n = Len(bptab)
  OBVIOUS
<1>1. numbufs \in Nat \ {0} /\ size \in Nat \ {0} /\ size * numbufs \in Nat \ {0}
  <2>1. bufsiz \in Nat \ {0} /\ numbufs \in Nat \ {0}
    BY PoolsAssumption
  <2>2. size * numbufs \in Sizes
    BY AskedAssumption
  <2>. QED
    BY <2>1, <2>2, SizesAssumption DEF Word
<1>2. Getmem(size * numbufs, "heap")
  BY DEF mkpool
<1>3. PICK h \in Areas : held' \ held = {h}
  BY <1>1, <1>2, NewArea DEF Uses
<1>4. PICK sem : sem = newsem
  OBVIOUS
<1>. DEFINE chain == [i \in 1..numbufs |-> h.at + (i - 1) * size]
            new == [bptotal |-> numbufs, bpsem |-> sem, bpnext |-> chain]
<1>5. /\ bptab' = Append(bptab, new) /\ semaph' = screate(sem, numbufs)
      /\ doing' = doing /\ buffers' = buffers /\ unlinked' = unlinked
  BY <1>3, <1>4 DEF mkpool
<1>6. h.at \in Nat
  BY DEF Areas
<1>7. /\ chain \in Seq(Nat) /\ Len(chain) = numbufs
      /\ \A i, j \in 1..numbufs : chain[i] = chain[j] => i = j
  <2>. HIDE DEF size
  <2>1. ASSUME NEW i \in 1..numbufs, NEW j \in 1..numbufs
        PROVE  /\ h.at + (i - 1) * size \in Nat
               /\ h.at + (i - 1) * size = h.at + (j - 1) * size => i = j
    <3>1. i \in Nat \ {0} /\ j \in Nat \ {0}
      BY <1>1
    <3>. QED
      BY <1>1, <1>6, <3>1, Spaced
  <2>3. chain \in [1..numbufs -> Nat]
    BY <2>1, Zenon
  <2>4. ASSUME NEW i \in 1..numbufs, NEW j \in 1..numbufs, chain[i] = chain[j] PROVE i = j
    <3>1. chain[i] = h.at + (i - 1) * size /\ chain[j] = h.at + (j - 1) * size
      BY Zenon
    <3>. HIDE DEF chain
    <3>. QED
      BY <2>1, <2>4, <3>1, Zenon
  <2>. QED
    BY <1>1, <2>3, <2>4
<1>8. /\ semaph' \in [Semaphores -> Sems] /\ sem \in Semaphores \cup {SYSERR}
      /\ \A t \in Semaphores : t # sem => semaph'[t] = semaph[t]
      /\ sem # SYSERR => /\ sem \in Semaphores /\ ~semaph[sem].used
                         /\ semaph'[sem] = Counting(numbufs)
                         /\ sem \notin PoolSems \cup Mutexes \cup {OSEMA, ISEMA}
  BY <1>1, <1>4, <1>5, Created
<1>. HIDE DEF chain
<1>9. new \in Pool /\ new.bpsem = sem /\ new.bpnext = chain /\ new.bptotal = numbufs
  BY <1>1, <1>7, <1>8 DEF Pool
<1>. HIDE DEF new
<1>10. bptab \in Seq(Pool) /\ n \in Nat /\ DOMAIN bptab = 1..n
  BY <1>0 DEF PoolsInv, PoolsTyped
<1>11. /\ bptab' \in Seq(Pool) /\ Len(bptab') = n + 1 /\ bptab'[n + 1] = new
       /\ \A i \in 1..n : bptab'[i] = bptab[i]
  BY <1>0, <1>5, <1>9, <1>10, AppendProperties
<1>12. DOMAIN bptab' = 1..n + 1 /\ DOMAIN bptab' = DOMAIN bptab \cup {n + 1} /\ n + 1 \notin DOMAIN bptab
  BY <1>10, <1>11
<1>13. \A i : Out(i)' = Out(i) /\ OnPool({"getbuf"}, i)' = OnPool({"getbuf"}, i)
              /\ OnPool({"freebuf"}, i)' = OnPool({"freebuf"}, i)
  BY <1>5 DEF Out, OnPool
<1>14. Out(n + 1) = {} /\ OnPool({"getbuf"}, n + 1) = {} /\ OnPool({"freebuf"}, n + 1) = {}
  <2>1. \A q \in Procs : \A buf \in buffers[q] : buf[1] # n + 1
    BY <1>12 DEF PoolsInv, BuffersKept
  <2>2. \A q \in Procs : doing[q].call \in PoolCalls => doing[q].pool # n + 1
    BY <1>12 DEF PoolsInv, PoolsTyped
  <2>. QED
    BY <2>1, <2>2 DEF Out, OnPool, PoolCalls
<1>15. Cardinality({}) = 0 /\ IsFiniteSet({})
  BY FS_EmptySet
<1>16. \A i \in 1..n + 1 : PoolKept(i)'
  <2>1. PoolKept(n + 1)'
    <3>1. /\ bptab'[n + 1].bpnext = chain /\ bptab'[n + 1].bptotal = numbufs
          /\ Out(n + 1)' = {}
      BY <1>9, <1>11, <1>13, <1>14
    <3>2. numbufs + 0 = numbufs
      BY <1>1
    <3>. QED
      BY <1>7, <1>15, <3>1, <3>2 DEF PoolKept
  <2>2. ASSUME NEW i \in 1..n PROVE PoolKept(i)'
    <3>1. bptab'[i] = bptab[i] /\ Out(i)' = Out(i) /\ PoolKept(i)
      BY <1>10, <1>11, <1>13 DEF PoolsInv, BuffersKept
    <3>. QED
      BY <3>1 DEF PoolKept
  <2>. QED
    BY <1>10, <2>1, <2>2
<1>17. \A i \in 1..n + 1 : PoolCounted(i)'
  <2>1. PoolCounted(n + 1)'
    <3>. SUFFICES ASSUME sem # SYSERR PROVE PoolCounted(n + 1)'
      BY <1>9, <1>11 DEF PoolCounted
    <3>1. semaph'[sem] = Counting(numbufs) /\ QueueFits(Counting(numbufs), {}) /\ Counting(numbufs).semcnt = numbufs
      BY <1>1, <1>8, CountingFits
    <3>. QED
      <4>1. /\ bptab'[n + 1].bpnext = chain /\ bptab'[n + 1].bpsem = sem
            /\ OnPool({"getbuf"}, n + 1)' = {} /\ OnPool({"freebuf"}, n + 1)' = {}
        BY <1>9, <1>11, <1>13, <1>14
      <4>2. numbufs - 0 - 0 = numbufs
        BY <1>1
      <4>. QED
        BY <1>7, <1>15, <3>1, <4>1, <4>2 DEF PoolCounted
  <2>2. ASSUME NEW i \in 1..n PROVE PoolCounted(i)'
    <3>1. bptab'[i] = bptab[i] /\ PoolCounted(i) /\ i \in DOMAIN bptab
      BY <1>10, <1>11 DEF PoolsInv
    <3>2. bptab[i].bpsem # SYSERR => bptab[i].bpsem \in Semaphores /\ bptab[i].bpsem \in PoolSems
      BY <3>1, PoolSem
    <3>3. bptab[i].bpsem # SYSERR => semaph'[bptab[i].bpsem] = semaph[bptab[i].bpsem]
      BY <1>8, <3>2
    <3>. QED
      BY <1>13, <3>1, <3>3, CountedFrame
  <2>. QED
    BY <1>10, <2>1, <2>2
<1>18. PoolsInv'
  <2>1. PoolsTyped'
    BY <1>5, <1>11, <1>12 DEF PoolsInv, PoolsTyped
  <2>2. BuffersKept'
    BY <1>5, <1>12, <1>16 DEF PoolsInv, BuffersKept
  <2>3. unlinked' => \E i \in DOMAIN bptab' : bptab'[i].bpsem = SYSERR
    BY <1>5, <1>10, <1>11, <1>12 DEF PoolsInv
  <2>. QED
    BY <1>12, <1>17, <2>1, <2>2, <2>3 DEF PoolsInv
<1>19. TasksTyped'
  BY <1>5, <1>8 DEF TasksTyped, Sems
<1>20. PoolSems' = PoolSems \cup ({sem} \ {SYSERR}) /\ Mutexes' = Mutexes
  <2>1. PoolSems' = {bptab'[i].bpsem : i \in DOMAIN bptab'} \ {SYSERR}
    BY DEF PoolSems
  <2>2. {bptab'[i].bpsem : i \in DOMAIN bptab'} = {bptab[i].bpsem : i \in DOMAIN bptab} \cup {sem}
    BY <1>9, <1>10, <1>11, <1>12
  <2>. QED
    BY <2>1, <2>2 DEF PoolSems, Mutexes, queues
<1>21. SemsOwned'
  <2>1. \A i, j \in DOMAIN bptab' : bptab'[i].bpsem = bptab'[j].bpsem /\ bptab'[i].bpsem # SYSERR => i = j
    <3>1. \A i, j \in DOMAIN bptab : bptab[i].bpsem = bptab[j].bpsem /\ bptab[i].bpsem # SYSERR => i = j
      BY DEF SemsOwned
    <3>2. \A i \in DOMAIN bptab : bptab[i].bpsem # SYSERR => bptab[i].bpsem # sem
      BY <1>8 DEF PoolSems
    <3>. QED
      BY <1>9, <1>10, <1>11, <1>12, <3>1, <3>2
  <2>2. Q' = Q
    BY DEF queues
  <2>3. \A t \in Semaphores : semaph'[t].used <=> t \in PoolSems' \cup Mutexes' \cup {OSEMA, ISEMA}
    <3>1. Counting(numbufs).used
      BY DEF Counting
    <3>. QED
      BY <1>8, <1>20, <3>1, Drivers DEF SemsOwned
  <2>4. \A t \in Semaphores : ~semaph'[t].used => semaph'[t] = Free
    <3>1. Counting(numbufs).used
      BY DEF Counting
    <3>. QED
      BY <1>8, <3>1, Drivers DEF SemsOwned
  <2>5. /\ PoolSems' \cup Mutexes' \subseteq Semaphores /\ PoolSems' \cap Mutexes' = {}
        /\ OSEMA \notin PoolSems' \cup Mutexes' /\ ISEMA \notin PoolSems' \cup Mutexes'
    BY <1>8, <1>20 DEF SemsOwned
  <2>. QED
    BY <2>1, <2>2, <2>3, <2>4, <2>5 DEF SemsOwned
<1>22. Local(PoolCalls, PoolSems \cup PoolSems')
  BY <1>5, <1>8, <1>20, Drivers DEF Local
<1>. QED
  BY <1>18, <1>19, <1>21, <1>22

-------------------------------------------------------------------------------
(***************************************************************************)
(* The console's input.                                                    *)
(***************************************************************************)
\* A step of a call of a driver keeps to that driver's semaphore.
LEMMA DriverStep ==
  ASSUME TasksTyped, SemsOwned, UNCHANGED lent, NEW calls, NEW sem \in {ISEMA, OSEMA},
         doing' = [q \in Procs |-> doing'[q]],
         \A q \in Procs : doing'[q] # doing[q] =>
           doing[q].call \in calls \cup {"idle"} /\ doing'[q].call \in calls \cup {"idle"},
         semaph' \in [Semaphores -> Sems], \A t \in Semaphores : t # sem => semaph'[t] = semaph[t],
         semaph'[sem].used
  PROVE  TasksTyped' /\ SemsOwned' /\ Local(calls, {sem})
<1>1. TasksTyped'
  BY DEF TasksTyped, Sems
<1>2. Local(calls, {sem})
  BY DEF Local
<1>3. semaph[sem].used /\ bptab' = bptab /\ Q' = Q
  BY Drivers DEF SemsOwned, lent, pools, queues
<1>4. SemsOwned'
  <2>1. \A t \in Semaphores : semaph'[t] = semaph[t] \/ (semaph[t].used /\ semaph'[t].used)
    BY <1>3
  <2>. QED
    BY <1>3, <2>1, OwnersKept
<1>. QED
  BY <1>1, <1>2, <1>4

\* The driver's semaphores are always there.
LEMMA DriverSems ==
  ASSUME TasksTyped, SemsOwned
  PROVE  /\ Known(OSEMA) /\ Known(ISEMA)
         /\ semaph[OSEMA] \in Sems /\ semaph[ISEMA] \in Sems
         /\ semaph \in [Semaphores -> Sems]
         /\ semaph[OSEMA].used /\ semaph[ISEMA].used
         /\ semaph[OSEMA].semcnt \in Int /\ semaph[ISEMA].semcnt \in Int
BY Drivers DEF TasksTyped, Sems, Known, SemsOwned

\* A process whose call changes within the driver's calls.
LEMMA GoesWithin ==
  ASSUME TasksTyped, NEW p \in Procs, NEW cont, Goes(p, cont), NEW calls,
         doing[p].call \in calls \cup {"idle"}, cont.call \in calls \cup {"idle"}
  PROVE  /\ doing' = [q \in Procs |-> doing'[q]] /\ doing'[p] = cont
         /\ \A q \in Procs : q # p => doing'[q] = doing[q]
         /\ \A q \in Procs : doing'[q] # doing[q] =>
              doing[q].call \in calls \cup {"idle"} /\ doing'[q].call \in calls \cup {"idle"}
<1>1. /\ doing' = [q \in Procs |-> doing'[q]] /\ doing'[p] = cont
      /\ \A q \in Procs \ {p} : doing'[q] = doing[q]
  BY GoesFrom
<1>. QED
  BY <1>1

\* Some of a set of places is the last one (delword in ttyiin.c, the loop of enq()).
LEMMA GreatestThere ==
  ASSUME NEW n \in Nat, NEW S \in SUBSET (1..n), S # {}
  PROVE  /\ (CHOOSE i \in S : \A j \in S : j <= i) \in S
         /\ \A j \in S : j <= CHOOSE i \in S : \A k \in S : k <= i
<1>. DEFINE T == {n - i : i \in S}
<1>1. T \in SUBSET Nat /\ T # {}
  <2>1. \A i \in S : n - i \in Nat
    OBVIOUS
  <2>. QED
    BY <2>1
<1>. HIDE DEF T
<1>2. Min(T) \in T /\ \A y \in T : Min(T) <= y
  BY <1>1, MinIsLeast
<1>3. PICK m \in S : Min(T) = n - m
  BY <1>2 DEF T
<1>4. \A j \in S : n - m <= n - j
  BY <1>2, <1>3 DEF T
<1>5. \A j \in S : j <= m
  BY <1>4
<1>. QED
  BY <1>5, Zenon

\* What is typed and kept: at most one character more, and none but it is new.
LEMMA TypedKeeps ==
  ASSUME line \in Seq(Characters), NEW ch \in Characters, Typed(ch)
  PROVE  /\ line' \in Seq(Characters)
         /\ ch \notin {"\n", "eof"} /\ LineTyped' => LineTyped
<1>0. Len(line) \in Nat /\ DOMAIN line = 1..Len(line)
  OBVIOUS
<1>1. ASSUME NEW n \in 0..Len(line), line' = SubSeq(line, 1, n)
      PROVE  line' \in Seq(Characters) /\ (LineTyped' => LineTyped)
  <2>1. /\ line' \in Seq(Characters) /\ Len(line') = n
        /\ \A i \in 1..n : line'[i] = line[i]
    <3>1. 1 \in Int /\ n \in Int
      BY <1>0
    <3>2. \A i \in 1..n : i \in 1..Len(line)
      BY <1>0
    <3>. QED
      BY <1>0, <1>1, <3>1, <3>2, SubSeqProperties
  <2>2. DOMAIN line' = 1..n
    BY <2>1
  <2>. QED
    BY <1>0, <2>1, <2>2 DEF LineTyped
<1>2. line' = line => line' \in Seq(Characters) /\ (LineTyped' => LineTyped)
  BY DEF LineTyped
<1>3. CASE ch = "erase"
  <2>1. line' = delchar
    BY <1>3 DEF Typed
  <2>2. CASE line = <<>> \/ LastTyped = "\n"
    BY <1>2, <2>1, <2>2 DEF delchar
  <2>3. CASE ~(line = <<>> \/ LastTyped = "\n")
    <3>1. line' = SubSeq(line, 1, Len(line) - 1) /\ Len(line) - 1 \in 0..Len(line)
      BY <1>0, <2>1, <2>3 DEF delchar
    <3>. QED
      BY <1>1, <3>1
  <2>. QED
    BY <2>2, <2>3
<1>4. CASE ch = "werase"
  <2>1. line' = delword
    BY <1>4 DEF Typed
  <2>2. CASE line = <<>> \/ LastTyped = "\n"
    BY <1>2, <2>1, <2>2 DEF delword
  <2>3. CASE ~(line = <<>> \/ LastTyped = "\n")
    <3>. DEFINE Ends == {i \in 1..Len(line) : line[i] = "\n" \/ KIND(line[i]) # KIND(LastTyped)}
    <3>1. line' = SubSeq(line, 1, IF Ends = {} THEN 0 ELSE CHOOSE i \in Ends : \A j \in Ends : j <= i)
      BY <2>1, <2>3 DEF delword
    <3>2. CASE Ends = {}
      <4>1. line' = SubSeq(line, 1, 0) /\ 0 \in 0..Len(line)
        BY <1>0, <3>1, <3>2
      <4>. QED
        BY <1>1, <4>1
    <3>3. CASE Ends # {}
      <4>1. Ends \in SUBSET (1..Len(line))
        OBVIOUS
      <4>. HIDE DEF Ends
      <4>3. (CHOOSE i \in Ends : \A j \in Ends : j <= i) \in Ends
        BY <1>0, <3>3, <4>1, GreatestThere
      <4>4. PICK n \in Ends : n = CHOOSE i \in Ends : \A j \in Ends : j <= i
        BY <4>3
      <4>5. n \in 0..Len(line) /\ line' = SubSeq(line, 1, n)
        <5>1. n \in 0..Len(line)
          BY <1>0, <4>1
        <5>2. line' = SubSeq(line, 1, n)
          BY <3>1, <3>3, <4>4
        <5>. QED
          BY <5>1, <5>2
      <4>. QED
        BY <1>1, <4>5
    <3>. QED
      BY <3>2, <3>3
  <2>. QED
    BY <2>2, <2>3
<1>5. CASE ch # "erase" /\ ch # "werase"
  <2>1. line' = iputchar(ch)
    BY <1>5 DEF Typed
  <2>2. CASE Len(line) < IBLEN
    <3>1. line' = Append(line, ch)
      BY <2>1, <2>2 DEF iputchar
    <3>2. /\ line' \in Seq(Characters) /\ Len(line') = Len(line) + 1
          /\ \A i \in 1..Len(line) : line'[i] = line[i]
          /\ line'[Len(line) + 1] = ch
      BY <3>1, AppendProperties
    <3>3. DOMAIN line' = 1..Len(line) + 1
      BY <3>2
    <3>4. \A i \in 1..Len(line) + 1 : i \in 1..Len(line) \/ i = Len(line) + 1
      BY <1>0
    <3>5. ch \notin {"\n", "eof"} /\ LineTyped' => LineTyped
      <4>. SUFFICES ASSUME ch \notin {"\n", "eof"}, LineTyped' PROVE LineTyped
        OBVIOUS
      <4>1. PICK i \in DOMAIN line' : line'[i] \in {"\n", "eof"}
        BY DEF LineTyped
      <4>2. i \in 1..Len(line)
        BY <3>2, <3>3, <3>4, <4>1
      <4>. QED
        BY <1>0, <3>2, <4>1, <4>2 DEF LineTyped
    <3>6. line' \in Seq(Characters)
      BY <3>2
    <3>. QED
      BY <3>5, <3>6
  <2>3. CASE ~(Len(line) < IBLEN)
    BY <1>2, <2>1, <2>3 DEF iputchar
  <2>. QED
    BY <2>2, <2>3
<1>. QED
  BY <1>3, <1>4, <1>5

\* Let in by the count, or waiting for a line.
Readers == {"ttyreadTakes", "nextc"}

\* Who does not touch a semaphore leaves all with their owners.
LEMMA SameOwners ==
  ASSUME TasksTyped, SemsOwned, UNCHANGED <<doing, semaph, pools, queues>>
  PROVE  TasksTyped' /\ SemsOwned'
<1>1. TasksTyped'
  BY DEF TasksTyped
<1>2. SemsOwned'
  BY OwnersKept DEF pools, queues
<1>. QED
  BY <1>1, <1>2

\* A process goes on within the calls of the input.
LEMMA InputMoves ==
  ASSUME TasksTyped, SemsOwned, InputInv, UNCHANGED lent,
         NEW p \in Procs, NEW cont, Goes(p, cont),
         doing[p].call \in InputCalls \cup {"idle"}, cont.call \in InputCalls \cup {"idle"},
         cont.call = "ttyread" => cont = [call |-> "ttyread", len |-> cont.len] /\ cont.len \in Nat,
         cont.call = "ttyreadTakes" => cont.len \in Nat,
         NEW V, \A q \in Procs : q \in V <=> IF q = p THEN cont.call \in Readers
                                                      ELSE q \in InCall(Readers),
         V \subseteq Procs,
         semaph' \in [Semaphores -> Sems], \A t \in Semaphores : t # ISEMA => semaph'[t] = semaph[t],
         semaph'[ISEMA].used, QueueFits(semaph'[ISEMA], V),
         line' \in Seq(Characters), eof' \in BOOLEAN, rest' \in BOOLEAN, UNCHANGED echoing,
         LineTyped' /\ ~rest' /\ echoing = 0 =>
           \/ semaph'[ISEMA].semcnt > 0
           \/ \E q \in V : q \notin Row(semaph'[ISEMA])
  PROVE  InputInv' /\ TasksTyped' /\ SemsOwned' /\ Local(InputCalls, {ISEMA})
<1>1. /\ doing' = [q \in Procs |-> doing'[q]] /\ doing'[p] = cont
      /\ \A q \in Procs : q # p => doing'[q] = doing[q]
      /\ \A q \in Procs : doing'[q] # doing[q] =>
           doing[q].call \in InputCalls \cup {"idle"} /\ doing'[q].call \in InputCalls \cup {"idle"}
  BY GoesWithin
<1>2. TasksTyped' /\ SemsOwned' /\ Local(InputCalls, {ISEMA})
  BY <1>1, DriverStep
<1>3. InCall(Readers)' = V
  BY <1>1 DEF InCall
<1>4. /\ \A q \in Procs : doing'[q].call = "ttyread" =>
           doing'[q] = [call |-> "ttyread", len |-> doing'[q].len] /\ doing'[q].len \in Nat
      /\ \A q \in Procs : doing'[q].call = "ttyreadTakes" => doing'[q].len \in Nat
  <2>. SUFFICES ASSUME NEW q \in Procs
                PROVE  /\ doing'[q].call = "ttyread" =>
                            doing'[q] = [call |-> "ttyread", len |-> doing'[q].len] /\ doing'[q].len \in Nat
                       /\ doing'[q].call = "ttyreadTakes" => doing'[q].len \in Nat
    OBVIOUS
  <2>1. CASE q = p
    BY <1>1, <2>1
  <2>2. CASE q # p
    BY <1>1, <2>2 DEF InputInv
  <2>. QED
    BY <2>1, <2>2
<1>5. Announcement'
  BY <1>3 DEF Announcement, Readers
<1>6. QueueFits(semaph[ISEMA], InCall(Readers))'
  BY <1>3
<1>. QED
  BY <1>2, <1>4, <1>5, <1>6 DEF InputInv, Readers

\* What is typed, up to the echo (ttyiin.c).
LEMMA ttyiinKeeps ==
  ASSUME TasksTyped, SemsOwned, InputInv, UNCHANGED lent, NEW ch \in Characters, ttyiin(ch)
  PROVE  InputInv' /\ TasksTyped' /\ SemsOwned' /\ Local(InputCalls, {ISEMA})
<1>1. /\ UNCHANGED <<doing, semaph>> /\ Typed(ch) /\ rest' = (rest /\ line' # <<>>)
      /\ eof' \in BOOLEAN
      /\ ch \in LineEnds => echoing' = echoing + 1
      /\ ch \notin LineEnds => echoing' = echoing
  BY DEF ttyiin, tasks
<1>2. echoing' \in Nat /\ (ch \in LineEnds => echoing' # 0)
  BY <1>1 DEF InputInv
<1>3. line' \in Seq(Characters) /\ (ch \notin {"\n", "eof"} /\ LineTyped' => LineTyped)
  BY TypedKeeps, <1>1 DEF InputInv
<1>4. rest' \in BOOLEAN /\ (rest => rest' \/ line' = <<>>)
  BY <1>1 DEF InputInv
<1>5. LineTyped' => line' # <<>>
  BY DEF LineTyped
<1>6. Announcement'
  BY <1>1, <1>2, <1>3, <1>4, <1>5 DEF Announcement, InputInv, InCall, LineEnds
<1>7. TasksTyped' /\ SemsOwned'
  BY <1>1, SameOwners DEF lent
<1>8. Local(InputCalls, {ISEMA})
  BY <1>1 DEF Local
<1>9. QueueFits(semaph[ISEMA], InCall(Readers))'
  BY <1>1 DEF InputInv, InCall, Readers
<1>. QED
  BY <1>1, <1>2, <1>3, <1>4, <1>6, <1>7, <1>8, <1>9 DEF InputInv, Readers

\* Behind the echo, a line is announced.
LEMMA ttyiinAnnouncesKeeps ==
  ASSUME TasksTyped, SemsOwned, InputInv, UNCHANGED lent, ttyiinAnnounces
  PROVE  InputInv' /\ TasksTyped' /\ SemsOwned' /\ Local(InputCalls, {ISEMA})
<1>. DEFINE W == InCall(Readers)
            s == ISEMA
            count == semaph[ISEMA].semcnt
<1>1. UNCHANGED <<doing, line, eof, rest>> /\ semaph' = Announced /\ echoing' \in Nat
  BY DEF ttyiinAnnounces, InputInv
<1>2. /\ semaph \in [Semaphores -> Sems] /\ s \in Semaphores /\ Known(s) /\ semaph[s].used
      /\ semaph[s] \in Sems /\ count \in Int
  BY DriverSems, Drivers
<1>4. W \in SUBSET Procs /\ QueueFits(semaph[s], W)
  BY DEF InputInv, InCall, Readers
<1>5. UNCHANGED InCall(Readers)
  BY <1>1 DEF InCall
<1>6. /\ semaph' \in [Semaphores -> Sems] /\ \A t \in Semaphores : t # s => semaph'[t] = semaph[t]
      /\ semaph'[s].used /\ QueueFits(semaph'[s], W) /\ Announcement'
  <2>1. CASE count <= 0
    <3>1. semaph' = Signalled(semaph, s)
      BY <1>1, <1>2, <2>1 DEF Announced, signal
    <3>2. GoneOn(semaph, semaph', s, W)
      <4>. HIDE DEF s, W
      <4>. QED
        BY <1>2, <1>4, <3>1, SignalFits
    <3>3. /\ semaph' \in [Semaphores -> Sems] /\ \A t \in Semaphores : t # s => semaph'[t] = semaph[t]
          /\ semaph'[s].used = semaph[s].used /\ semaph'[s].semcnt = count + 1
          /\ QueueFits(semaph'[s], W)
          /\ count < 0 => \E p \in Row(semaph[s]) : p \notin Row(semaph'[s])
      BY <3>2 DEF GoneOn
    <3>4. Row(semaph[s]) \subseteq W
      BY <1>2, <1>4, RowCounted
    <3>5. semaph'[s].semcnt > 0 \/ \E p \in W : p \notin Row(semaph'[s])
      BY <1>2, <3>3, <3>4
    <3>. QED
      BY <1>2, <1>5, <3>3, <3>5 DEF Announcement, Readers
  <2>2. CASE ~(count <= 0)
    <3>1. semaph' = semaph /\ semaph'[ISEMA].semcnt > 0
      BY <1>1, <1>2, <2>2 DEF Announced
    <3>. QED
      BY <1>2, <1>4, <3>1 DEF Announcement
  <2>. QED
    BY <2>1, <2>2
<1>7. TasksTyped' /\ SemsOwned' /\ Local(InputCalls, {ISEMA})
  <2>1. doing' = [q \in Procs |-> doing'[q]] /\ \A q \in Procs : doing'[q] = doing[q]
    BY <1>1 DEF TasksTyped
  <2>. QED
    BY <1>6, <2>1, DriverStep
<1>8. QueueFits(semaph[ISEMA], InCall(Readers))'
  BY <1>5, <1>6
<1>. QED
  BY <1>1, <1>6, <1>7, <1>8 DEF InputInv, Readers

\* The first two steps of a read, and the end of the file (ttyread.c).
LEMMA ttyreadKeeps ==
  ASSUME TasksTyped, SemsOwned, InputInv, UNCHANGED lent, NEW p \in Procs,
         \/ \E len \in {1, IBLEN} : ttyread(p, len)
         \/ ttyreadEnds(p)
  PROVE  InputInv' /\ TasksTyped' /\ SemsOwned' /\ Local(InputCalls, {ISEMA})
<1>1. PICK cont : /\ Goes(p, cont) /\ cont.call \in {"idle", "ttyread", "ttyreadEnd"}
                  /\ cont.call = "ttyread" => cont = [call |-> "ttyread", len |-> cont.len]
                                              /\ cont.len \in Nat
  <2>1. ASSUME NEW len \in {1, IBLEN}, ttyread(p, len)
        PROVE  \E cont : /\ Goes(p, cont) /\ cont.call \in {"idle", "ttyread", "ttyreadEnd"}
                         /\ cont.call = "ttyread" => cont = [call |-> "ttyread", len |-> cont.len]
                                                     /\ cont.len \in Nat
    <3>1. len \in Nat
      BY IBLENAssumption
    <3>2. Goes(p, [call |-> "ttyreadEnd"]) \/ Goes(p, [call |-> "ttyread", len |-> len])
      BY <2>1 DEF ttyread
    <3>. QED
      BY <3>1, <3>2
  <2>2. ttyreadEnds(p) => Goes(p, Idle)
    BY DEF ttyreadEnds, Returns
  <2>3. Idle.call = "idle"
    BY DEF Idle
  <2>. QED
    BY <2>1, <2>2, <2>3
<1>2. /\ doing[p].call \in {"idle", "ttyreadEnd"} /\ UNCHANGED <<semaph, line, rest, echoing>> /\ eof' \in BOOLEAN
  BY CallsIdle, AtStep DEF ttyread, ttyreadEnds, InputInv, input
<1>. DEFINE V == InCall(Readers)
<1>3. /\ V \subseteq Procs
      /\ \A q \in Procs : q \in V <=> IF q = p THEN cont.call \in Readers ELSE q \in InCall(Readers)
  BY <1>1, <1>2 DEF InCall, Readers
<1>4. /\ semaph' \in [Semaphores -> Sems] /\ \A t \in Semaphores : t # ISEMA => semaph'[t] = semaph[t]
      /\ semaph'[ISEMA].used /\ QueueFits(semaph'[ISEMA], V)
  BY <1>2, DriverSems DEF InputInv, Readers
<1>5. LineTyped' /\ ~rest' /\ echoing = 0 =>
        \/ semaph'[ISEMA].semcnt > 0
        \/ \E q \in V : q \notin Row(semaph'[ISEMA])
  BY <1>2 DEF InputInv, Announcement, LineTyped, Readers
<1>6. line' \in Seq(Characters) /\ rest' \in BOOLEAN
  BY <1>2 DEF InputInv
<1>7. doing[p].call \in InputCalls \cup {"idle"} /\ cont.call \in InputCalls \cup {"idle"}
  BY <1>1, <1>2 DEF InputCalls
<1>. HIDE DEF V
<1>. QED
  BY <1>1, <1>2, <1>3, <1>4, <1>5, <1>6, <1>7, InputMoves

\* A read takes what there is, or what it was asked for.
LEMMA TakesSome ==
  ASSUME InputInv, NEW p, NEW len \in Nat, Takes(p, len)
  PROVE  /\ line' \in Seq(Characters) /\ UNCHANGED <<eof, echoing>> /\ Goes(p, Idle) /\ rest' \in BOOLEAN
         /\ LineTyped' => rest'
<1>. DEFINE count == IF Len(line) < len THEN Len(line) ELSE len
<1>1. /\ line' = SubSeq(line, count + 1, Len(line))
      /\ rest' = (line' # <<>>) /\ UNCHANGED <<eof, echoing>> /\ Goes(p, Idle)
  BY DEF Takes, Returns
<1>2. line \in Seq(Characters) /\ Len(line) \in Nat /\ count \in Nat
  BY DEF InputInv
<1>3. line' \in Seq(Characters)
  <2>1. count + 1 \in 1..Len(line) + 1 /\ Len(line) \in count..Len(line)
    BY <1>2
  <2>. HIDE DEF count
  <2>2. \A i \in count + 1..Len(line) : line[i] \in Characters
    BY <1>2, <2>1
  <2>. QED
    BY <1>1, <1>2, <2>1, <2>2, SubSeqProperties
<1>4. LineTyped' => line' # <<>>
  BY DEF LineTyped
<1>. QED
  BY <1>1, <1>3, <1>4

\* A read waits for its turn, and takes what is there when it is let in at once.
LEMMA ttyreadWaitsKeeps ==
  ASSUME TasksTyped, SemsOwned, InputInv, UNCHANGED lent, NEW p \in Procs, ttyreadWaits(p)
  PROVE  InputInv' /\ TasksTyped' /\ SemsOwned' /\ Local(InputCalls, {ISEMA})
<1>. DEFINE W == InCall(Readers)
            s == ISEMA
            U == W \cup {p}
<1>1. /\ doing[p].call = "ttyread" /\ \A t \in Semaphores : p \notin Row(semaph[t])
      /\ doing[p] = [call |-> "ttyread", len |-> doing[p].len] /\ doing[p].len \in Nat
  BY AtStep DEF ttyreadWaits, InputInv
<1>2. /\ semaph \in [Semaphores -> Sems] /\ s \in Semaphores /\ Known(s) /\ semaph[s].used
      /\ semaph[s] \in Sems /\ semaph[s].semcnt \in Int
  BY DriverSems, Drivers
<1>3. W \in SUBSET Procs /\ QueueFits(semaph[s], W) /\ p \in U /\ U \subseteq Procs
      /\ (\A q \in W : q \in U) /\ p \notin W
  BY <1>1 DEF InputInv, InCall, Readers
<1>4. semaph' = Waited(semaph, p, s)
  BY <1>2 DEF ttyreadWaits, wait
<1>5. Joined(semaph, semaph', s, p, U)
  <2>1. p \notin Row(semaph[s])
    BY <1>1, <1>2
  <2>. HIDE DEF s, U, W
  <2>. QED
    BY <1>2, <1>3, <1>4, <2>1, WaitFits
<1>6. /\ semaph' \in [Semaphores -> Sems] /\ \A t \in Semaphores : t # s => semaph'[t] = semaph[t]
      /\ semaph'[s].used /\ QueueFits(semaph'[s], U)
      /\ semaph[s].semcnt >= 1 => Row(semaph'[s]) = {}
      /\ semaph[s].semcnt < 1 => p \in Row(semaph'[s])
      /\ Row(semaph'[s]) \subseteq Row(semaph[s]) \cup {p}
  BY <1>2, <1>5 DEF Joined
<1>7. CASE semaph[ISEMA].semcnt > 0
  <2>1. Takes(p, doing[p].len)
    BY <1>7 DEF ttyreadWaits
  <2>2. /\ line' \in Seq(Characters) /\ UNCHANGED <<eof, echoing>> /\ Goes(p, Idle) /\ rest' \in BOOLEAN
        /\ LineTyped' => rest'
    <3>. DEFINE len == doing[p].len
    <3>1. len \in Nat /\ Takes(p, len)
      BY <1>1, <2>1
    <3>. HIDE DEF len
    <3>. QED
      BY <3>1, TakesSome
  <2>3. Row(semaph'[s]) \subseteq W
    BY <1>2, <1>6, <1>7
  <2>4. QueueFits(semaph'[s], W)
    <3>. HIDE DEF s, W, U
    <3>. QED
      BY <1>6, <2>3, OthersFit
  <2>5. Idle.call = "idle" /\ Idle.call \notin Readers
    BY DEF Idle, Readers
  <2>6. \A q \in Procs : q \in W <=> IF q = p THEN Idle.call \in Readers ELSE q \in InCall(Readers)
    BY <1>3, <2>5
  <2>7. doing[p].call \in InputCalls \cup {"idle"} /\ eof' \in BOOLEAN
    BY <1>1, <2>2 DEF InputCalls, InputInv
  <2>. HIDE DEF W
  <2>. QED
    BY <1>3, <1>6, <2>2, <2>4, <2>5, <2>6, <2>7, InputMoves
<1>8. CASE ~(semaph[ISEMA].semcnt > 0)
  <2>. DEFINE cont == [doing[p] EXCEPT !.call = "ttyreadTakes"]
  <2>1. Goes(p, cont) /\ UNCHANGED input /\ cont.call = "ttyreadTakes" /\ cont.len \in Nat
    BY <1>1, <1>8 DEF ttyreadWaits
  <2>2. \A q \in Procs : q \in U <=> IF q = p THEN cont.call \in Readers ELSE q \in InCall(Readers)
    BY <2>1 DEF Readers
  <2>3. LineTyped' /\ ~rest' /\ echoing = 0 => \E q \in U : q \notin Row(semaph'[ISEMA])
    BY <1>3, <1>6, <1>8, <2>1 DEF InputInv, Announcement, input, LineTyped, Readers
  <2>4. /\ doing[p].call \in InputCalls \cup {"idle"} /\ cont.call \in InputCalls \cup {"idle"}
        /\ line' \in Seq(Characters) /\ eof' \in BOOLEAN /\ rest' \in BOOLEAN
        /\ UNCHANGED echoing /\ cont.call # "ttyread"
    BY <1>1, <2>1 DEF InputInv, input, InputCalls
  <2>. HIDE DEF U, cont
  <2>. QED
    BY <1>3, <1>6, <2>1, <2>2, <2>3, <2>4, InputMoves
<1>. QED
  BY <1>7, <1>8

\* Let in after it waited, a read takes what is there, be it nothing.
LEMMA ttyreadTakesKeeps ==
  ASSUME TasksTyped, SemsOwned, InputInv, UNCHANGED lent, NEW p \in Procs, ttyreadTakes(p)
  PROVE  InputInv' /\ TasksTyped' /\ SemsOwned' /\ Local(InputCalls, {ISEMA})
<1>. DEFINE W == InCall(Readers)
            U == W \ {p}
<1>1. /\ doing[p].call = "ttyreadTakes" /\ \A t \in Semaphores : p \notin Row(semaph[t])
      /\ doing[p].len \in Nat /\ UNCHANGED semaph
  BY AtStep DEF ttyreadTakes, InputInv
<1>2. /\ line' \in Seq(Characters) /\ UNCHANGED <<eof, echoing>> /\ Goes(p, Idle) /\ rest' \in BOOLEAN
      /\ LineTyped' => rest'
  <2>. DEFINE len == doing[p].len
  <2>1. len \in Nat /\ Takes(p, len)
    BY <1>1 DEF ttyreadTakes
  <2>. HIDE DEF len
  <2>. QED
    BY <2>1, TakesSome
<1>3. /\ semaph' \in [Semaphores -> Sems] /\ \A t \in Semaphores : t # ISEMA => semaph'[t] = semaph[t]
      /\ semaph'[ISEMA].used /\ ISEMA \in Semaphores
  BY <1>1, DriverSems, Drivers
<1>4. QueueFits(semaph'[ISEMA], U)
  <2>1. Row(semaph'[ISEMA]) \subseteq U /\ QueueFits(semaph'[ISEMA], W)
    BY <1>1, <1>3, DriverSems, RowCounted DEF InputInv, Readers, InCall
  <2>. HIDE DEF U, W
  <2>. QED
    BY <2>1, OthersFit
<1>5. Idle.call = "idle" /\ Idle.call \notin Readers
  BY DEF Idle, Readers
<1>6. \A q \in Procs : q \in U <=> IF q = p THEN Idle.call \in Readers ELSE q \in InCall(Readers)
  BY <1>5
<1>7. doing[p].call \in InputCalls \cup {"idle"} /\ eof' \in BOOLEAN /\ U \subseteq Procs
  BY <1>1, <1>2 DEF InputCalls, InputInv, InCall
<1>. HIDE DEF U
<1>. QED
  BY <1>2, <1>3, <1>4, <1>5, <1>6, <1>7, InputMoves

\* A look at the next character, which waits for one (ttycntl.c).
LEMMA nextcKeeps ==
  ASSUME TasksTyped, SemsOwned, InputInv, UNCHANGED lent, NEW p \in Procs, nextc(p),
         semaph[ISEMA].semcnt <= 0
  PROVE  InputInv' /\ TasksTyped' /\ SemsOwned' /\ Local(InputCalls, {ISEMA})
<1>. DEFINE W == InCall(Readers)
            s == ISEMA
            U == W \cup {p}
            cont == [call |-> "nextc"]
<1>0. semaph[ISEMA].semcnt \in Int /\ semaph[ISEMA].semcnt < 1 /\ ~(semaph[ISEMA].semcnt > 0)
  BY DriverSems
<1>1. doing[p].call = "idle" /\ UNCHANGED input /\ semaph' = wait(p, s) /\ Goes(p, cont)
  BY <1>0, CallsIdle DEF nextc
<1>2. /\ semaph \in [Semaphores -> Sems] /\ s \in Semaphores /\ Known(s) /\ semaph[s].used
      /\ semaph[s] \in Sems
  BY DriverSems, Drivers
<1>3. W \in SUBSET Procs /\ QueueFits(semaph[s], W) /\ p \in U /\ U \subseteq Procs
      /\ (\A q \in W : q \in U) /\ p \notin W
  BY <1>1 DEF InputInv, InCall, Readers
<1>4. semaph' = Waited(semaph, p, s)
  BY <1>1, <1>2 DEF wait
<1>5. Joined(semaph, semaph', s, p, U)
  <2>1. p \notin Row(semaph[s])
    BY <1>2, <1>3, RowCounted
  <2>. HIDE DEF s, U, W
  <2>. QED
    BY <1>2, <1>3, <1>4, <2>1, WaitFits
<1>6. /\ semaph' \in [Semaphores -> Sems] /\ \A t \in Semaphores : t # s => semaph'[t] = semaph[t]
      /\ semaph'[s].used /\ QueueFits(semaph'[s], U)
      /\ Row(semaph'[s]) \subseteq Row(semaph[s]) \cup {p}
  BY <1>2, <1>5 DEF Joined
<1>7. \A q \in Procs : q \in U <=> IF q = p THEN cont.call \in Readers ELSE q \in InCall(Readers)
  BY DEF Readers
<1>8. LineTyped' /\ ~rest' /\ echoing = 0 => \E q \in U : q \notin Row(semaph'[ISEMA])
  BY <1>0, <1>1, <1>3, <1>6 DEF InputInv, Announcement, input, LineTyped, Readers
<1>9. /\ doing[p].call \in InputCalls \cup {"idle"} /\ cont.call \in InputCalls \cup {"idle"}
      /\ line' \in Seq(Characters) /\ eof' \in BOOLEAN /\ rest' \in BOOLEAN
      /\ UNCHANGED echoing /\ cont.call = "nextc"
  BY <1>1 DEF InputInv, input, InputCalls
<1>. HIDE DEF U, cont
<1>. QED
  BY <1>1, <1>3, <1>6, <1>7, <1>8, <1>9, InputMoves

\* And gives the turn back when it had to wait for it.
LEMMA nextcEndsKeeps ==
  ASSUME TasksTyped, SemsOwned, InputInv, UNCHANGED lent, NEW p \in Procs, nextcEnds(p)
  PROVE  InputInv' /\ TasksTyped' /\ SemsOwned' /\ Local(InputCalls, {ISEMA})
<1>. DEFINE W == InCall(Readers)
            s == ISEMA
            U == W \ {p}
<1>1. /\ doing[p].call = "nextc" /\ \A t \in Semaphores : p \notin Row(semaph[t])
      /\ UNCHANGED input /\ Goes(p, Idle)
  BY AtStep DEF nextcEnds, Returns
<1>2. /\ semaph \in [Semaphores -> Sems] /\ s \in Semaphores /\ Known(s) /\ semaph[s].used
      /\ semaph[s] \in Sems /\ semaph[s].semcnt \in Int
  BY DriverSems, Drivers
<1>3. semaph' = Signalled(semaph, s)
  BY <1>2 DEF nextcEnds, signal
<1>4. W \in SUBSET Procs /\ QueueFits(semaph[s], W) /\ U \in SUBSET Procs
  BY DEF InputInv, InCall, Readers
<1>5. Row(semaph[s]) \subseteq U
  BY <1>1, <1>2, <1>4, RowCounted
<1>6. GoneOn(semaph, semaph', s, U)
  <2>. HIDE DEF s, U, W
  <2>1. QueueFits(semaph[s], U)
    BY <1>4, <1>5, OthersFit
  <2>. QED
    BY <1>2, <1>3, <1>4, <2>1, SignalFits
<1>7. /\ semaph' \in [Semaphores -> Sems] /\ \A t \in Semaphores : t # s => semaph'[t] = semaph[t]
      /\ semaph'[s].used /\ semaph'[s].semcnt = semaph[s].semcnt + 1
      /\ QueueFits(semaph'[s], U)
      /\ semaph[s].semcnt < 0 => \E q \in Row(semaph[s]) : q \notin Row(semaph'[s])
  BY <1>2, <1>6 DEF GoneOn
<1>8. semaph'[ISEMA].semcnt > 0 \/ \E q \in U : q \notin Row(semaph'[ISEMA])
  BY <1>2, <1>5, <1>7
<1>9. Idle.call = "idle" /\ Idle.call \notin Readers
  BY DEF Idle, Readers
<1>10. \A q \in Procs : q \in U <=> IF q = p THEN Idle.call \in Readers ELSE q \in InCall(Readers)
  BY <1>9
<1>11. /\ doing[p].call \in InputCalls \cup {"idle"} /\ U \subseteq Procs
       /\ line' \in Seq(Characters) /\ eof' \in BOOLEAN /\ rest' \in BOOLEAN
       /\ UNCHANGED echoing
  BY <1>1, <1>4 DEF InputInv, input, InputCalls
<1>. HIDE DEF U
<1>. QED
  BY <1>1, <1>7, <1>8, <1>9, <1>10, <1>11, InputMoves

-------------------------------------------------------------------------------
(***************************************************************************)
(* Output.                                                                 *)
(***************************************************************************)
\* The remainder is the one that is left below COMBUFSZ.
LEMMA RingOf ==
  ASSUME NEW a \in Nat, NEW q \in Int, NEW r \in 0..COMBUFSZ - 1, a = q * COMBUFSZ + r
  PROVE  Ring(a) = r
BY Drivers DEF Ring

\* Around the ring, once.
LEMMA RingOnce ==
  ASSUME NEW a \in 0..2 * COMBUFSZ - 1
  PROVE  /\ a < COMBUFSZ => Ring(a) = a
         /\ a >= COMBUFSZ => Ring(a) = a - COMBUFSZ
<1>. DEFINE r == a - COMBUFSZ
<1>1. a \in Nat /\ a = 0 * COMBUFSZ + a /\ a = 1 * COMBUFSZ + r
  BY Drivers
<1>2. /\ a < COMBUFSZ => a \in 0..COMBUFSZ - 1
      /\ a >= COMBUFSZ => r \in 0..COMBUFSZ - 1
  BY Drivers
<1>3. a < COMBUFSZ => Ring(a) = a
  BY <1>1, <1>2, RingOf
<1>4. a >= COMBUFSZ => Ring(a) = r
  <2>. HIDE DEF r
  <2>. QED
    BY <1>1, <1>2, RingOf
<1>. QED
  BY <1>3, <1>4

\* The place after a place of the ring.
LEMMA RingNext ==
  ASSUME NEW a \in Nat, NEW b \in Nat
  PROVE  Ring(Ring(a) + b) = Ring(a + b) /\ Ring(a) \in 0..COMBUFSZ - 1
<1>. DEFINE q == a \div COMBUFSZ
            r == Ring(a)
            t == (r + b) \div COMBUFSZ
            u == Ring(r + b)
<1>1. a = COMBUFSZ * q + r /\ q \in Int /\ r \in 0..COMBUFSZ - 1
  BY Drivers DEF Ring
<1>2. r + b \in Nat /\ a + b \in Nat
  BY <1>1
<1>3. r + b = COMBUFSZ * t + u /\ t \in Int /\ u \in 0..COMBUFSZ - 1
  <2>. DEFINE c == r + b
  <2>. HIDE DEF r
  <2>1. c \in Nat
    BY <1>2
  <2>. HIDE DEF c
  <2>2. c = COMBUFSZ * (c \div COMBUFSZ) + Ring(c) /\ c \div COMBUFSZ \in Int /\ Ring(c) \in 0..COMBUFSZ - 1
    BY <2>1, Drivers DEF Ring
  <2>. QED
    BY <2>2 DEF c
<1>4. a + b = (q + t) * COMBUFSZ + u /\ q + t \in Int
  <2>. HIDE DEF q, r, t, u
  <2>. QED
    BY <1>1, <1>3, Drivers
<1>5. Ring(a + b) = u
  <2>. DEFINE c == a + b
              k == q + t
  <2>. HIDE DEF q, r, t, u
  <2>1. c \in Nat /\ k \in Int /\ c = k * COMBUFSZ + u
    BY <1>2, <1>4
  <2>. HIDE DEF c, k
  <2>2. Ring(c) = u
    BY <1>3, <2>1, RingOf
  <2>. QED
    BY <2>2 DEF c
<1>. QED
  BY <1>1, <1>5

\* Places at most once around the ring from a start are apart.
LEMMA RingApart ==
  ASSUME NEW start \in 0..COMBUFSZ - 1, NEW x \in 0..COMBUFSZ - 1, NEW y \in 0..COMBUFSZ - 1,
         Ring(start + x) = Ring(start + y)
  PROVE  x = y
<1>. DEFINE a == start + x
            b == start + y
<1>1. a \in 0..2 * COMBUFSZ - 1 /\ b \in 0..2 * COMBUFSZ - 1 /\ a \in Int /\ b \in Int /\ COMBUFSZ \in Int
  BY Drivers
<1>2. /\ a < COMBUFSZ => Ring(a) = a
      /\ a >= COMBUFSZ => Ring(a) = a - COMBUFSZ
      /\ b < COMBUFSZ => Ring(b) = b
      /\ b >= COMBUFSZ => Ring(b) = b - COMBUFSZ
  <2>. HIDE DEF a, b
  <2>. QED
    BY <1>1, RingOnce
<1>3. Ring(a) = Ring(b)
  OBVIOUS
<1>4. a - b < COMBUFSZ /\ b - a < COMBUFSZ
  BY Drivers
<1>5. a = b
  <2>. HIDE DEF a, b
  <2>. QED
    BY <1>1, <1>2, <1>3, <1>4
<1>. QED
  BY <1>5

\* The ring buffer C that holds the characters of ws, and holds them in their places.
Buffer(C, ws) ==
  /\ C.start \in 0..COMBUFSZ - 1 /\ C.count \in 0..COMBUFSZ
  /\ C = [start |-> C.start, count |-> C.count, buf |-> C.buf]
  /\ C.buf = [i \in 0..COMBUFSZ - 1 |-> C.buf[i]]
  /\ ws \in Seq(Procs \X Sendable) /\ C.count = Len(ws)
InPlace(C, ws) == \A i \in 1..Len(ws) : C.buf[Ring(C.start + i - 1)] = ws[i]

\* The first character goes to the transmitter (comwstrt in comintr.c).
LEMMA SentKeeps ==
  ASSUME NEW C, NEW ws, Buffer(C, ws), C.count >= 1, NEW D, D = Sent(C)
  PROVE  Buffer(D, Tail(ws)) /\ D.count = C.count - 1 /\ (InPlace(C, ws) => InPlace(D, Tail(ws)))
<1>1. /\ C.start \in Nat /\ C.count \in Nat /\ Len(ws) = C.count /\ ws \in Seq(Procs \X Sendable)
      /\ C.count <= COMBUFSZ /\ C = [start |-> C.start, count |-> C.count, buf |-> C.buf]
      /\ COMBUFSZ \in Nat
  BY Drivers DEF Buffer
<1>2. D = [start |-> Ring(C.start + 1), count |-> C.count - 1, buf |-> C.buf]
  BY <1>1 DEF Sent
<1>3. D.start = Ring(C.start + 1) /\ D.count = C.count - 1 /\ D.buf = C.buf
  BY <1>2
<1>4. /\ Tail(ws) \in Seq(Procs \X Sendable) /\ Len(Tail(ws)) = C.count - 1
      /\ \A i \in 1..C.count - 1 : Tail(ws)[i] = ws[i + 1]
  <2>1. ws # <<>>
    BY <1>1
  <2>. QED
    BY <1>1, <2>1, HeadTailProperties
<1>5. \A b \in Nat : Ring(D.start + b) = Ring(C.start + 1 + b) /\ D.start \in 0..COMBUFSZ - 1
  BY <1>1, <1>3, RingNext
<1>6. ASSUME InPlace(C, ws), NEW i \in 1..C.count - 1
      PROVE  D.buf[Ring(D.start + i - 1)] = Tail(ws)[i]
  <2>1. i + 1 \in 1..Len(ws) /\ i - 1 \in Nat
    BY <1>1
  <2>2. C.buf[Ring(C.start + (i + 1) - 1)] = ws[i + 1]
    BY <1>6, <2>1 DEF InPlace
  <2>3. Ring(D.start + (i - 1)) = Ring(C.start + 1 + (i - 1))
    BY <1>5, <2>1
  <2>4. D.start + (i - 1) = D.start + i - 1 /\ C.start + 1 + (i - 1) = C.start + (i + 1) - 1
    BY <1>1, <1>5, <2>1
  <2>5. D.buf[Ring(D.start + i - 1)] = ws[i + 1]
    BY <1>3, <2>2, <2>3, <2>4
  <2>. QED
    BY <1>4, <2>5
<1>7. D.count \in 0..COMBUFSZ /\ D.count = Len(Tail(ws)) /\ 0 \in Nat
  BY <1>1, <1>3, <1>4
<1>8. Buffer(D, Tail(ws))
  BY <1>2, <1>3, <1>4, <1>5, <1>7 DEF Buffer
<1>. QED
  BY <1>3, <1>4, <1>6, <1>8 DEF InPlace

\* The buffer with characters put in at pos.
PutAt(p, chars, pos) ==
  [com EXCEPT !.count = @ + Len(chars),
              !.buf = [i \in DOMAIN @ |->
                         IF i \in {Ring(pos + k - 1) : k \in DOMAIN chars}
                         THEN <<p, chars[CHOOSE k \in DOMAIN chars : Ring(pos + k - 1) = i]>>
                         ELSE @[i]]]
By(p, chars) == [k \in DOMAIN chars |-> <<p, chars[k]>>]

\* One or two characters are put in, behind the others if nobody was overtaken (computc in comoutput.c).
LEMMA PutKeeps ==
  ASSUME Buffer(com, written), NEW p \in Procs, NEW chars \in Seq(Sendable), Len(chars) \in {1, 2},
         NEW pos \in Nat, com.count + Len(chars) <= COMBUFSZ,
         NEW C, C = PutAt(p, chars, pos), NEW ws, ws = written \o By(p, chars)
  PROVE  /\ Buffer(C, ws) /\ C.count = com.count + Len(chars)
         /\ InPlace(com, written) /\ Ring(pos) = Ring(com.start + com.count) => InPlace(C, ws)
<1>. DEFINE n == Len(chars)
            m == com.count
            a == com.start
            Mine == {Ring(pos + k - 1) : k \in 1..n}
            Own(i) == CHOOSE k \in 1..n : Ring(pos + k - 1) = i
            buf == [i \in 0..COMBUFSZ - 1 |-> IF i \in Mine THEN <<p, chars[Own(i)]>> ELSE com.buf[i]]
<1>1. /\ n \in {1, 2} /\ DOMAIN chars = 1..n /\ m \in Nat /\ a \in 0..COMBUFSZ - 1 /\ COMBUFSZ \in Nat
      /\ com = [start |-> a, count |-> m, buf |-> com.buf]
      /\ com.buf = [i \in 0..COMBUFSZ - 1 |-> com.buf[i]]
      /\ written \in Seq(Procs \X Sendable) /\ Len(written) = m
      /\ m + n <= COMBUFSZ
  BY Drivers DEF Buffer
<1>2. C = [start |-> a, count |-> m + n, buf |-> buf]
  <2>1. DOMAIN com.buf = 0..COMBUFSZ - 1
    BY <1>1
  <2>2. C = [com EXCEPT !.count = m + n, !.buf = buf]
    BY <1>1, <2>1 DEF PutAt
  <2>. HIDE DEF buf, n
  <2>. QED
    BY <1>1, <2>2
<1>3. C.start = a /\ C.count = m + n /\ C.buf = buf
  BY <1>2
<1>4. /\ By(p, chars) \in Seq(Procs \X Sendable) /\ Len(By(p, chars)) = n
      /\ \A k \in 1..n : By(p, chars)[k] = <<p, chars[k]>>
  BY <1>1 DEF By
<1>5. /\ ws \in Seq(Procs \X Sendable) /\ Len(ws) = m + n
      /\ \A i \in 1..m : ws[i] = written[i]
      /\ \A k \in 1..n : ws[m + k] = <<p, chars[k]>>
  <2>1. /\ ws \in Seq(Procs \X Sendable) /\ Len(ws) = m + n
        /\ \A i \in 1..m + n : ws[i] = IF i <= m THEN written[i] ELSE By(p, chars)[i - m]
    <3>. DEFINE own == By(p, chars)
                S == Procs \X Sendable
    <3>1. own \in Seq(S) /\ written \in Seq(S) /\ ws = written \o own /\ Len(own) = n /\ Len(written) = m
      BY <1>1, <1>4
    <3>. HIDE DEF own, S, m, n
    <3>2. /\ written \o own \in Seq(S) /\ Len(written \o own) = Len(written) + Len(own)
          /\ \A i \in 1..Len(written) + Len(own) :
               (written \o own)[i] = IF i <= Len(written) THEN written[i] ELSE own[i - Len(written)]
      BY <3>1, ConcatProperties
    <3>3. /\ ws \in Seq(S) /\ Len(ws) = m + n
          /\ \A i \in 1..m + n : ws[i] = IF i <= m THEN written[i] ELSE own[i - m]
      BY <3>1, <3>2, Zenon
    <3>. QED
      BY <3>3 DEF own, S
  <2>2. \A i \in 1..m : ws[i] = written[i]
    BY <1>1, <2>1
  <2>3. \A k \in 1..n : ws[m + k] = By(p, chars)[k]
    BY SMTT(30), ZenonT(30), <1>1, <2>1
  <2>. QED
    BY <1>4, <2>1, <2>2, <2>3
<1>6. Buffer(C, ws)
  <2>1. m + n \in 0..COMBUFSZ /\ buf = [i \in 0..COMBUFSZ - 1 |-> buf[i]]
    BY <1>1
  <2>. HIDE DEF buf
  <2>. QED
    BY <1>1, <1>2, <1>3, <1>5, <2>1 DEF Buffer
<1>7. ASSUME InPlace(com, written), Ring(pos) = Ring(a + m)
      PROVE  InPlace(C, ws)
  <2>1. \A k \in 1..n : Ring(pos + k - 1) = Ring(a + (m + k - 1))
    <3>. SUFFICES ASSUME NEW k \in 1..n PROVE Ring(pos + k - 1) = Ring(a + (m + k - 1))
      OBVIOUS
    <3>1. k - 1 \in Nat /\ a + m \in Nat /\ pos \in Nat
      BY <1>1
    <3>2. Ring(Ring(pos) + (k - 1)) = Ring(pos + (k - 1)) /\ Ring(Ring(a + m) + (k - 1)) = Ring(a + m + (k - 1))
      <4>. DEFINE am == a + m
                  j == k - 1
      <4>1. am \in Nat /\ j \in Nat
        BY <3>1
      <4>. HIDE DEF am, j
      <4>2. Ring(Ring(pos) + j) = Ring(pos + j) /\ Ring(Ring(am) + j) = Ring(am + j)
        BY <4>1, RingNext
      <4>. QED
        BY <4>2 DEF am, j
    <3>3. pos + (k - 1) = pos + k - 1 /\ a + m + (k - 1) = a + (m + k - 1)
      BY <1>1, <3>1
    <3>. QED
      BY <1>7, <3>2, <3>3
  <2>2. \A x, y \in 0..COMBUFSZ - 1 : Ring(a + x) = Ring(a + y) => x = y
    BY <1>1, RingApart
  <2>3. /\ \A i \in 1..m : i - 1 \in 0..COMBUFSZ - 1
        /\ \A k \in 1..n : m + k - 1 \in 0..COMBUFSZ - 1
        /\ \A i \in 1..m : \A k \in 1..n : i - 1 # m + k - 1
        /\ \A k, l \in 1..n : m + k - 1 = m + l - 1 => k = l
        /\ \A i \in 1..m : a + i - 1 = a + (i - 1)
        /\ \A k \in 1..n : a + (m + k) - 1 = a + (m + k - 1)
    BY SMTT(30), ZenonT(30), <1>1
  <2>4. \A x \in 0..COMBUFSZ - 1 : Ring(a + x) \in 0..COMBUFSZ - 1
    <3>1. \A y \in Nat : Ring(y) \in 0..COMBUFSZ - 1
      BY RingNext
    <3>2. \A x \in 0..COMBUFSZ - 1 : a + x \in Nat
      BY <1>1
    <3>. QED
      BY <3>1, <3>2
  <2>5. ASSUME NEW i \in 1..m PROVE C.buf[Ring(C.start + i - 1)] = ws[i]
    <3>. DEFINE r == Ring(a + (i - 1))
    <3>1. r \in 0..COMBUFSZ - 1
      BY <2>3, <2>4
    <3>2. \A k \in 1..n : r # Ring(pos + k - 1)
      BY <2>1, <2>2, <2>3
    <3>3. buf[r] = com.buf[r]
      BY <3>1, <3>2
    <3>4. com.buf[r] = written[i]
      BY <1>1, <1>7, <2>3 DEF InPlace
    <3>5. Ring(C.start + i - 1) = r
      BY <1>3, <2>3
    <3>. HIDE DEF r, buf
    <3>. QED
      BY <1>3, <1>5, <3>3, <3>4, <3>5
  <2>6. ASSUME NEW k \in 1..n PROVE C.buf[Ring(C.start + (m + k) - 1)] = ws[m + k]
    <3>. DEFINE r == Ring(a + (m + k - 1))
    <3>1. r \in 0..COMBUFSZ - 1
      BY <2>3, <2>4
    <3>2. Ring(pos + k - 1) = r /\ r \in Mine
      BY <2>1
    <3>3. \A l \in 1..n : Ring(pos + l - 1) = r => l = k
      BY <2>1, <2>2, <2>3
    <3>4. Own(r) = k
      BY <3>2, <3>3
    <3>5. buf[r] = <<p, chars[k]>>
      BY <3>1, <3>2, <3>4
    <3>6. Ring(C.start + (m + k) - 1) = r
      BY <1>3, <2>3
    <3>. HIDE DEF r, buf
    <3>. QED
      BY <1>3, <1>5, <3>5, <3>6
  <2>7. \A i \in 1..m + n : i \in 1..m \/ \E k \in 1..n : i = m + k
    <3>. SUFFICES ASSUME NEW i \in 1..m + n, i \notin 1..m PROVE \E k \in 1..n : i = m + k
      OBVIOUS
    <3>1. i - m \in 1..n /\ i = m + (i - m)
      BY <1>1
    <3>. QED
      BY <3>1
  <2>8. \A i \in 1..Len(ws) : C.buf[Ring(C.start + i - 1)] = ws[i]
    <3>1. Len(ws) = m + n
      BY <1>5
    <3>2. SUFFICES ASSUME NEW i \in 1..m + n PROVE C.buf[Ring(C.start + i - 1)] = ws[i]
      BY <3>1
    <3>. HIDE DEF m, n
    <3>3. i \in 1..m \/ \E k \in 1..n : i = m + k
      BY <2>7
    <3>. QED
      BY <2>5, <2>6, <3>3
  <2>. QED
    BY <2>8 DEF InPlace
<1>. QED
  BY <1>3, <1>6, <1>7

\* The places that a process in a call has, or waits for.
Places(call) == CASE call = "computc" -> 1 [] call = "computcLine" -> 2 [] OTHER -> 0

\* The count of those in one call, when a process goes on.
LEMMA WritersMove ==
  ASSUME TasksTyped, NEW p \in Procs, NEW cont, Goes(p, cont), NEW call
  PROVE  /\ Cardinality(Writers(call)) \in Nat
         /\ doing[p].call = call => Cardinality(Writers(call)) >= 1
         /\ Cardinality(Writers(call))' =
              Cardinality(Writers(call)) - (IF doing[p].call = call THEN 1 ELSE 0)
                                         + (IF cont.call = call THEN 1 ELSE 0)
<1>. DEFINE U == Writers(call) \ {p}
            n == Cardinality(U)
<1>1. IsFiniteSet(U) /\ n \in Nat /\ IsFiniteSet(Writers(call))
  BY SomeProcs DEF Writers
<1>2. p \notin U /\ Cardinality(U \cup {p}) = n + 1
  BY <1>1, FS_AddElement
<1>3. doing'[p] = cont /\ \A q \in Procs \ {p} : doing'[q] = doing[q]
  BY GoesFrom
<1>4. Writers(call) = IF doing[p].call = call THEN U \cup {p} ELSE U
  BY DEF Writers
<1>5. Writers(call)' = IF cont.call = call THEN U \cup {p} ELSE U
  BY <1>3 DEF Writers
<1>. HIDE DEF U
<1>6. Cardinality(Writers(call)) = IF doing[p].call = call THEN n + 1 ELSE n
  BY <1>2, <1>4
<1>7. Cardinality(Writers(call))' = IF cont.call = call THEN n + 1 ELSE n
  BY <1>2, <1>5
<1>. HIDE DEF n
<1>. QED
  BY <1>1, <1>6, <1>7

\* What is promised changes with the call of one process.
LEMMA PromisedMoves ==
  ASSUME TasksTyped, NEW p \in Procs, NEW cont, Goes(p, cont),
         doing[p].call \in OutputCalls \cup {"idle"}, cont.call \in OutputCalls \cup {"idle"}
  PROVE  /\ Promised \in Nat /\ Promised >= Places(doing[p].call)
         /\ Places(doing[p].call) \in Nat /\ Places(cont.call) \in Nat
         /\ Promised' = Promised - Places(doing[p].call) + Places(cont.call)
<1>. DEFINE c == Cardinality(Writers("computc"))
            l == Cardinality(Writers("computcLine"))
            cn == Cardinality(Writers("computc"))'
            ln == Cardinality(Writers("computcLine"))'
<1>1. /\ c \in Nat /\ (doing[p].call = "computc" => c >= 1)
      /\ cn = c - (IF doing[p].call = "computc" THEN 1 ELSE 0) + (IF cont.call = "computc" THEN 1 ELSE 0)
  BY WritersMove
<1>2. /\ l \in Nat /\ (doing[p].call = "computcLine" => l >= 1)
      /\ ln = l - (IF doing[p].call = "computcLine" THEN 1 ELSE 0)
                + (IF cont.call = "computcLine" THEN 1 ELSE 0)
  BY WritersMove
<1>3. Promised = c + 2 * l /\ Promised' = cn + 2 * ln
  BY DEF Promised
<1>4. /\ doing[p].call = "computc" \/ doing[p].call = "computcLine" \/ doing[p].call = "idle"
      /\ cont.call = "computc" \/ cont.call = "computcLine" \/ cont.call = "idle"
  BY DEF OutputCalls
<1>. HIDE DEF c, l, cn, ln
<1>. QED
  BY <1>1, <1>2, <1>3, <1>4 DEF Places

\* Who goes on in the output finds room (comoutput.c).
LEMMA RoomThere ==
  ASSUME TasksTyped, SemsOwned, OutputInv, NEW p \in Procs, p \notin Row(semaph[OSEMA]),
         doing[p].call \in OutputCalls
  PROVE  /\ com.count + Places(doing[p].call) <= COMBUFSZ
         /\ semaph[OSEMA].semcnt > 0 => com.count + 2 <= COMBUFSZ
<1>. DEFINE W == InCall(OutputCalls)
            s == semaph[OSEMA]
            k == s.semcnt
            c == Cardinality(Writers("computc"))
            l == Cardinality(Writers("computcLine"))
            w == Cardinality(W)
            r == Len(s.queue)
            m == com.count
            u == Cardinality(W \ Row(s))
<1>1. s \in Sems /\ k \in Int
  BY DriverSems
<1>2. W \in SUBSET Procs /\ QueueFits(s, W)
  BY DEF InCall, OutputInv
<1>3. u = w - r /\ r \in Nat /\ r = (IF k < 0 THEN -k ELSE 0)
  <2>. HIDE DEF s, W
  <2>. QED
    BY <1>1, <1>2, RowCounted
<1>4. w = c + l /\ c \in Nat /\ l \in Nat
  <2>1. Writers("computc") \in SUBSET Procs /\ Writers("computcLine") \in SUBSET Procs
    BY DEF Writers
  <2>2. /\ Writers("computc") \cap Writers("computcLine") = {}
        /\ W = Writers("computc") \cup Writers("computcLine")
    BY DEF Writers, InCall, OutputCalls
  <2>. QED
    <3>1. /\ IsFiniteSet(Writers("computc")) /\ IsFiniteSet(Writers("computcLine"))
          /\ c \in Nat /\ l \in Nat
      BY <2>1, SomeProcs
    <3>2. w = c + l - Cardinality(Writers("computc") \cap Writers("computcLine"))
      BY <2>2, <3>1, FS_Union
    <3>3. Cardinality(Writers("computc") \cap Writers("computcLine")) = 0
      BY <2>2, FS_EmptySet
    <3>. HIDE DEF w, c, l
    <3>. QED
      BY <3>1, <3>2, <3>3
<1>5. u \in Nat /\ u # 0
  <2>1. p \in W \ Row(s)
    BY DEF InCall
  <2>2. IsFiniteSet(W \ Row(s)) /\ u \in Nat
    BY <1>2, SomeProcs
  <2>. QED
    BY <2>1, <2>2, FS_EmptySet
<1>6. k = COMBUFSZ - m - (c + 2 * l) /\ m \in Nat /\ COMBUFSZ \in Nat
  BY Drivers DEF OutputInv, Promised
<1>7. /\ doing[p].call = "computc" \/ doing[p].call = "computcLine"
      /\ doing[p].call = "computc" => c >= 1
      /\ doing[p].call = "computcLine" => l >= 1
  <2>1. \A W2 \in SUBSET Procs : p \in W2 => Cardinality(W2) >= 1
    BY SomeProcs, FS_EmptySet
  <2>2. /\ Writers("computc") \in SUBSET Procs /\ Writers("computcLine") \in SUBSET Procs
        /\ doing[p].call = "computc" => p \in Writers("computc")
        /\ doing[p].call = "computcLine" => p \in Writers("computcLine")
    BY DEF Writers
  <2>. QED
    BY <2>1, <2>2 DEF OutputCalls
<1>. HIDE DEF k, c, l, w, r, m, u
<1>8. /\ doing[p].call = "computc" => m + 1 <= COMBUFSZ
      /\ doing[p].call = "computcLine" => m + 2 <= COMBUFSZ
      /\ k > 0 => m + 2 <= COMBUFSZ
  BY <1>3, <1>4, <1>5, <1>6, <1>7
<1>. QED
  BY <1>7, <1>8 DEF Places, k, m

\* A process goes on within the calls of the output.
LEMMA OutputMoves ==
  ASSUME TasksTyped, SemsOwned, OutputInv, UNCHANGED lent,
         NEW p \in Procs, NEW cont, Goes(p, cont),
         doing[p].call \in OutputCalls \cup {"idle"}, cont.call \in OutputCalls \cup {"idle"},
         cont.call = "computc" => cont.ch \in {"x", "\n"},
         cont.call = "computcLine" => cont.pos \in 0..2 * COMBUFSZ,
         NEW V, \A q \in Procs : q \in V <=> IF q = p THEN cont.call \in OutputCalls
                                                      ELSE q \in InCall(OutputCalls),
         V \subseteq Procs,
         semaph' \in [Semaphores -> Sems], \A t \in Semaphores : t # OSEMA => semaph'[t] = semaph[t],
         semaph'[OSEMA].used, QueueFits(semaph'[OSEMA], V),
         Buffer(com', written'), thre' \in BOOLEAN, ier' \in BOOLEAN, overtaken' \in BOOLEAN,
         ~overtaken' => InPlace(com', written'),
         semaph'[OSEMA].semcnt = COMBUFSZ - com'.count - (Promised - Places(doing[p].call)
                                                                   + Places(cont.call))
  PROVE  OutputInv' /\ TasksTyped' /\ SemsOwned' /\ Local(OutputCalls, {OSEMA})
<1>1. /\ doing' = [q \in Procs |-> doing'[q]] /\ doing'[p] = cont
      /\ \A q \in Procs : q # p => doing'[q] = doing[q]
      /\ \A q \in Procs : doing'[q] # doing[q] =>
           doing[q].call \in OutputCalls \cup {"idle"} /\ doing'[q].call \in OutputCalls \cup {"idle"}
  BY GoesWithin
<1>2. TasksTyped' /\ SemsOwned' /\ Local(OutputCalls, {OSEMA})
  BY <1>1, DriverStep
<1>3. InCall(OutputCalls)' = V
  BY <1>1 DEF InCall
<1>4. /\ \A q \in Procs : doing'[q].call = "computc" => doing'[q].ch \in {"x", "\n"}
      /\ \A q \in Procs : doing'[q].call = "computcLine" => doing'[q].pos \in 0..2 * COMBUFSZ
  <2>. SUFFICES ASSUME NEW q \in Procs
                PROVE  /\ doing'[q].call = "computc" => doing'[q].ch \in {"x", "\n"}
                       /\ doing'[q].call = "computcLine" => doing'[q].pos \in 0..2 * COMBUFSZ
    OBVIOUS
  <2>1. CASE q = p
    BY <1>1, <2>1
  <2>2. CASE q # p
    BY <1>1, <2>2 DEF OutputInv
  <2>. QED
    BY <2>1, <2>2
<1>5. semaph'[OSEMA].semcnt = COMBUFSZ - com'.count - Promised'
  BY PromisedMoves
<1>6. QueueFits(semaph[OSEMA], InCall(OutputCalls))'
  BY <1>3
<1>. QED
  BY <1>2, <1>4, <1>5, <1>6 DEF OutputInv, Buffer, InPlace

\* The ring buffer as the invariant has it.
LEMMA BufferNow ==
  ASSUME OutputInv
  PROVE  Buffer(com, written) /\ (~overtaken => InPlace(com, written)) /\ com.count \in Nat
<1>1. Buffer(com, written) /\ (~overtaken => InPlace(com, written))
  BY DEF OutputInv, Buffer, InPlace
<1>. QED
  BY <1>1, Drivers DEF Buffer

\* A table in which p waits nowhere, and that differs at the output's semaphore only.
Ready(p, T) ==
  /\ T \in [Semaphores -> Sems] /\ \A t \in Semaphores : t # OSEMA => T[t] = semaph[t]
  /\ T[OSEMA].used /\ QueueFits(T[OSEMA], InCall(OutputCalls) \ {p})

\* The characters go into the buffer, and the transmitter is started.
LEMMA PutsKeeps ==
  ASSUME TasksTyped, SemsOwned, OutputInv, UNCHANGED lent, NEW p \in Procs,
         NEW chars \in Seq(Sendable), Len(chars) \in {1, 2}, NEW pos \in Nat,
         NEW T, Ready(p, T), com.count + Len(chars) <= COMBUFSZ,
         doing[p].call \in OutputCalls \cup {"idle"},
         T[OSEMA].semcnt = COMBUFSZ - com.count - Len(chars) - (Promised - Places(doing[p].call)),
         Puts(p, chars, pos, T)
  PROVE  OutputInv' /\ TasksTyped' /\ SemsOwned' /\ Local(OutputCalls, {OSEMA})
<1>. DEFINE C == PutAt(p, chars, pos)
            all == written \o By(p, chars)
            V == InCall(OutputCalls) \ {p}
            n == Len(chars)
            s == OSEMA
            owed == Promised - Places(doing[p].call)
<1>1. /\ IF thre THEN /\ com' = Sent(C) /\ semaph' = Signalled(T, OSEMA)
                      /\ ier' = (com'.count # 0) /\ written' = Tail(all)
                 ELSE com' = C /\ semaph' = T /\ ier' = TRUE /\ written' = all
      /\ thre' = FALSE /\ Goes(p, Idle)
      /\ overtaken' = (overtaken \/ Ring(pos) # Ring(com.start + com.count))
  BY DEF Puts, PutAt, By, Returns
<1>2. Buffer(com, written) /\ (~overtaken => InPlace(com, written)) /\ com.count \in Nat
  BY BufferNow
<1>3. /\ Buffer(C, all) /\ C.count = com.count + n
      /\ InPlace(com, written) /\ Ring(pos) = Ring(com.start + com.count) => InPlace(C, all)
  <2>. HIDE DEF C, all
  <2>1. C = PutAt(p, chars, pos) /\ all = written \o By(p, chars)
    BY DEF C, all
  <2>. QED
    BY <1>2, <2>1, PutKeeps
<1>4. n \in Nat /\ n >= 1 /\ COMBUFSZ \in Nat
  <2>1. n = 1 \/ n = 2
    OBVIOUS
  <2>. HIDE DEF n
  <2>. QED
    BY <2>1, Drivers
<1>5. Idle.call = "idle" /\ Idle.call \notin OutputCalls /\ Places(Idle.call) = 0
  BY DEF Idle, OutputCalls, Places
<1>6. /\ V \in SUBSET Procs
      /\ \A q \in Procs : q \in V <=> IF q = p THEN Idle.call \in OutputCalls ELSE q \in InCall(OutputCalls)
  BY <1>5 DEF InCall
<1>7. Promised \in Nat /\ Places(doing[p].call) \in Nat /\ owed + Places(Idle.call) = owed
  <2>1. Promised \in Nat /\ Places(doing[p].call) \in Nat
    BY <1>1, <1>5, PromisedMoves
  <2>. QED
    BY <1>5, <2>1
<1>8. /\ T \in [Semaphores -> Sems] /\ \A t \in Semaphores : t # s => T[t] = semaph[t]
      /\ T[s].used /\ QueueFits(T[s], V) /\ s \in Semaphores /\ T[s].semcnt \in Int
  BY Drivers DEF Ready, Sems
<1>9. /\ thre' \in BOOLEAN /\ ier' \in BOOLEAN /\ overtaken' \in BOOLEAN
      /\ ~overtaken' => ~overtaken /\ Ring(pos) = Ring(com.start + com.count)
  BY <1>1 DEF OutputInv
<1>10. /\ Buffer(com', written') /\ (~overtaken' => InPlace(com', written'))
       /\ semaph' \in [Semaphores -> Sems] /\ \A t \in Semaphores : t # s => semaph'[t] = semaph[t]
       /\ semaph'[s].used /\ QueueFits(semaph'[s], V)
       /\ semaph'[s].semcnt = COMBUFSZ - com'.count - owed
  <2>1. CASE thre
    <3>1. com' = Sent(C) /\ semaph' = Signalled(T, s) /\ written' = Tail(all)
      BY <1>1, <2>1
    <3>2. /\ Buffer(com', written') /\ com'.count = C.count - 1
          /\ InPlace(C, all) => InPlace(com', written')
      <4>1. C.count >= 1
        <5>. HIDE DEF C, n
        <5>. QED
          BY <1>2, <1>3, <1>4
      <4>. HIDE DEF C, all
      <4>. QED
        BY <1>3, <3>1, <4>1, SentKeeps
    <3>3. GoneOn(T, semaph', s, V)
      <4>. HIDE DEF s, V
      <4>. QED
        BY <1>6, <1>8, <3>1, SignalFits
    <3>4. /\ semaph' \in [Semaphores -> Sems] /\ \A t \in Semaphores : t # s => semaph'[t] = T[t]
          /\ semaph'[s].used = T[s].used /\ semaph'[s].semcnt = T[s].semcnt + 1
          /\ QueueFits(semaph'[s], V)
      BY <3>3 DEF GoneOn
    <3>5. semaph'[s].semcnt = COMBUFSZ - com'.count - owed
      <4>1. T[s].semcnt = COMBUFSZ - com.count - n - owed /\ owed \in Int
        BY <1>7
      <4>. HIDE DEF C, n, owed, s
      <4>. QED
        BY <1>2, <1>3, <1>4, <1>8, <3>2, <3>4, <4>1
    <3>. HIDE DEF C, all
    <3>. QED
      BY <1>2, <1>3, <1>8, <1>9, <3>2, <3>4, <3>5
  <2>2. CASE ~thre
    <3>1. com' = C /\ semaph' = T /\ written' = all
      BY <1>1, <2>2
    <3>2. semaph'[s].semcnt = COMBUFSZ - com'.count - owed
      <4>1. T[s].semcnt = COMBUFSZ - com.count - n - owed /\ owed \in Int
        BY <1>7
      <4>. HIDE DEF C, n, owed, s
      <4>. QED
        BY <1>2, <1>3, <1>4, <1>8, <3>1, <4>1
    <3>. HIDE DEF C, all
    <3>. QED
      BY <1>2, <1>3, <1>8, <1>9, <3>1, <3>2
  <2>. QED
    BY <2>1, <2>2
<1>11. semaph'[OSEMA].semcnt = COMBUFSZ - com'.count - (Promised - Places(doing[p].call) + Places(Idle.call))
  <2>1. semaph'[OSEMA].semcnt = COMBUFSZ - com'.count - owed
    BY <1>10
  <2>2. Promised - Places(doing[p].call) + Places(Idle.call) = owed
    BY <1>7
  <2>. HIDE DEF owed
  <2>. QED
    BY <2>1, <2>2
<1>. HIDE DEF V, owed
<1>. QED
  BY <1>1, <1>5, <1>6, <1>9, <1>10, <1>11, OutputMoves DEF OutputCalls

\* Once a place is had: the character is put, or the line end waits for a second place.
LEMMA SecondPlaceKeeps ==
  ASSUME TasksTyped, SemsOwned, OutputInv, UNCHANGED lent, NEW p \in Procs,
         NEW ch \in {"x", "\n"}, NEW T, Ready(p, T), com.count + 1 <= COMBUFSZ,
         T[OSEMA].semcnt > 0 => com.count + 2 <= COMBUFSZ,
         doing[p].call \in {"idle", "computc"},
         T[OSEMA].semcnt = COMBUFSZ - com.count - 1 - (Promised - Places(doing[p].call)),
         SecondPlace(p, ch, T)
  PROVE  OutputInv' /\ TasksTyped' /\ SemsOwned' /\ Local(OutputCalls, {OSEMA})
<1>. DEFINE pos == com.start + com.count
            s == OSEMA
            V == InCall(OutputCalls) \ {p}
            U == InCall(OutputCalls) \cup {p}
            N == Waited(T, p, s)
            owed == Promised - Places(doing[p].call)
<1>1. /\ com.start \in 0..COMBUFSZ - 1 /\ com.count \in 0..COMBUFSZ
      /\ com.start \in Nat /\ com.count \in Nat /\ COMBUFSZ \in Nat /\ pos \in 0..2 * COMBUFSZ
      /\ pos \in Nat
  <2>1. com.start \in 0..COMBUFSZ - 1 /\ com.count \in 0..COMBUFSZ /\ COMBUFSZ \in Nat
    BY Drivers DEF OutputInv
  <2>. QED
    BY <2>1
<1>2. /\ T \in [Semaphores -> Sems] /\ \A t \in Semaphores : t # s => T[t] = semaph[t]
      /\ T[s].used /\ QueueFits(T[s], V) /\ s \in Semaphores /\ T[s].semcnt \in Int
  BY Drivers DEF Ready, Sems
<1>3. V \in SUBSET Procs /\ U \in SUBSET Procs /\ p \in U /\ (\A q \in V : q \in U)
  BY DEF InCall
<1>4. Joined(T, N, s, p, U)
  <2>1. T[s] \in Sems
    BY <1>2
  <2>2. p \notin Row(T[s])
    <3>1. p \notin V
      OBVIOUS
    <3>. HIDE DEF s, V
    <3>. QED
      BY <1>2, <1>3, <2>1, <3>1, RowCounted
  <2>. HIDE DEF s, V, U, N
  <2>3. N = Waited(T, p, s)
    BY DEF N
  <2>. QED
    BY <1>2, <1>3, <2>2, <2>3, WaitFits
<1>5. /\ N \in [Semaphores -> Sems] /\ \A t \in Semaphores : t # s => N[t] = semaph[t]
      /\ N[s].used /\ QueueFits(N[s], U) /\ N[s].semcnt = T[s].semcnt - 1
      /\ T[s].semcnt >= 1 => Row(N[s]) = {}
  BY <1>2, <1>4 DEF Joined
<1>6. doing[p].call \in OutputCalls \cup {"idle"}
  BY DEF OutputCalls
<1>7. Promised \in Nat /\ Places(doing[p].call) \in Nat /\ owed \in Int
  <2>1. Promised \in Nat
    BY SomeProcs DEF Promised, Writers
  <2>2. Places(doing[p].call) \in Nat
    BY DEF Places
  <2>. QED
    BY <2>1, <2>2
<1>8. T[s].semcnt = COMBUFSZ - com.count - 1 - owed
  OBVIOUS
<1>9. CASE ch # "\n" /\ Puts(p, <<ch>>, pos, T)
  <2>. DEFINE chars == <<ch>>
  <2>1. chars \in Seq(Sendable) /\ Len(chars) = 1 /\ Puts(p, chars, pos, T)
    BY <1>9 DEF Sendable
  <2>2. /\ T[OSEMA].semcnt = COMBUFSZ - com.count - Len(chars) - (Promised - Places(doing[p].call))
        /\ com.count + Len(chars) <= COMBUFSZ /\ Len(chars) \in {1, 2}
    BY <2>1
  <2>. HIDE DEF chars, pos
  <2>. QED
    BY <1>1, <1>6, <2>1, <2>2, PutsKeeps
<1>10. CASE ch = "\n" /\ T[OSEMA].semcnt > 0 /\ Puts(p, <<"\r", "\n">>, pos, Waited(T, p, OSEMA))
  <2>. DEFINE chars == <<"\r", "\n">>
  <2>1. chars \in Seq(Sendable) /\ Len(chars) = 2 /\ Puts(p, chars, pos, N)
    BY <1>10 DEF Sendable
  <2>2. com.count + Len(chars) <= COMBUFSZ /\ Len(chars) \in {1, 2}
    BY <1>10, <2>1
  <2>3. N[OSEMA].semcnt = COMBUFSZ - com.count - Len(chars) - (Promised - Places(doing[p].call))
    <3>. HIDE DEF N, chars
    <3>. QED
      BY SMTT(30), ZenonT(30), <1>1, <1>2, <1>5, <1>7, <1>8, <2>1
  <2>4. Ready(p, N)
    <3>1. T[s].semcnt >= 1
      BY <1>2, <1>10
    <3>2. Row(N[s]) \subseteq V
      BY <1>5, <3>1
    <3>3. QueueFits(N[s], V)
      <4>. HIDE DEF N, s, U, V
      <4>. QED
        BY <1>5, <3>2, OthersFit
    <3>. HIDE DEF N
    <3>. QED
      BY <1>5, <3>3 DEF Ready
  <2>. HIDE DEF chars, pos, N
  <2>. QED
    BY <1>1, <1>6, <2>1, <2>2, <2>3, <2>4, PutsKeeps
<1>11. CASE /\ ch = "\n" /\ T[OSEMA].semcnt <= 0
            /\ semaph' = Waited(T, p, OSEMA)
            /\ Goes(p, [call |-> "computcLine", pos |-> pos])
            /\ UNCHANGED output
  <2>. DEFINE cont == [call |-> "computcLine", pos |-> pos]
  <2>1. /\ semaph' = N /\ Goes(p, cont) /\ UNCHANGED output
        /\ cont.call = "computcLine" /\ cont.pos \in 0..2 * COMBUFSZ
    BY <1>1, <1>11
  <2>2. cont.call \in OutputCalls /\ Places(cont.call) = 2
    BY <2>1 DEF OutputCalls, Places
  <2>3. \A q \in Procs : q \in U <=> IF q = p THEN cont.call \in OutputCalls ELSE q \in InCall(OutputCalls)
    BY <2>2
  <2>4. /\ Buffer(com', written') /\ thre' \in BOOLEAN /\ ier' \in BOOLEAN /\ overtaken' \in BOOLEAN
        /\ ~overtaken' => InPlace(com', written')
    BY <2>1 DEF OutputInv, Buffer, InPlace, output
  <2>5. semaph'[OSEMA].semcnt = COMBUFSZ - com'.count - (Promised - Places(doing[p].call) + Places(cont.call))
    <3>1. semaph'[s].semcnt = COMBUFSZ - com.count - (owed + 2)
      <4>. HIDE DEF N, owed
      <4>. QED
        BY <1>1, <1>2, <1>5, <1>7, <1>8, <2>1
    <3>2. com' = com
      BY <2>1 DEF output
    <3>. QED
      BY <2>2, <3>1, <3>2
  <2>6. /\ semaph' \in [Semaphores -> Sems] /\ \A t \in Semaphores : t # OSEMA => semaph'[t] = semaph[t]
        /\ semaph'[OSEMA].used /\ QueueFits(semaph'[OSEMA], U)
    BY <1>5, <2>1
  <2>. HIDE DEF U, cont
  <2>. QED
    BY <1>3, <1>6, <2>1, <2>2, <2>3, <2>4, <2>5, <2>6, OutputMoves
<1>. QED
  BY <1>9, <1>10, <1>11 DEF SecondPlace

\* A character is written (comoutput.c, computc).
LEMMA computcKeeps ==
  ASSUME TasksTyped, SemsOwned, OutputInv, UNCHANGED lent, NEW p \in Procs,
         NEW ch \in {"x", "\n"}, computc(p, ch)
  PROVE  OutputInv' /\ TasksTyped' /\ SemsOwned' /\ Local(OutputCalls, {OSEMA})
<1>. DEFINE s == OSEMA
            W == InCall(OutputCalls)
            V == W \ {p}
            U == W \cup {p}
            N == Waited(semaph, p, s)
            m == com.count
            k == semaph[OSEMA].semcnt
<1>1. /\ semaph \in [Semaphores -> Sems] /\ s \in Semaphores /\ Known(s) /\ semaph[s].used
      /\ semaph[s] \in Sems /\ k \in Int
  BY DriverSems, Drivers
<1>2. doing[p].call = "idle" /\ wait(p, OSEMA) = N
  BY <1>1, CallsIdle DEF computc, wait
<1>3. W \in SUBSET Procs /\ U \in SUBSET Procs /\ QueueFits(semaph[s], W) /\ p \in U
      /\ (\A q \in W : q \in U) /\ p \notin W /\ V = W
  BY <1>2 DEF InCall, OutputInv, OutputCalls
<1>4. Joined(semaph, N, s, p, U)
  <2>. HIDE DEF s, W, U, N
  <2>1. p \notin Row(semaph[s])
    BY <1>1, <1>3, RowCounted
  <2>2. N = Waited(semaph, p, s)
    BY DEF N
  <2>. QED
    BY <1>1, <1>3, <2>1, <2>2, WaitFits
<1>5. /\ N \in [Semaphores -> Sems] /\ \A t \in Semaphores : t # s => N[t] = semaph[t]
      /\ N[s].used /\ QueueFits(N[s], U) /\ N[s].semcnt = k - 1
      /\ k >= 1 => Row(N[s]) = {}
  BY <1>1, <1>4 DEF Joined
<1>6. k = COMBUFSZ - m - Promised /\ Promised \in Nat /\ m \in Nat /\ COMBUFSZ \in Nat
  <2>1. Promised \in Nat
    BY SomeProcs DEF Promised, Writers
  <2>. QED
    BY <2>1, Drivers DEF OutputInv
<1>7. Places(doing[p].call) = 0
  BY <1>2 DEF Places
<1>8. CASE k > 0
  <2>1. SecondPlace(p, ch, N)
    BY <1>2, <1>8 DEF computc
  <2>2. Ready(p, N)
    <3>1. QueueFits(N[s], V)
      <4>1. Row(N[s]) \subseteq V
        BY <1>1, <1>5, <1>8
      <4>. HIDE DEF N, s, U, V
      <4>. QED
        BY <1>5, <4>1, OthersFit
    <3>. HIDE DEF N
    <3>. QED
      BY <1>5, <3>1 DEF Ready
  <2>3. /\ m + 1 <= COMBUFSZ
        /\ N[s].semcnt > 0 => m + 2 <= COMBUFSZ
        /\ N[s].semcnt = COMBUFSZ - m - 1 - (Promised - 0)
    <3>. HIDE DEF N, k, m
    <3>. QED
      BY <1>1, <1>5, <1>6, <1>8
  <2>4. N[s].semcnt = COMBUFSZ - m - 1 - (Promised - Places(doing[p].call))
    BY <1>7, <2>3
  <2>. HIDE DEF N
  <2>. QED
    BY <1>2, <2>1, <2>2, <2>3, <2>4, SecondPlaceKeeps
<1>9. CASE ~(k > 0)
  <2>. DEFINE cont == [call |-> "computc", ch |-> ch]
  <2>1. /\ semaph' = N /\ Goes(p, cont) /\ UNCHANGED output
        /\ cont.call = "computc" /\ cont.ch \in {"x", "\n"}
    BY <1>2, <1>9 DEF computc
  <2>2. /\ cont.call \in OutputCalls /\ Places(cont.call) = 1
        /\ doing[p].call \in OutputCalls \cup {"idle"}
    BY <1>2, <2>1 DEF OutputCalls, Places
  <2>3. \A q \in Procs : q \in U <=> IF q = p THEN cont.call \in OutputCalls ELSE q \in InCall(OutputCalls)
    BY <2>2
  <2>4. /\ Buffer(com', written') /\ thre' \in BOOLEAN /\ ier' \in BOOLEAN /\ overtaken' \in BOOLEAN
        /\ ~overtaken' => InPlace(com', written')
    BY <2>1 DEF OutputInv, Buffer, InPlace, output
  <2>5. semaph'[OSEMA].semcnt = COMBUFSZ - com'.count - (Promised - Places(doing[p].call) + Places(cont.call))
    <3>1. semaph'[s].semcnt = COMBUFSZ - m - (Promised - 0 + 1)
      <4>. HIDE DEF N, k, m
      <4>. QED
        BY <1>1, <1>5, <1>6, <2>1
    <3>2. com' = com
      BY <2>1 DEF output
    <3>. QED
      BY <1>7, <2>2, <3>1, <3>2
  <2>6. /\ semaph' \in [Semaphores -> Sems] /\ \A t \in Semaphores : t # OSEMA => semaph'[t] = semaph[t]
        /\ semaph'[OSEMA].used /\ QueueFits(semaph'[OSEMA], U)
    BY <1>5, <2>1
  <2>. HIDE DEF U, cont
  <2>. QED
    BY <1>3, <2>1, <2>2, <2>3, <2>4, <2>5, <2>6, OutputMoves
<1>. QED
  BY <1>8, <1>9

\* A process in the output that waits no more.
LEMMA GoesOnReady ==
  ASSUME TasksTyped, SemsOwned, OutputInv, NEW p \in Procs, NEW call \in OutputCalls, At(p, call)
  PROVE  /\ doing[p].call = call /\ p \notin Row(semaph[OSEMA]) /\ Ready(p, semaph)
         /\ semaph[OSEMA].semcnt = COMBUFSZ - com.count - Promised
         /\ com.count \in Nat /\ Promised \in Nat /\ COMBUFSZ \in Nat
         /\ semaph[OSEMA].semcnt \in Int
<1>. DEFINE W == InCall(OutputCalls)
<1>1. doing[p].call = call /\ p \notin Row(semaph[OSEMA])
  BY AtStep, Drivers
<1>2. semaph \in [Semaphores -> Sems] /\ semaph[OSEMA].used /\ semaph[OSEMA] \in Sems
      /\ semaph[OSEMA].semcnt \in Int
  BY DriverSems
<1>3. W \in SUBSET Procs /\ QueueFits(semaph[OSEMA], W)
  BY DEF InCall, OutputInv
<1>4. QueueFits(semaph[OSEMA], W \ {p})
  <2>1. Row(semaph[OSEMA]) \subseteq W \ {p}
    BY <1>1, <1>2, <1>3, RowCounted
  <2>. HIDE DEF W
  <2>. QED
    BY <1>3, <2>1, OthersFit
<1>5. Promised \in Nat
  BY SomeProcs DEF Promised, Writers
<1>. QED
  BY <1>1, <1>2, <1>4, <1>5, Drivers DEF Ready, OutputInv

\* It goes on when it has its first place.
LEMMA computcGoesOnKeeps ==
  ASSUME TasksTyped, SemsOwned, OutputInv, UNCHANGED lent, NEW p \in Procs, computcGoesOn(p)
  PROVE  OutputInv' /\ TasksTyped' /\ SemsOwned' /\ Local(OutputCalls, {OSEMA})
<1>1. At(p, "computc") /\ "computc" \in OutputCalls
  BY DEF computcGoesOn, OutputCalls
<1>2. /\ doing[p].call = "computc" /\ p \notin Row(semaph[OSEMA]) /\ Ready(p, semaph)
      /\ semaph[OSEMA].semcnt = COMBUFSZ - com.count - Promised
      /\ com.count \in Nat /\ Promised \in Nat /\ COMBUFSZ \in Nat
      /\ semaph[OSEMA].semcnt \in Int
  BY <1>1, GoesOnReady
<1>3. Places(doing[p].call) = 1
  BY <1>2 DEF Places
<1>4. /\ com.count + 1 <= COMBUFSZ
      /\ semaph[OSEMA].semcnt > 0 => com.count + 2 <= COMBUFSZ
  BY <1>1, <1>2, <1>3, RoomThere
<1>5. semaph[OSEMA].semcnt = COMBUFSZ - com.count - 1 - (Promised - Places(doing[p].call))
  <2>. DEFINE m == com.count
              k == semaph[OSEMA].semcnt
              u == Promised
  <2>1. m \in Nat /\ u \in Nat /\ COMBUFSZ \in Nat /\ k = COMBUFSZ - m - u
    BY <1>2
  <2>2. k = COMBUFSZ - m - 1 - (u - 1)
    <3>. HIDE DEF m, k, u
    <3>. QED
      BY <2>1
  <2>. QED
    BY <1>3, <2>2
<1>6. PICK ch \in {"x", "\n"} : ch = doing[p].ch
  BY <1>2 DEF OutputInv
<1>7. SecondPlace(p, ch, semaph)
  BY <1>6 DEF computcGoesOn
<1>. QED
  BY <1>2, <1>4, <1>5, <1>7, SecondPlaceKeeps

\* And when a line end has its second.
LEMMA computcLineEndsKeeps ==
  ASSUME TasksTyped, SemsOwned, OutputInv, UNCHANGED lent, NEW p \in Procs, computcLineEnds(p)
  PROVE  OutputInv' /\ TasksTyped' /\ SemsOwned' /\ Local(OutputCalls, {OSEMA})
<1>. DEFINE chars == <<"\r", "\n">>
<1>1. At(p, "computcLine") /\ "computcLine" \in OutputCalls
  BY DEF computcLineEnds, OutputCalls
<1>2. /\ doing[p].call = "computcLine" /\ p \notin Row(semaph[OSEMA]) /\ Ready(p, semaph)
      /\ semaph[OSEMA].semcnt = COMBUFSZ - com.count - Promised
      /\ com.count \in Nat /\ Promised \in Nat /\ COMBUFSZ \in Nat
      /\ semaph[OSEMA].semcnt \in Int
  BY <1>1, GoesOnReady
<1>3. Places(doing[p].call) = 2 /\ chars \in Seq(Sendable) /\ Len(chars) = 2
  BY <1>2 DEF Places, Sendable
<1>4. com.count + Len(chars) <= COMBUFSZ
  BY <1>1, <1>2, <1>3, RoomThere
<1>5. semaph[OSEMA].semcnt = COMBUFSZ - com.count - Len(chars) - (Promised - Places(doing[p].call))
  <2>. DEFINE m == com.count
              k == semaph[OSEMA].semcnt
              u == Promised
  <2>1. m \in Nat /\ u \in Nat /\ COMBUFSZ \in Nat /\ k = COMBUFSZ - m - u
    BY <1>2
  <2>2. k = COMBUFSZ - m - 2 - (u - 2)
    <3>. HIDE DEF m, k, u
    <3>. QED
      BY <2>1
  <2>. QED
    BY <1>3, <2>2
<1>6. PICK pos \in Nat : pos = doing[p].pos
  <2>1. doing[p].pos \in Nat
    BY <1>2 DEF OutputInv
  <2>. QED
    BY <2>1
<1>7. Puts(p, chars, pos, semaph)
  BY <1>6 DEF computcLineEnds
<1>8. doing[p].call \in OutputCalls \cup {"idle"} /\ Len(chars) \in {1, 2}
  BY <1>1, <1>2, <1>3
<1>. HIDE DEF chars
<1>. QED
  BY <1>2, <1>3, <1>4, <1>5, <1>7, <1>8, PutsKeeps

\* The transmitter is empty again, and takes the next character (comintr.c).
LEMMA comintrKeeps ==
  ASSUME TasksTyped, SemsOwned, OutputInv, UNCHANGED lent, Transmitted \/ comintr
  PROVE  OutputInv' /\ TasksTyped' /\ SemsOwned' /\ Local(OutputCalls, {OSEMA})
<1>. DEFINE s == OSEMA
            W == InCall(OutputCalls)
<1>1. UNCHANGED <<doing, overtaken>> /\ thre' \in BOOLEAN
  BY DEF Transmitted, comintr, tasks
<1>2. UNCHANGED <<InCall(OutputCalls), Promised>>
  BY <1>1 DEF InCall, Promised, Writers
<1>3. /\ semaph \in [Semaphores -> Sems] /\ s \in Semaphores /\ Known(s) /\ semaph[s].used
      /\ semaph[s] \in Sems
  BY DriverSems, Drivers
<1>4. /\ Buffer(com, written) /\ (~overtaken => InPlace(com, written)) /\ com.count \in Nat
      /\ W \in SUBSET Procs /\ QueueFits(semaph[s], W)
      /\ semaph[s].semcnt = COMBUFSZ - com.count - Promised
  BY DEF OutputInv, Buffer, InPlace, InCall
<1>5. /\ Buffer(com', written') /\ (~overtaken => InPlace(com', written')) /\ ier' \in BOOLEAN
      /\ semaph' \in [Semaphores -> Sems] /\ \A t \in Semaphores : t # s => semaph'[t] = semaph[t]
      /\ semaph'[s].used /\ QueueFits(semaph'[s], W)
      /\ semaph'[s].semcnt = COMBUFSZ - com'.count - Promised
  <2>1. CASE Transmitted
    <3>1. UNCHANGED <<semaph, com, ier, written>>
      BY <2>1 DEF Transmitted, tasks
    <3>2. ier \in BOOLEAN
      BY DEF OutputInv
    <3>. QED
      BY <1>3, <1>4, <3>1, <3>2
  <2>2. CASE comintr
    <3>1. /\ com' = Sent(com) /\ written' = Tail(written) /\ semaph' = Signalled(semaph, s)
          /\ com.count >= 1 /\ ier' \in BOOLEAN
      BY <1>3, <1>4, <2>2 DEF comintr, signal
    <3>2. /\ Buffer(com', written') /\ com'.count = com.count - 1
          /\ InPlace(com, written) => InPlace(com', written')
      BY <1>4, <3>1, SentKeeps
    <3>3. GoneOn(semaph, semaph', s, W)
      <4>. HIDE DEF s, W
      <4>. QED
        BY <1>3, <1>4, <3>1, SignalFits
    <3>4. /\ semaph' \in [Semaphores -> Sems] /\ \A t \in Semaphores : t # s => semaph'[t] = semaph[t]
          /\ semaph'[s].used /\ semaph'[s].semcnt = semaph[s].semcnt + 1
          /\ QueueFits(semaph'[s], W)
      BY <1>3, <3>3 DEF GoneOn
    <3>5. semaph'[s].semcnt = COMBUFSZ - com'.count - Promised
      <4>1. Promised \in Nat /\ COMBUFSZ \in Nat
        BY SomeProcs, Drivers DEF Promised, Writers
      <4>. QED
        BY <1>4, <3>2, <3>4, <4>1
    <3>. QED
      BY <1>4, <3>1, <3>2, <3>4, <3>5
  <2>. QED
    BY <2>1, <2>2
<1>6. TasksTyped' /\ SemsOwned' /\ Local(OutputCalls, {OSEMA})
  <2>1. doing' = [q \in Procs |-> doing'[q]] /\ \A q \in Procs : doing'[q] = doing[q]
    BY <1>1 DEF TasksTyped
  <2>. QED
    BY <1>5, <2>1, DriverStep
<1>7. QueueFits(semaph[OSEMA], InCall(OutputCalls))'
  BY <1>2, <1>5
<1>8. semaph'[OSEMA].semcnt = COMBUFSZ - com'.count - Promised'
  BY <1>2, <1>5
<1>. QED
  BY <1>1, <1>5, <1>6, <1>7, <1>8 DEF OutputInv, Buffer, InPlace

-------------------------------------------------------------------------------
(***************************************************************************)
(* Queues: the arrays.                                                     *)
(***************************************************************************)
Cells == Entries \cup {NOTHING}

\* What is in order is an entry, and is there once.
LEMMA ArrangedOnce ==
  ASSUME NEW list, NEW n \in Nat, NEW came \in Seq(Entries), Arranged(list, n, came)
  PROVE  /\ Len(came) = n
         /\ \A i \in 1..n : list[i] \in Entries /\ list[i] # NOTHING /\ list[i].key \in Int
         /\ \A i, j \in 1..n : i < j => list[i] # list[j] /\ list[i].key >= list[j].key
<1>1. Len(came) = n /\ \A k \in 1..n : came[k] \in Entries
  BY DEF Arranged
<1>2. \A e \in Entries : e # NOTHING /\ e.key \in Int
  BY QueuesAssumption DEF Entries
<1>3. \A i \in 1..n : list[i] \in Entries
  BY <1>1 DEF Arranged
<1>4. \A i, j, k, l \in 1..n : i < j /\ list[i] = came[k] /\ list[j] = came[l] =>
        list[i].key > list[j].key \/ (list[i].key = list[j].key /\ k < l)
  BY DEF Arranged
<1>5. ASSUME NEW i \in 1..n, NEW j \in 1..n, i < j
      PROVE  list[i] # list[j] /\ list[i].key >= list[j].key
  <2>1. PICK k \in 1..n : list[i] = came[k]
    BY DEF Arranged
  <2>2. PICK l \in 1..n : list[j] = came[l]
    BY DEF Arranged
  <2>3. list[i].key > list[j].key \/ (list[i].key = list[j].key /\ k < l)
    BY <1>5, <1>4, <2>1, <2>2
  <2>4. list[i].key \in Int /\ list[j].key \in Int
    BY <1>2, <1>3
  <2>5. list[i].key >= list[j].key
    BY <2>3, <2>4
  <2>6. list[i] # list[j]
    <3>. SUFFICES ASSUME list[i] = list[j] PROVE FALSE
      OBVIOUS
    <3>1. list[j] = came[k]
      BY <2>1
    <3>2. list[i].key > list[j].key \/ (list[i].key = list[j].key /\ k < k)
      BY <1>5, <1>4, <2>1, <3>1
    <3>3. list[i].key = list[j].key /\ ~(k < k)
      OBVIOUS
    <3>. QED
      BY <2>4, <3>2, <3>3
  <2>. QED
    BY <2>5, <2>6
<1>. QED
  BY <1>1, <1>2, <1>3, <1>5

\* From the tail, as long as the new key is greater: behind this are the smaller keys.
LEMMA BehindStops ==
  ASSUME NEW list, NEW n \in Nat, NEW came \in Seq(Entries), Arranged(list, n, came), NEW key \in Int,
         NEW i, i = Behind(list, n, key)
  PROVE  /\ i \in 0..n
         /\ \A j \in 1..n : j <= i => list[j].key >= key
         /\ \A j \in 1..n : j > i => list[j].key < key
<1>. DEFINE Stops == {j \in 1..n : list[j] # NOTHING /\ key <= list[j].key}
<1>1. i = IF Stops = {} THEN 0 ELSE CHOOSE k \in Stops : \A j \in Stops : j <= k
  BY DEF Behind
<1>2. Stops \in SUBSET (1..n)
  OBVIOUS
<1>3. /\ \A j \in 1..n : list[j] # NOTHING /\ list[j].key \in Int
      /\ \A j, k \in 1..n : j < k => list[j].key >= list[k].key
  BY ArrangedOnce
<1>4. \A j \in 1..n : j \in Stops <=> list[j].key >= key
  BY <1>3
<1>5. CASE Stops = {}
  <2>1. i = 0
    BY <1>1, <1>5
  <2>. QED
    BY <1>3, <1>4, <1>5, <2>1
<1>6. CASE Stops # {}
  <2>1. i \in Stops /\ \A j \in Stops : j <= i
    <3>. HIDE DEF Stops
    <3>1. i = CHOOSE k \in Stops : \A j \in Stops : j <= k
      BY <1>1, <1>6
    <3>. QED
      BY <1>2, <1>6, <3>1, GreatestThere, Zenon
  <2>2. i \in 1..n /\ list[i].key >= key
    BY <1>2, <1>4, <2>1
  <2>3. ASSUME NEW j \in 1..n, j <= i PROVE list[j].key >= key
    <3>1. CASE j = i
      BY <2>2, <3>1
    <3>2. CASE j < i
      <4>1. list[j].key >= list[i].key
        BY <1>3, <2>2, <3>2
      <4>. QED
        BY <1>3, <2>2, <4>1
    <3>. QED
      BY <2>2, <2>3, <3>1, <3>2
  <2>4. ASSUME NEW j \in 1..n, j > i PROVE list[j].key < key
    <3>1. j \notin Stops
      BY <2>1, <2>2, <2>4
    <3>. QED
      BY <1>3, <1>4, <3>1
  <2>. QED
    BY <2>2, <2>3, <2>4
<1>. QED
  BY <1>5, <1>6

\* The entry goes between those that are not behind it and those that are.
LEMMA PlacedAt ==
  ASSUME NEW list \in Seq(Cells), NEW n \in Nat, n < Len(list), NEW e \in Entries,
         NEW i \in 0..n, i = Behind(list, n, e.key), NEW new, new = Placed(list, n, e)
  PROVE  /\ new \in Seq(Cells) /\ Len(new) = Len(list)
         /\ \A j \in 1..i : new[j] = list[j]
         /\ new[i + 1] = e
         /\ \A j \in i + 1..n : new[j + 1] = list[j]
<1>. DEFINE before == SubSeq(list, 1, i)
            behind == SubSeq(list, i + 1, n)
            others == SubSeq(list, n + 2, Len(list))
            m == Len(list)
<1>1. m \in Nat /\ i \in Nat /\ e \in Cells /\ <<e>> \in Seq(Cells) /\ Len(<<e>>) = 1 /\ <<e>>[1] = e
  BY DEF Cells
<1>2. new = before \o <<e>> \o behind \o others
  BY DEF Placed
<1>3. /\ before \in Seq(Cells) /\ Len(before) = i /\ \A j \in 1..i : before[j] = list[j]
  <2>1. \A j \in 1..i : list[j] \in Cells
    BY <1>1
  <2>. QED
    BY <1>1, <2>1, SubSeqProperties
<1>4. /\ behind \in Seq(Cells) /\ Len(behind) = n - i /\ \A j \in 1..n - i : behind[j] = list[i + j]
  <2>1. i + 1 \in 1..n + 1 /\ n \in i..m
    BY <1>1
  <2>2. \A j \in i + 1..n : list[j] \in Cells
    BY <1>1
  <2>. QED
    BY <1>1, <2>1, <2>2, SubSeqProperties
<1>5. /\ others \in Seq(Cells) /\ Len(others) = m - (n + 1)
  <2>1. n + 2 \in 1..m + 1
    BY <1>1
  <2>2. \A j \in n + 2..m : list[j] \in Cells
    BY <1>1
  <2>. QED
    BY <1>1, <2>1, <2>2, SubSeqProperties
<1>. DEFINE two == before \o <<e>>
            three == two \o behind
<1>. HIDE DEF before, behind, others, two, three, m
<1>6. /\ two \in Seq(Cells) /\ Len(two) = i + 1
      /\ \A j \in 1..i : two[j] = list[j]
      /\ two[i + 1] = e
  <2>1. /\ two \in Seq(Cells) /\ Len(two) = Len(before) + Len(<<e>>)
        /\ \A j \in 1..Len(before) + Len(<<e>>) :
             two[j] = IF j <= Len(before) THEN before[j] ELSE <<e>>[j - Len(before)]
    BY <1>1, <1>3, ConcatProperties DEF two
  <2>2. \A j \in 1..i : two[j] = list[j]
    BY <1>1, <1>3, <2>1
  <2>3. two[i + 1] = <<e>>[1]
    BY <1>1, <1>3, <2>1
  <2>. QED
    BY <1>1, <1>3, <2>1, <2>2, <2>3
<1>7. /\ three \in Seq(Cells) /\ Len(three) = n + 1
      /\ \A j \in 1..i + 1 : three[j] = two[j]
      /\ \A j \in i + 1..n : three[j + 1] = list[j]
  <2>1. /\ three \in Seq(Cells) /\ Len(three) = Len(two) + Len(behind)
        /\ \A j \in 1..Len(two) + Len(behind) :
             three[j] = IF j <= Len(two) THEN two[j] ELSE behind[j - Len(two)]
    BY <1>4, <1>6, ConcatProperties DEF three
  <2>2. \A j \in i + 1..n : three[j + 1] = list[j]
    <3>. SUFFICES ASSUME NEW j \in i + 1..n PROVE three[j + 1] = list[j]
      OBVIOUS
    <3>0. j + 1 \in 1..Len(two) + Len(behind) /\ ~(j + 1 <= Len(two)) /\ Len(two) = i + 1
      BY <1>1, <1>4, <1>6
    <3>1. three[j + 1] = behind[j + 1 - (i + 1)]
      BY <2>1, <3>0
    <3>2. j + 1 - (i + 1) \in 1..n - i /\ i + (j + 1 - (i + 1)) = j
      BY <1>1
    <3>. QED
      BY <1>4, <3>1, <3>2
  <2>. QED
    BY SMTT(30), ZenonT(30), <1>1, <1>4, <1>6, <2>1, <2>2
<1>8. /\ new \in Seq(Cells) /\ Len(new) = n + 1 + (m - (n + 1))
      /\ \A j \in 1..n + 1 : new[j] = three[j]
  <2>1. new = three \o others
    BY <1>2 DEF two, three
  <2>2. /\ new \in Seq(Cells) /\ Len(new) = Len(three) + Len(others)
        /\ \A j \in 1..Len(three) + Len(others) :
             new[j] = IF j <= Len(three) THEN three[j] ELSE others[j - Len(three)]
    <3>1. /\ three \o others \in Seq(Cells) /\ Len(three \o others) = Len(three) + Len(others)
          /\ \A j \in 1..Len(three) + Len(others) :
               (three \o others)[j] = IF j <= Len(three) THEN three[j] ELSE others[j - Len(three)]
      BY <1>5, <1>7, ConcatProperties
    <3>. QED
      BY <2>1, <3>1, Zenon
  <2>3. m - (n + 1) \in Nat
    BY <1>1 DEF m
  <2>. QED
    BY <1>5, <1>7, <2>2, <2>3
<1>9. Len(new) = Len(list)
  BY <1>1, <1>8 DEF m
<1>10. ASSUME NEW j \in 1..i PROVE new[j] = list[j]
  <2>1. j \in 1..i + 1 /\ j \in 1..n + 1
    BY <1>1
  <2>. QED
    BY <1>6, <1>7, <1>8, <2>1
<1>11. new[i + 1] = e
  <2>1. i + 1 \in 1..i + 1 /\ i + 1 \in 1..n + 1
    BY <1>1
  <2>. QED
    BY <1>6, <1>7, <1>8, <2>1
<1>12. ASSUME NEW j \in i + 1..n PROVE new[j + 1] = list[j]
  <2>1. j + 1 \in 1..n + 1
    BY <1>1
  <2>. QED
    BY <1>7, <1>8, <2>1
<1>. QED
  BY <1>8, <1>9, <1>10, <1>11, <1>12

\* enq() keeps the order: greater keys first, equal keys as they came (gpq.c, enq).
LEMMA PlacedArranged ==
  ASSUME NEW list \in Seq(Cells), NEW n \in Nat, n < Len(list), NEW came \in Seq(Entries),
         Arranged(list, n, came), NEW e \in Entries, \A k \in 1..n : came[k] # e,
         NEW new, new = Placed(list, n, e), NEW came1, came1 = Append(came, e)
  PROVE  /\ new \in Seq(Cells) /\ Len(new) = Len(list)
         /\ came1 \in Seq(Entries) /\ Arranged(new, n + 1, came1)
<1>1. PICK i : i = Behind(list, n, e.key)
  OBVIOUS
<1>2. /\ Len(came) = n
      /\ \A j \in 1..n : list[j] \in Entries /\ list[j].key \in Int
  BY ArrangedOnce
<1>3. e.key \in Int
  BY QueuesAssumption DEF Entries
<1>4. /\ i \in 0..n
      /\ \A j \in 1..n : j <= i => list[j].key >= e.key
      /\ \A j \in 1..n : j > i => list[j].key < e.key
  <2>1. PICK key \in Int : key = e.key
    BY <1>3
  <2>2. i = Behind(list, n, key)
    BY <1>1, <2>1
  <2>3. /\ i \in 0..n
        /\ \A j \in 1..n : j <= i => list[j].key >= key
        /\ \A j \in 1..n : j > i => list[j].key < key
    BY <2>2, BehindStops
  <2>. QED
    BY <2>1, <2>3
<1>5. /\ new \in Seq(Cells) /\ Len(new) = Len(list)
      /\ \A j \in 1..i : new[j] = list[j]
      /\ new[i + 1] = e
      /\ \A j \in i + 1..n : new[j + 1] = list[j]
  BY <1>1, <1>4, PlacedAt
<1>6. /\ came1 \in Seq(Entries) /\ Len(came1) = n + 1
      /\ \A k \in 1..n : came1[k] = came[k]
      /\ came1[n + 1] = e
  BY <1>2, AppendProperties
<1>7. \A k \in 1..n + 1 : k \in 1..n \/ k = n + 1
  OBVIOUS
\* Where an entry of the list is from.
<1>8. ASSUME NEW j \in 1..n + 1
      PROVE  j = i + 1 \/ \E h \in 1..n : new[j] = list[h] /\ h = IF j <= i THEN j ELSE j - 1
  <2>1. CASE j <= i
    BY <1>4, <1>5, <2>1
  <2>2. CASE j > i + 1
    <3>1. j - 1 \in i + 1..n /\ j - 1 + 1 = j /\ j - 1 \in 1..n /\ ~(j <= i)
      BY <1>4, <2>2
    <3>. QED
      BY <1>5, <3>1
  <2>. QED
    BY <1>4, <2>1, <2>2
<1>9. \A h \in 1..n : \E j \in 1..n + 1 : new[j] = list[h]
  BY <1>4, <1>5
<1>10. \A j \in 1..n + 1 : \E k \in 1..n + 1 : new[j] = came1[k]
  <2>. SUFFICES ASSUME NEW j \in 1..n + 1 PROVE \E k \in 1..n + 1 : new[j] = came1[k]
    OBVIOUS
  <2>1. CASE j = i + 1
    BY <1>5, <1>6, <2>1
  <2>2. CASE \E h \in 1..n : new[j] = list[h]
    <3>1. PICK h \in 1..n : new[j] = list[h]
      BY <2>2
    <3>2. PICK k \in 1..n : list[h] = came[k]
      BY DEF Arranged
    <3>. QED
      BY <1>6, <3>1, <3>2
  <2>. QED
    BY <1>8, <2>1, <2>2
<1>11. \A k \in 1..n + 1 : \E j \in 1..n + 1 : new[j] = came1[k]
  <2>. SUFFICES ASSUME NEW k \in 1..n + 1 PROVE \E j \in 1..n + 1 : new[j] = came1[k]
    OBVIOUS
  <2>1. CASE k = n + 1
    BY <1>4, <1>5, <1>6, <2>1
  <2>2. CASE k \in 1..n
    <3>1. PICK h \in 1..n : list[h] = came[k]
      BY <2>2 DEF Arranged
    <3>. QED
      BY <1>6, <1>9, <2>2, <3>1
  <2>. QED
    BY <1>7, <2>1, <2>2
<1>12. \A h \in 1..n : list[h] # e
  <2>1. \A h \in 1..n : \E k \in 1..n : list[h] = came[k]
    BY DEF Arranged
  <2>. QED
    BY <2>1
<1>13. ASSUME NEW a \in 1..n + 1, NEW b \in 1..n + 1, NEW k \in 1..n + 1, NEW l \in 1..n + 1,
              a < b, new[a] = came1[k], new[b] = came1[l]
       PROVE  new[a].key > new[b].key \/ (new[a].key = new[b].key /\ k < l)
  <2>1. CASE a # i + 1 /\ b # i + 1
    <3>1. PICK h \in 1..n : new[a] = list[h] /\ h = IF a <= i THEN a ELSE a - 1
      BY <1>8, <2>1
    <3>2. PICK g \in 1..n : new[b] = list[g] /\ g = IF b <= i THEN b ELSE b - 1
      BY <1>8, <2>1
    <3>3. h < g
      BY <1>4, <1>13, <2>1, <3>1, <3>2
    <3>4. k \in 1..n /\ l \in 1..n
      BY <1>6, <1>7, <1>12, <1>13, <3>1, <3>2
    <3>5. list[h] = came[k] /\ list[g] = came[l]
      BY <1>6, <1>13, <3>1, <3>2, <3>4
    <3>6. list[h].key > list[g].key \/ (list[h].key = list[g].key /\ k < l)
      BY <3>3, <3>4, <3>5 DEF Arranged
    <3>. QED
      BY <3>1, <3>2, <3>6
  <2>2. CASE b = i + 1
    <3>0. a <= i /\ a # i + 1
      BY <1>4, <1>13, <2>2
    <3>1. PICK h \in 1..n : new[a] = list[h] /\ h <= i
      BY <1>8, <3>0
    <3>2. l = n + 1 /\ k \in 1..n
      BY <1>5, <1>6, <1>7, <1>12, <1>13, <2>2, <3>1
    <3>3. new[a].key >= new[b].key /\ new[a].key \in Int /\ new[b].key \in Int
      BY <1>2, <1>3, <1>4, <1>5, <2>2, <3>1
    <3>4. k < l
      BY <3>2
    <3>. QED
      BY <3>3, <3>4
  <2>3. CASE a = i + 1
    <3>0. b # i + 1 /\ ~(b <= i) /\ b - 1 > i
      BY <1>4, <1>13, <2>3
    <3>1. PICK h \in 1..n : new[b] = list[h] /\ h > i
      BY <1>8, <3>0
    <3>2. new[a].key > new[b].key
      BY <1>2, <1>3, <1>4, <1>5, <2>3, <3>1
    <3>. QED
      BY <3>2
  <2>. QED
    BY <2>1, <2>2, <2>3
<1>14. \A a, b, k, l \in 1..n + 1 : a < b /\ new[a] = came1[k] /\ new[b] = came1[l] =>
         \/ new[a].key > new[b].key
         \/ new[a].key = new[b].key /\ k < l
  BY <1>13
<1>15. Arranged(new, n + 1, came1)
  BY <1>6, <1>10, <1>11, <1>14, Zenon DEF Arranged
<1>. QED
  BY <1>5, <1>6, <1>15

\* The entries behind the first move up by one.
LEMMA ShiftedBy ==
  ASSUME NEW list \in Seq(Cells), NEW n \in 1..Len(list), NEW new, new = Shifted(list, n)
  PROVE  /\ new \in Seq(Cells) /\ Len(new) = Len(list)
         /\ \A j \in 1..n - 1 : new[j] = list[j + 1]
<1>. DEFINE front == SubSeq(list, 2, n)
            back == SubSeq(list, n, Len(list))
            m == Len(list)
<1>1. m \in Nat /\ n \in Nat /\ n >= 1 /\ n <= m
  OBVIOUS
<1>2. new = front \o back
  BY <1>1 DEF Shifted
<1>3. /\ front \in Seq(Cells) /\ Len(front) = n - 1 /\ \A j \in 1..n - 1 : front[j] = list[j + 1]
  <2>1. 2 \in 1..n + 1 /\ n \in 2 - 1..m
    BY <1>1
  <2>2. \A j \in 2..n : list[j] \in Cells
    BY <1>1
  <2>3. /\ front \in Seq(Cells) /\ Len(front) = n - 2 + 1
        /\ \A j \in 1..n - 2 + 1 : front[j] = list[2 + j - 1]
    BY <1>1, <2>1, <2>2, SubSeqProperties
  <2>4. n - 2 + 1 = n - 1 /\ \A j \in 1..n - 1 : 2 + j - 1 = j + 1
    BY <1>1
  <2>. HIDE DEF front
  <2>. QED
    BY <2>3, <2>4
<1>4. back \in Seq(Cells) /\ Len(back) = m - n + 1
  <2>1. n \in 1..m + 1 /\ m \in n - 1..m
    BY <1>1
  <2>2. \A j \in n..m : list[j] \in Cells
    BY <1>1
  <2>. QED
    BY <1>1, <2>1, <2>2, SubSeqProperties
<1>. HIDE DEF front, back, m
<1>5. /\ front \o back \in Seq(Cells) /\ Len(front \o back) = Len(front) + Len(back)
      /\ \A j \in 1..Len(front) + Len(back) :
           (front \o back)[j] = IF j <= Len(front) THEN front[j] ELSE back[j - Len(front)]
  BY <1>3, <1>4, ConcatProperties
<1>6. Len(new) = m
  BY <1>1, <1>2, <1>3, <1>4, <1>5
<1>7. ASSUME NEW j \in 1..n - 1 PROVE new[j] = list[j + 1]
  <2>1. j \in 1..Len(front) + Len(back) /\ j <= Len(front)
    BY <1>1, <1>3, <1>4
  <2>. QED
    BY <1>2, <1>3, <1>5, <2>1
<1>. QED
  BY <1>2, <1>5, <1>6, <1>7 DEF m

\* Of n entries in order one was taken, and the others are in order.
Taken(list, n, came, new, came1) ==
  /\ new \in Seq(Cells) /\ Len(new) = Len(list)
  /\ came1 \in Seq(Entries) /\ Len(came1) = n - 1 /\ Arranged(new, n - 1, came1)
  /\ \A k \in 1..n - 1 : \E l \in 1..n : came1[k] = came[l]
  /\ \A k, l \in 1..n - 1 : came1[k] = came1[l] => k = l

\* deq() takes the first and keeps the order of the others (gpq.c, deq).
LEMMA ShiftedArranged ==
  ASSUME NEW list \in Seq(Cells), NEW n \in 1..Len(list), NEW came \in Seq(Entries),
         Arranged(list, n, came), \A k, l \in 1..n : came[k] = came[l] => k = l,
         NEW new, new = Shifted(list, n), NEW came1, came1 = Without(came, list[1])
  PROVE  Taken(list, n, came, new, came1)
<1>1. n \in Nat /\ n >= 1 /\ n - 1 \in Nat /\ \A j \in 1..n - 1 : j + 1 \in 1..n /\ j \in 1..n
  OBVIOUS
<1>2. /\ Len(came) = n
      /\ \A j \in 2..n : list[1] # list[j]
  BY <1>1, ArrangedOnce
<1>3. /\ new \in Seq(Cells) /\ Len(new) = Len(list)
      /\ \A j \in 1..n - 1 : new[j] = list[j + 1]
  BY ShiftedBy
<1>4. PICK m \in 1..n : list[1] = came[m]
  BY <1>1 DEF Arranged
<1>5. came1 = RemoveAt(came, m)
  <2>1. DOMAIN came = 1..n
    BY <1>2
  <2>2. \A i \in DOMAIN came : came[i] = list[1] <=> i = m
    BY <1>4, <2>1
  <2>3. (CHOOSE i \in DOMAIN came : came[i] = list[1]) = m
    BY <2>1, <2>2
  <2>. QED
    BY <2>1, <2>2, <2>3 DEF Without, RemoveAt
<1>. DEFINE At0(k) == IF k < m THEN k ELSE k + 1
<1>6. /\ came1 \in Seq(Entries) /\ Len(came1) = n - 1
      /\ \A k \in 1..n - 1 : came1[k] = came[At0(k)]
  <2>1. m \in 1..Len(came)
    BY <1>2
  <2>2. /\ RemoveAt(came, m) \in Seq(Entries) /\ Len(RemoveAt(came, m)) = Len(came) - 1
        /\ \A k \in 1..Len(came) - 1 :
             RemoveAt(came, m)[k] = IF k < m THEN came[k] ELSE came[k + 1]
    BY <2>1, RemoveAtProperties
  <2>. QED
    BY <1>2, <1>5, <2>2
<1>7. /\ \A k \in 1..n - 1 : At0(k) \in 1..n /\ At0(k) # m
      /\ \A k, l \in 1..n - 1 : At0(k) < At0(l) <=> k < l
      /\ \A k, l \in 1..n - 1 : At0(k) = At0(l) => k = l
  BY <1>1, <1>4
<1>8. \A k \in 1..n : k # m => \E j \in 1..n - 1 : At0(j) = k
  <2>. SUFFICES ASSUME NEW k \in 1..n, k # m PROVE \E j \in 1..n - 1 : At0(j) = k
    OBVIOUS
  <2>1. CASE k < m
    <3>1. k \in 1..n - 1 /\ At0(k) = k
      BY <1>1, <1>4, <2>1
    <3>. QED
      BY <3>1
  <2>2. CASE k > m
    <3>1. k - 1 \in 1..n - 1 /\ At0(k - 1) = k
      BY <1>1, <1>4, <2>2
    <3>. QED
      BY <3>1
  <2>. QED
    BY <1>4, <2>1, <2>2
<1>. HIDE DEF At0
<1>9. ASSUME NEW j \in 1..n - 1 PROVE \E k \in 1..n - 1 : new[j] = came1[k]
  <2>1. PICK k \in 1..n : list[j + 1] = came[k]
    BY <1>1 DEF Arranged
  <2>2. k # m
    BY <1>1, <1>2, <1>4, <2>1
  <2>3. PICK l \in 1..n - 1 : At0(l) = k
    BY <1>8, <2>2
  <2>. QED
    BY <1>3, <1>6, <2>1, <2>3
<1>10. ASSUME NEW k \in 1..n - 1 PROVE \E j \in 1..n - 1 : new[j] = came1[k]
  <2>1. PICK i \in 1..n : list[i] = came[At0(k)]
    BY <1>7 DEF Arranged
  <2>2. i # 1
    BY <1>4, <1>7, <2>1
  <2>3. i - 1 \in 1..n - 1 /\ i - 1 + 1 = i
    BY <1>1, <2>2
  <2>4. new[i - 1] = list[i]
    BY <1>3, <2>3
  <2>5. new[i - 1] = came1[k]
    BY <1>6, <2>1, <2>4
  <2>. QED
    BY <2>3, <2>5
<1>11. ASSUME NEW a \in 1..n - 1, NEW b \in 1..n - 1, NEW k \in 1..n - 1, NEW l \in 1..n - 1,
              a < b, new[a] = came1[k], new[b] = came1[l]
       PROVE  new[a].key > new[b].key \/ (new[a].key = new[b].key /\ k < l)
  <2>1. /\ a + 1 \in 1..n /\ b + 1 \in 1..n /\ a + 1 < b + 1
        /\ new[a] = list[a + 1] /\ new[b] = list[b + 1]
    BY <1>1, <1>3, <1>11
  <2>2. /\ At0(k) \in 1..n /\ At0(l) \in 1..n
        /\ list[a + 1] = came[At0(k)] /\ list[b + 1] = came[At0(l)]
    BY <1>6, <1>7, <1>11, <2>1
  <2>3. \/ list[a + 1].key > list[b + 1].key
        \/ list[a + 1].key = list[b + 1].key /\ At0(k) < At0(l)
    <3>1. \A i, j, g, h \in 1..n : i < j /\ list[i] = came[g] /\ list[j] = came[h] =>
            list[i].key > list[j].key \/ (list[i].key = list[j].key /\ g < h)
      BY DEF Arranged
    <3>. QED
      BY SMTT(30), ZenonT(30), <2>1, <2>2, <3>1
  <2>. QED
    BY <1>7, <2>1, <2>3
<1>12. \A a, b, k, l \in 1..n - 1 : a < b /\ new[a] = came1[k] /\ new[b] = came1[l] =>
         \/ new[a].key > new[b].key
         \/ new[a].key = new[b].key /\ k < l
  BY <1>11
<1>13. Arranged(new, n - 1, came1)
  BY <1>6, <1>9, <1>10, <1>12, Zenon DEF Arranged
<1>14. /\ \A k \in 1..n - 1 : \E l \in 1..n : came1[k] = came[l]
       /\ \A k, l \in 1..n - 1 : came1[k] = came1[l] => k = l
  BY SMTT(30), ZenonT(30), <1>6, <1>7
<1>. QED
  BY <1>3, <1>6, <1>13, <1>14 DEF Taken

-------------------------------------------------------------------------------
(***************************************************************************)
(* Queues: the calls.                                                      *)
(***************************************************************************)
\* A step of p in a call on queue q.
StepOn(p, q, cont) ==
  /\ Goes(p, cont)
  /\ doing[p].call \in QueueCalls \cup {"idle"} /\ cont.call \in QueueCalls \cup {"idle"}
  /\ doing[p].call \in QueueCalls => doing[p].q = q
  /\ cont.call \in QueueCalls => cont.q = q
  /\ \A r \in Queues \ {q} : /\ Q'[r] = Q[r] /\ arrays'[r] = arrays[r] /\ arrived'[r] = arrived[r]
                             /\ r \in usable' <=> r \in usable
                             /\ r \in raced' <=> r \in raced
  /\ Q' = [r \in Queues |-> Q'[r]] /\ arrays' = [r \in Queues |-> arrays'[r]]
  /\ arrived' = [r \in Queues |-> arrived'[r]]
  /\ usable' \subseteq Queues /\ raced' \subseteq Queues /\ broken' \in BOOLEAN
  /\ UNCHANGED pools

\* Who is in which call after the step.
LEMMA PastMoves ==
  ASSUME TasksTyped, NEW p \in Procs, NEW q, NEW cont, StepOn(p, q, cont),
         NEW calls \in SUBSET QueueCalls
  PROVE  /\ Past(calls, q)' = IF cont.call \in calls THEN Past(calls, q) \cup {p}
                                                     ELSE Past(calls, q) \ {p}
         /\ p \in Past(calls, q) <=> doing[p].call \in calls
         /\ Past(calls, q) \subseteq Procs
<1>1. doing'[p] = cont /\ \A r \in Procs \ {p} : doing'[r] = doing[r]
  BY GoesFrom DEF StepOn
<1>2. (cont.call \in calls => cont.q = q) /\ (doing[p].call \in calls => doing[p].q = q)
  BY DEF StepOn
<1>. QED
  BY <1>1, <1>2 DEF Past

\* Calls on other queues are left alone.
LEMMA OthersOn ==
  ASSUME TasksTyped, NEW p \in Procs, NEW q, NEW cont, StepOn(p, q, cont),
         NEW r, r # q
  PROVE  SameOn(r)
<1>1. doing'[p] = cont /\ \A t \in Procs \ {p} : doing'[t] = doing[t]
  BY GoesFrom DEF StepOn
<1>2. ~(doing[p].call \in QueueCalls /\ doing[p].q = r) /\ ~(cont.call \in QueueCalls /\ cont.q = r)
  BY DEF StepOn
<1>. QED
  BY <1>1, <1>2 DEF SameOn

\* The semaphores of the other queues are left alone.
OthersMutexes(q) ==
  \A r \in Queues \ {q} : Q[r].mutex # SYSERR => semaph'[Q[r].mutex] = semaph[Q[r].mutex]

\* What is left to show of a step on a queue.
LEMMA QueueStep ==
  ASSUME TasksTyped, SemsOwned, QueuesInv, NEW p \in Procs, NEW q \in Queues, NEW cont,
         StepOn(p, q, cont), semaph' \in [Semaphores -> Sems], OthersMutexes(q),
         CallTyped(p)', QueueTyped(q)', QueueLive(q)', MutexHeld(q)',
         q \notin raced' => QueueOrdered(q)', ArraysHeld', BrokenByRaces'
  PROVE  QueuesInv' /\ TasksTyped'
<1>1. /\ doing' = [t \in Procs |-> doing'[t]] /\ doing'[p] = cont
      /\ \A t \in Procs \ {p} : doing'[t] = doing[t]
  BY GoesFrom DEF StepOn
<1>2. TasksTyped'
  BY <1>1 DEF TasksTyped, Sems
<1>3. ASSUME NEW r \in Queues, r # q
      PROVE  QueueTyped(r)' /\ QueueLive(r)' /\ MutexHeld(r)' /\ (r \notin raced' => QueueOrdered(r)')
  <2>1. SameOn(r)
    BY <1>3, OthersOn
  <2>2. /\ Q'[r] = Q[r] /\ arrays'[r] = arrays[r] /\ arrived'[r] = arrived[r]
        /\ r \in usable' <=> r \in usable
        /\ r \in raced' <=> r \in raced
        /\ Q[r].mutex # SYSERR => semaph'[Q[r].mutex] = semaph[Q[r].mutex]
    BY <1>3 DEF StepOn, OthersMutexes
  <2>3. /\ QueueTyped(r) => QueueTyped(r)'
        /\ QueueLive(r) => QueueLive(r)'
        /\ MutexHeld(r) => MutexHeld(r)'
        /\ QueueOrdered(r) => QueueOrdered(r)'
    BY <2>1, <2>2, QueueFrame
  <2>. QED
    BY <2>2, <2>3 DEF QueuesInv, QueuesTyped
<1>4. \A t \in Procs : CallTyped(t)'
  <2>. SUFFICES ASSUME NEW t \in Procs, t # p PROVE CallTyped(t)'
    OBVIOUS
  <2>1. doing'[t] = doing[t] /\ CallTyped(t)
    BY <1>1 DEF QueuesInv, QueuesTyped
  <2>. QED
    BY <2>1 DEF CallTyped
<1>5. QueuesTyped'
  <2>1. \A r \in Queues : QueueTyped(r)'
    BY <1>3
  <2>. QED
    BY <1>4, <2>1 DEF QueuesTyped, StepOn
<1>. QED
  BY <1>2, <1>3, <1>5 DEF QueuesInv

\* Only the queue's mutex, if it has one, is touched.
MutexOnly(q) ==
  /\ semaph' \in [Semaphores -> Sems]
  /\ \A s \in Semaphores : s # Q[q].mutex => semaph'[s] = semaph[s]
  /\ Q[q].mutex # SYSERR => semaph'[Q[q].mutex].used

\* A queue's mutex is one that screate() gave.
LEMMA MutexSem ==
  ASSUME TasksTyped, SemsOwned, QueuesInv, NEW q \in Queues, Q[q].mutex # SYSERR
  PROVE  /\ Q[q].mutex \in Semaphores /\ Q[q].mutex \in Mutexes /\ Known(Q[q].mutex)
         /\ semaph \in [Semaphores -> Sems] /\ semaph[Q[q].mutex] \in Sems
         /\ semaph[Q[q].mutex].used /\ semaph[Q[q].mutex].semcnt \in Int
         /\ QueueFits(semaph[Q[q].mutex], Past({"enqPlaces", "deqShifts"}, q))
         /\ semaph[Q[q].mutex].semcnt = 1 - Cardinality(Holding(q))
         /\ ~NoWait(q)
<1>1. Q[q].mutex \in Mutexes
  BY DEF Mutexes
<1>2. Q[q].mutex \in Semaphores /\ semaph[Q[q].mutex].used
  BY <1>1 DEF SemsOwned
<1>3. semaph \in [Semaphores -> Sems] /\ semaph[Q[q].mutex] \in Sems
  BY <1>2 DEF TasksTyped, Sems
<1>4. semaph[Q[q].mutex].semcnt \in Int
  BY <1>3 DEF Sems
<1>5. MutexHeld(q) /\ QueueTyped(q)
  BY DEF QueuesInv, QueuesTyped
<1>. QED
  BY <1>1, <1>2, <1>3, <1>4, <1>5 DEF MutexHeld, QueueTyped, Known

\* A step that touches no mutex but the queue's leaves everything else with its owner.
LEMMA MutexOwners ==
  ASSUME TasksTyped, SemsOwned, QueuesInv, NEW p \in Procs, NEW q \in Queues, NEW cont,
         StepOn(p, q, cont), Q'[q].mutex = Q[q].mutex, MutexOnly(q)
  PROVE  SemsOwned' /\ OthersMutexes(q) /\ Local(QueueCalls, Mutexes \cup Mutexes')
<1>1. \A r \in Queues : Q'[r].mutex = Q[r].mutex
  BY DEF StepOn
<1>2. /\ bptab' = bptab
      /\ doing'[p] = cont /\ \A t \in Procs \ {p} : doing'[t] = doing[t]
  BY GoesFrom DEF StepOn, pools
<1>3. \A s \in Semaphores : semaph'[s] = semaph[s] \/ (semaph[s].used /\ semaph'[s].used /\ s \in Mutexes)
  <2>1. Q[q].mutex # SYSERR => semaph[Q[q].mutex].used /\ Q[q].mutex \in Mutexes
    BY MutexSem
  <2>. QED
    BY <2>1, Drivers DEF MutexOnly
<1>4. SemsOwned'
  BY <1>1, <1>2, <1>3, OwnersKept
<1>5. OthersMutexes(q)
  <2>. SUFFICES ASSUME NEW r \in Queues, r # q, Q[r].mutex # SYSERR
                PROVE  semaph'[Q[r].mutex] = semaph[Q[r].mutex]
    BY DEF OthersMutexes
  <2>1. Q[r].mutex \in Semaphores
    BY MutexSem
  <2>2. Q[r].mutex # Q[q].mutex
    BY DEF SemsOwned
  <2>. QED
    BY <2>1, <2>2 DEF MutexOnly
<1>6. Local(QueueCalls, Mutexes \cup Mutexes')
  BY <1>2, <1>3 DEF Local, StepOn
<1>. QED
  BY <1>4, <1>5, <1>6

\* The mutex lets in one: two in their turn are one.
LEMMA Alone ==
  ASSUME TasksTyped, SemsOwned, QueuesInv, NEW q \in Queues, Q[q].mutex # SYSERR,
         NEW p \in Holding(q), p \notin Row(semaph[Q[q].mutex]),
         NEW r \in Holding(q), r \notin Row(semaph[Q[q].mutex])
  PROVE  p = r
<1>. DEFINE s == semaph[Q[q].mutex]
            H == Holding(q)
            n == Cardinality(H)
            m == Len(s.queue)
            k == s.semcnt
            U == H \ Row(s)
            u == Cardinality(U)
<1>1. s \in Sems /\ k \in Int /\ QueueFits(s, Past({"enqPlaces", "deqShifts"}, q)) /\ k = 1 - n
  BY MutexSem
<1>2. H \in SUBSET Procs /\ Past({"enqPlaces", "deqShifts"}, q) \subseteq H
  BY DEF Holding, Past
<1>3. n \in Nat
  BY <1>2, SomeProcs
<1>4. u = n - m /\ m \in Nat /\ m = (IF k < 0 THEN -k ELSE 0)
  <2>1. \A i \in 1..m : s.queue[i] \in Past({"enqPlaces", "deqShifts"}, q)
    BY <1>1 DEF QueueFits
  <2>2. QueueFits(s, H)
    BY <1>1, <1>2, <2>1 DEF QueueFits
  <2>. HIDE DEF s, H
  <2>. QED
    BY <1>1, <1>2, <2>2, RowCounted
<1>5. u <= 1
  <2>. HIDE DEF n, m, k, u
  <2>. QED
    BY <1>1, <1>3, <1>4
<1>6. U \in SUBSET Procs /\ IsFiniteSet(U) /\ u \in Nat
  BY <1>2, SomeProcs
<1>7. p \in U /\ r \in U
  OBVIOUS
<1>8. ASSUME p # r PROVE FALSE
  <2>. DEFINE V == U \ {p}
  <2>1. IsFiniteSet(V) /\ Cardinality(V) = u - 1 /\ r \in V
    BY <1>6, <1>7, <1>8, FS_RemoveElement
  <2>2. Cardinality(V) # 0
    BY <2>1, FS_EmptySet
  <2>3. Cardinality(V) \in Nat
    BY <2>1, FS_CardinalityType
  <2>. HIDE DEF V, u
  <2>. QED
    BY <1>5, <1>6, <2>1, <2>2, <2>3
<1>. QED
  BY <1>8

\* Who holds the mutex, or waits for it, after a step.
LEMMA HoldingMoves ==
  ASSUME TasksTyped, NEW p \in Procs, NEW q, NEW cont, StepOn(p, q, cont)
  PROVE  LET W == Past({"enqPlaces", "deqShifts"}, q)
             H == Past({"enqPlaces", "enqCounts", "deqShifts", "deqCounts"}, q) IN
         /\ W' = IF cont.call \in {"enqPlaces", "deqShifts"} THEN W \cup {p} ELSE W \ {p}
         /\ p \in W <=> doing[p].call \in {"enqPlaces", "deqShifts"}
         /\ H' = IF cont.call \in {"enqPlaces", "enqCounts", "deqShifts", "deqCounts"}
                 THEN H \cup {p} ELSE H \ {p}
         /\ p \in H <=> doing[p].call \in {"enqPlaces", "enqCounts", "deqShifts", "deqCounts"}
         /\ W \subseteq Procs /\ H \subseteq Procs
<1>1. \A calls \in SUBSET QueueCalls :
        /\ Past(calls, q)' = IF cont.call \in calls THEN Past(calls, q) \cup {p}
                                                    ELSE Past(calls, q) \ {p}
        /\ p \in Past(calls, q) <=> doing[p].call \in calls
        /\ Past(calls, q) \subseteq Procs
  BY PastMoves
<1>2. PICK wait1 \in SUBSET QueueCalls : wait1 = {"enqPlaces", "deqShifts"}
  BY DEF QueueCalls, Enqueuing, Dequeuing
<1>3. PICK hold1 \in SUBSET QueueCalls : hold1 = {"enqPlaces", "enqCounts", "deqShifts", "deqCounts"}
  BY DEF QueueCalls, Enqueuing, Dequeuing
<1>4. /\ Past(wait1, q)' = IF cont.call \in wait1 THEN Past(wait1, q) \cup {p} ELSE Past(wait1, q) \ {p}
      /\ p \in Past(wait1, q) <=> doing[p].call \in wait1
      /\ Past(hold1, q)' = IF cont.call \in hold1 THEN Past(hold1, q) \cup {p} ELSE Past(hold1, q) \ {p}
      /\ p \in Past(hold1, q) <=> doing[p].call \in hold1
      /\ Past(wait1, q) \subseteq Procs /\ Past(hold1, q) \subseteq Procs
  BY <1>1
<1>. QED
  BY <1>2, <1>3, <1>4

\* A step that leaves the mutex alone, and who holds it or waits for it.
LEMMA MutexAlone ==
  ASSUME TasksTyped, SemsOwned, QueuesInv, NEW p \in Procs, NEW q \in Queues, NEW cont,
         StepOn(p, q, cont), Q'[q].mutex = Q[q].mutex, UNCHANGED semaph,
         \/ Q[q].mutex = SYSERR
         \/ /\ doing[p].call \notin {"enqPlaces", "enqCounts", "deqShifts", "deqCounts"}
            /\ cont.call \notin {"enqPlaces", "enqCounts", "deqShifts", "deqCounts"}
         \/ /\ doing[p].call \in {"enqPlaces", "deqShifts"} /\ cont.call \in {"enqCounts", "deqCounts"}
            /\ \A s \in Semaphores : p \notin Row(semaph[s])
  PROVE  MutexHeld(q)' /\ MutexOnly(q)
<1>1. MutexOnly(q)
  <2>1. semaph \in [Semaphores -> Sems]
    BY DEF TasksTyped, Sems
  <2>. QED
    BY <2>1, MutexSem DEF MutexOnly
<1>2. ASSUME Q[q].mutex # SYSERR PROVE MutexHeld(q)'
  <2>. DEFINE W == Past({"enqPlaces", "deqShifts"}, q)
              H == Past({"enqPlaces", "enqCounts", "deqShifts", "deqCounts"}, q)
              s == semaph[Q[q].mutex]
  <2>1. /\ Q[q].mutex \in Semaphores /\ s \in Sems /\ QueueFits(s, W)
        /\ s.semcnt = 1 - Cardinality(H)
    BY <1>2, MutexSem DEF Holding
  <2>3. /\ W' = IF cont.call \in {"enqPlaces", "deqShifts"} THEN W \cup {p} ELSE W \ {p}
        /\ p \in W <=> doing[p].call \in {"enqPlaces", "deqShifts"}
        /\ W \subseteq Procs
    BY HoldingMoves
  <2>4. /\ H' = IF cont.call \in {"enqPlaces", "enqCounts", "deqShifts", "deqCounts"}
                THEN H \cup {p} ELSE H \ {p}
        /\ p \in H <=> doing[p].call \in {"enqPlaces", "enqCounts", "deqShifts", "deqCounts"}
    BY HoldingMoves
  <2>. HIDE DEF W, H
  <2>5. H' = H /\ Row(s) \subseteq W'
    <3>1. Row(s) \subseteq W
      BY <2>1, <2>3, RowCounted
    <3>2. CASE /\ doing[p].call \notin {"enqPlaces", "enqCounts", "deqShifts", "deqCounts"}
               /\ cont.call \notin {"enqPlaces", "enqCounts", "deqShifts", "deqCounts"}
      BY <2>3, <2>4, <3>1, <3>2
    <3>3. CASE /\ doing[p].call \in {"enqPlaces", "deqShifts"} /\ cont.call \in {"enqCounts", "deqCounts"}
               /\ \A t \in Semaphores : p \notin Row(semaph[t])
      BY <2>1, <2>3, <2>4, <3>1, <3>3
    <3>. QED
      BY <1>2, <3>2, <3>3
  <2>6. QueueFits(s, W')
    <3>. HIDE DEF s
    <3>. QED
      BY <2>1, <2>5, OthersFit
  <2>7. semaph'[Q'[q].mutex] = s /\ Holding(q)' = H'
    BY DEF Holding, H
  <2>8. QueueFits(semaph'[Q'[q].mutex], W')
    BY <2>6, <2>7
  <2>9. semaph'[Q'[q].mutex].semcnt = 1 - Cardinality(Holding(q)')
    BY <2>1, <2>5, <2>7
  <2>. QED
    BY <2>8, <2>9 DEF MutexHeld, W
<1>3. Q[q].mutex = SYSERR => MutexHeld(q)'
  BY DEF MutexHeld
<1>. QED
  BY <1>1, <1>2, <1>3

\* wait() for the mutex.
LEMMA MutexWaits ==
  ASSUME TasksTyped, SemsOwned, QueuesInv, NEW p \in Procs, NEW q \in Queues, NEW cont,
         StepOn(p, q, cont), Q'[q].mutex = Q[q].mutex, semaph' = wait(p, Q[q].mutex),
         doing[p].call \in {"enq", "deq"}, cont.call \in {"enqPlaces", "deqShifts"},
         \A s \in Semaphores : p \notin Row(semaph[s])
  PROVE  MutexHeld(q)' /\ MutexOnly(q)
<1>. DEFINE W == Past({"enqPlaces", "deqShifts"}, q)
            H == Past({"enqPlaces", "enqCounts", "deqShifts", "deqCounts"}, q)
            s == Q[q].mutex
            U == W \cup {p}
<1>1. CASE Q[q].mutex = SYSERR
  <2>1. semaph' = semaph
    BY <1>1, Drivers DEF wait, Known
  <2>. QED
    BY <1>1, <2>1, MutexAlone
<1>2. CASE Q[q].mutex # SYSERR
  <2>1. /\ s \in Semaphores /\ Known(s) /\ semaph \in [Semaphores -> Sems] /\ semaph[s] \in Sems
        /\ semaph[s].used /\ QueueFits(semaph[s], W)
        /\ semaph[s].semcnt = 1 - Cardinality(H)
    BY <1>2, MutexSem DEF Holding
  <2>3. W' = U /\ p \notin W /\ W \in SUBSET Procs
    <3>1. /\ W' = IF cont.call \in {"enqPlaces", "deqShifts"} THEN W \cup {p} ELSE W \ {p}
          /\ p \in W <=> doing[p].call \in {"enqPlaces", "deqShifts"}
          /\ W \subseteq Procs
      BY HoldingMoves
    <3>. QED
      BY <3>1
  <2>4. H' = H \cup {p} /\ p \notin H /\ H \in SUBSET Procs
    <3>1. /\ H' = IF cont.call \in {"enqPlaces", "enqCounts", "deqShifts", "deqCounts"}
                  THEN H \cup {p} ELSE H \ {p}
          /\ p \in H <=> doing[p].call \in {"enqPlaces", "enqCounts", "deqShifts", "deqCounts"}
          /\ H \subseteq Procs
      BY HoldingMoves
    <3>. QED
      BY <3>1
  <2>5. semaph' = Waited(semaph, p, s)
    BY <2>1 DEF wait
  <2>6. Joined(semaph, semaph', s, p, U)
    <3>1. p \notin Row(semaph[s])
      BY <2>1
    <3>. HIDE DEF W, s
    <3>2. p \in U /\ \A r \in W : r \in U
      OBVIOUS
    <3>. HIDE DEF U
    <3>. QED
      BY <2>1, <2>3, <2>5, <3>1, <3>2, WaitFits
  <2>7. /\ semaph' \in [Semaphores -> Sems] /\ \A t \in Semaphores : t # s => semaph'[t] = semaph[t]
        /\ semaph'[s].used /\ semaph'[s].semcnt = semaph[s].semcnt - 1
        /\ QueueFits(semaph'[s], U)
    BY <2>1, <2>6 DEF Joined
  <2>8. Cardinality(H') = Cardinality(H) + 1 /\ Cardinality(H) \in Nat
    BY <2>4, SomeProcs, FS_AddElement
  <2>9. MutexOnly(q)
    BY <2>7 DEF MutexOnly
  <2>10. semaph'[Q'[q].mutex].semcnt = 1 - Cardinality(H')
    <3>. DEFINE k == semaph[s].semcnt
                kn == semaph'[s].semcnt
                h == Cardinality(H)
                hn == Cardinality(H')
    <3>1. k = 1 - h /\ kn = k - 1 /\ hn = h + 1 /\ h \in Nat
      BY <2>1, <2>7, <2>8
    <3>2. kn = 1 - hn
      <4>. HIDE DEF k, kn, h, hn
      <4>. QED
        BY <3>1
    <3>. QED
      BY <3>2
  <2>11. Holding(q)' = H' /\ QueueFits(semaph'[Q'[q].mutex], W')
    BY <2>3, <2>7 DEF Holding
  <2>. QED
    BY <2>9, <2>10, <2>11 DEF MutexHeld
<1>. QED
  BY <1>1, <1>2

\* signal() of the mutex.
LEMMA MutexSignals ==
  ASSUME TasksTyped, SemsOwned, QueuesInv, NEW p \in Procs, NEW q \in Queues, NEW cont,
         StepOn(p, q, cont), Q'[q].mutex = Q[q].mutex, semaph' = signal(Q[q].mutex),
         doing[p].call \in {"enqCounts", "deqCounts"}, cont.call = "idle"
  PROVE  MutexHeld(q)' /\ MutexOnly(q)
<1>. DEFINE W == Past({"enqPlaces", "deqShifts"}, q)
            H == Past({"enqPlaces", "enqCounts", "deqShifts", "deqCounts"}, q)
            s == Q[q].mutex
<1>1. CASE Q[q].mutex = SYSERR
  <2>1. semaph' = semaph
    BY <1>1, Drivers DEF signal, Known
  <2>. QED
    BY <1>1, <2>1, MutexAlone
<1>2. CASE Q[q].mutex # SYSERR
  <2>1. /\ s \in Semaphores /\ Known(s) /\ semaph \in [Semaphores -> Sems] /\ semaph[s] \in Sems
        /\ semaph[s].used /\ QueueFits(semaph[s], W)
        /\ semaph[s].semcnt = 1 - Cardinality(H)
    BY <1>2, MutexSem DEF Holding
  <2>3. W' = W /\ W \in SUBSET Procs
    <3>1. /\ W' = IF cont.call \in {"enqPlaces", "deqShifts"} THEN W \cup {p} ELSE W \ {p}
          /\ p \in W <=> doing[p].call \in {"enqPlaces", "deqShifts"}
          /\ W \subseteq Procs
      BY HoldingMoves
    <3>. QED
      BY <3>1
  <2>4. H' = H \ {p} /\ p \in H /\ H \in SUBSET Procs
    <3>1. /\ H' = IF cont.call \in {"enqPlaces", "enqCounts", "deqShifts", "deqCounts"}
                  THEN H \cup {p} ELSE H \ {p}
          /\ p \in H <=> doing[p].call \in {"enqPlaces", "enqCounts", "deqShifts", "deqCounts"}
          /\ H \subseteq Procs
      BY HoldingMoves
    <3>. QED
      BY <3>1
  <2>5. semaph' = Signalled(semaph, s)
    BY <2>1 DEF signal
  <2>6. GoneOn(semaph, semaph', s, W)
    <3>. HIDE DEF W, s
    <3>. QED
      BY <2>1, <2>3, <2>5, SignalFits
  <2>7. /\ semaph' \in [Semaphores -> Sems] /\ \A t \in Semaphores : t # s => semaph'[t] = semaph[t]
        /\ semaph'[s].used /\ semaph'[s].semcnt = semaph[s].semcnt + 1
        /\ QueueFits(semaph'[s], W)
    BY <2>1, <2>6 DEF GoneOn
  <2>8. Cardinality(H') = Cardinality(H) - 1 /\ Cardinality(H) \in Nat
    BY <2>4, SomeProcs, FS_RemoveElement
  <2>9. MutexOnly(q)
    BY <2>7 DEF MutexOnly
  <2>10. semaph'[Q'[q].mutex].semcnt = 1 - Cardinality(H')
    <3>. DEFINE k == semaph[s].semcnt
                kn == semaph'[s].semcnt
                h == Cardinality(H)
                hn == Cardinality(H')
    <3>1. k = 1 - h /\ kn = k + 1 /\ hn = h - 1 /\ h \in Nat
      BY <2>1, <2>7, <2>8
    <3>2. kn = 1 - hn
      <4>. HIDE DEF k, kn, h, hn
      <4>. QED
        BY <3>1
    <3>. QED
      BY <3>2
  <2>11. Holding(q)' = H' /\ QueueFits(semaph'[Q'[q].mutex], W')
    BY <2>3, <2>7 DEF Holding
  <2>. QED
    BY <2>9, <2>10, <2>11 DEF MutexHeld
<1>. QED
  BY <1>1, <1>2

\* Who is in which step of enq() and deq() after a step.
LEMMA UseMoves ==
  ASSUME TasksTyped, NEW p \in Procs, NEW q, NEW cont, StepOn(p, q, cont)
  PROVE  /\ Past(Enqueuing, q)' = IF cont.call \in Enqueuing THEN Past(Enqueuing, q) \cup {p}
                                  ELSE Past(Enqueuing, q) \ {p}
         /\ Past(Dequeuing, q)' = IF cont.call \in Dequeuing THEN Past(Dequeuing, q) \cup {p}
                                  ELSE Past(Dequeuing, q) \ {p}
         /\ Past({"enqCounts"}, q)' = IF cont.call = "enqCounts" THEN Past({"enqCounts"}, q) \cup {p}
                                      ELSE Past({"enqCounts"}, q) \ {p}
         /\ Past({"deqCounts"}, q)' = IF cont.call = "deqCounts" THEN Past({"deqCounts"}, q) \cup {p}
                                      ELSE Past({"deqCounts"}, q) \ {p}
         /\ Past({"enq", "enqPlaces"}, q)' =
              IF cont.call \in {"enq", "enqPlaces"} THEN Past({"enq", "enqPlaces"}, q) \cup {p}
              ELSE Past({"enq", "enqPlaces"}, q) \ {p}
         /\ p \in Past(Enqueuing, q) <=> doing[p].call \in Enqueuing
         /\ p \in Past(Dequeuing, q) <=> doing[p].call \in Dequeuing
         /\ p \in Past({"enqCounts"}, q) <=> doing[p].call = "enqCounts"
         /\ p \in Past({"deqCounts"}, q) <=> doing[p].call = "deqCounts"
         /\ p \in Past({"enq", "enqPlaces"}, q) <=> doing[p].call \in {"enq", "enqPlaces"}
<1>1. doing'[p] = cont /\ \A r \in Procs \ {p} : doing'[r] = doing[r]
  BY GoesFrom DEF StepOn
<1>2. /\ cont.call \in Enqueuing \cup Dequeuing => cont.q = q
      /\ doing[p].call \in Enqueuing \cup Dequeuing => doing[p].q = q
  BY DEF StepOn, QueueCalls
<1>. QED
  BY <1>1, <1>2 DEF Past, Enqueuing, Dequeuing

\* enq() and deq() leave a queue in use with its arrays and its mutex.
LEMMA UseStep ==
  ASSUME TasksTyped, QueuesInv, NEW p \in Procs, NEW q \in usable, NEW cont, StepOn(p, q, cont),
         doing[p].call \in Enqueuing \cup Dequeuing \cup {"idle"},
         cont.call \in Enqueuing \cup Dequeuing \cup {"idle"},
         NoWait(q) => cont.call \notin {"enq", "enqCounts", "deq", "deqCounts"},
         Q'[q] = [Q[q] EXCEPT !.list = Q'[q].list, !.count = Q'[q].count],
         UNCHANGED <<arrays, usable, memory>>,
         raced \subseteq raced',
         broken' => broken \/ q \in raced' \/ (~NoWait(q) /\ Q[q].mutex = SYSERR)
  PROVE  QueueTyped(q)' /\ QueueLive(q)' /\ ArraysHeld' /\ BrokenByRaces'
<1>1. /\ q \in Queues /\ QueueTyped(q) /\ QueueLive(q) /\ Q[q].valid
      /\ Making(q) = {} /\ Len(arrays[q]) = 2
  BY DEF QueuesInv, QueuesTyped, QueueLive
<1>2. /\ Q'[q] = [valid |-> Q'[q].valid, type |-> Q'[q].type, max |-> Q'[q].max,
                  count |-> Q'[q].count, mutex |-> Q'[q].mutex, list |-> Q'[q].list]
      /\ Q'[q].valid = Q[q].valid /\ Q'[q].type = Q[q].type /\ Q'[q].max = Q[q].max
      /\ Q'[q].mutex = Q[q].mutex
  BY <1>1 DEF QueueTyped
<1>3. QueueTyped(q)'
  BY <1>1, <1>2 DEF QueueTyped, NoWait
<1>4. \A calls \in SUBSET QueueCalls :
        Past(calls, q)' = IF cont.call \in calls THEN Past(calls, q) \cup {p} ELSE Past(calls, q) \ {p}
  BY PastMoves
<1>5. /\ Making(q)' = {} /\ Past({"newqKeys"}, q)' = {} /\ Past({"freeq"}, q)' = {}
      /\ Past({"newqKeys"}, q) = {} /\ Past({"freeq"}, q) = {}
  <2>1. /\ Past({"newqKeys", "freeq"}, q) = {} /\ Past({"newqKeys"}, q) = {} /\ Past({"freeq"}, q) = {}
    BY <1>1 DEF Making, Past
  <2>2. cont.call \notin {"newqKeys", "freeq"}
    BY DEF Enqueuing, Dequeuing
  <2>3. /\ Past({"newqKeys", "freeq"}, q)' = {} /\ Past({"newqKeys"}, q)' = {} /\ Past({"freeq"}, q)' = {}
    BY <1>4, <2>1, <2>2 DEF QueueCalls
  <2>. QED
    BY <2>1, <2>3 DEF Making
<1>6. NoWait(q)' => Past({"enq", "enqCounts", "deq", "deqCounts"}, q)' = {}
  <2>1. NoWait(q)' = NoWait(q)
    BY <1>2 DEF NoWait
  <2>2. NoWait(q) => Past({"enq", "enqCounts", "deq", "deqCounts"}, q) = {}
    BY <1>1 DEF QueueLive
  <2>3. {"enq", "enqCounts", "deq", "deqCounts"} \subseteq QueueCalls
    BY DEF QueueCalls, Enqueuing, Dequeuing
  <2>. QED
    BY <1>4, <2>1, <2>2, <2>3
<1>7. QueueLive(q)'
  BY <1>1, <1>2, <1>5, <1>6 DEF QueueLive
<1>8. \A r \in Queues : ArraysOf(r)' = ArraysOf(r)
  <2>1. ASSUME NEW r \in Queues, r # q PROVE Past({"freeq"}, r)' = Past({"freeq"}, r)
    <3>1. SameOn(r)
      BY <2>1, OthersOn
    <3>. QED
      BY <3>1, PastKept DEF QueueCalls
  <2>. QED
    BY <1>5, <2>1 DEF ArraysOf
<1>9. ArraysHeld'
  BY <1>8 DEF QueuesInv, ArraysHeld, memory
<1>10. BrokenByRaces'
  <2>1. ASSUME NEW r \in Queues PROVE Past({"newq"}, r)' = Past({"newq"}, r)
    <3>1. CASE r = q
      <4>1. cont.call # "newq" /\ doing[p].call # "newq"
        BY DEF Enqueuing, Dequeuing
      <4>2. doing'[p] = cont /\ \A t \in Procs \ {p} : doing'[t] = doing[t]
        BY GoesFrom DEF StepOn
      <4>. QED
        BY <4>1, <4>2 DEF Past
    <3>2. CASE r # q
      BY <3>2, OthersOn, PastKept DEF QueueCalls
    <3>. QED
      BY <3>1, <3>2
  <2>2. \A r \in Queues : /\ NoWait(r)' = NoWait(r) /\ Q'[r].mutex = Q[r].mutex
                          /\ Q'[r].valid = Q[r].valid
    BY <1>2 DEF StepOn, NoWait
  <2>. QED
    BY <1>1, <2>1, <2>2 DEF QueuesInv, BrokenByRaces
<1>. QED
  BY <1>3, <1>7, <1>9, <1>10

\* A step of enq() or deq().
LEMMA UseKeeps ==
  ASSUME TasksTyped, SemsOwned, QueuesInv, NEW p \in Procs, NEW q \in usable, NEW cont,
         StepOn(p, q, cont),
         doing[p].call \in Enqueuing \cup Dequeuing \cup {"idle"},
         cont.call \in Enqueuing \cup Dequeuing \cup {"idle"},
         NoWait(q) => cont.call \notin {"enq", "enqCounts", "deq", "deqCounts"},
         Q'[q] = [Q[q] EXCEPT !.list = Q'[q].list, !.count = Q'[q].count],
         UNCHANGED <<arrays, usable, memory>>, raced \subseteq raced',
         broken' => broken \/ q \in raced' \/ (~NoWait(q) /\ Q[q].mutex = SYSERR),
         MutexOnly(q), MutexHeld(q)', CallTyped(p)', q \notin raced' => QueueOrdered(q)'
  PROVE  QueuesInv' /\ TasksTyped' /\ SemsOwned' /\ Local(QueueCalls, Mutexes \cup Mutexes')
<1>1. QueueTyped(q)' /\ QueueLive(q)' /\ ArraysHeld' /\ BrokenByRaces'
  BY UseStep
<1>2. q \in Queues /\ Q'[q].mutex = Q[q].mutex
  <2>1. q \in Queues /\ QueueTyped(q)
    BY DEF QueuesInv, QueuesTyped
  <2>. QED
    BY <2>1 DEF QueueTyped
<1>3. SemsOwned' /\ OthersMutexes(q) /\ Local(QueueCalls, Mutexes \cup Mutexes')
  BY <1>2, MutexOwners
<1>4. semaph' \in [Semaphores -> Sems]
  BY DEF MutexOnly
<1>5. QueuesInv' /\ TasksTyped'
  BY <1>1, <1>2, <1>3, <1>4, QueueStep
<1>. QED
  BY <1>3, <1>5

\* enq(): the queue is not full (gpq.c, enq).
LEMMA enqKeeps ==
  ASSUME TasksTyped, SemsOwned, QueuesInv, NEW p \in Procs, NEW q \in usable,
         NEW elt \in Elements, NEW key \in Keys,
         \A i \in DOMAIN arrived[q] : arrived[q][i].elt # elt,
         enq(p, q, elt, key), UNCHANGED memory, UNCHANGED pools
  PROVE  QueuesInv' /\ TasksTyped' /\ SemsOwned' /\ Local(QueueCalls, Mutexes \cup Mutexes')
<1>. DEFINE cont == [call |-> IF NoWait(q) THEN "enqPlaces" ELSE "enq", q |-> q,
                     entry |-> Entry(key, elt)]
<1>1. /\ doing[p].call = "idle" /\ Goes(p, cont) /\ UNCHANGED <<semaph, Q, arrays, broken, usable, arrived>>
      /\ raced' = IF Past(Enqueuing, q) = {} THEN raced ELSE raced \cup {q}
      /\ Q[q].valid /\ Q[q].count < Q[q].max
  BY CallsIdle DEF enq
<1>2. /\ q \in Queues /\ QueueTyped(q) /\ (q \notin raced => QueueOrdered(q))
      /\ Q = [r \in Queues |-> Q[r]] /\ arrays = [r \in Queues |-> arrays[r]]
      /\ arrived = [r \in Queues |-> arrived[r]]
      /\ usable \subseteq Queues /\ raced \subseteq Queues /\ broken \in BOOLEAN
  BY DEF QueuesInv, QueuesTyped
<1>3. /\ cont.call = (IF NoWait(q) THEN "enqPlaces" ELSE "enq")
      /\ cont.q = q /\ cont.entry = Entry(key, elt)
      /\ cont = [call |-> cont.call, q |-> cont.q, entry |-> cont.entry]
      /\ cont.entry \in [key : Keys, elt : Elements] /\ cont.entry.elt = elt
  BY DEF Entry
<1>. HIDE DEF cont
<1>4. StepOn(p, q, cont)
  <2>1. cont.call \in QueueCalls /\ cont.q = q
    BY <1>3 DEF QueueCalls, Enqueuing
  <2>2. doing[p].call \notin QueueCalls
    BY <1>1 DEF QueueCalls, Enqueuing, Dequeuing
  <2>3. raced' \subseteq Queues /\ \A r \in Queues \ {q} : r \in raced' <=> r \in raced
    BY <1>1, <1>2
  <2>. QED
    BY <1>1, <1>2, <2>1, <2>2, <2>3 DEF StepOn
<1>5. MutexHeld(q)' /\ MutexOnly(q)
  <2>1. CASE NoWait(q)
    <3>1. Q[q].mutex = SYSERR
      BY <1>2, <2>1 DEF QueueTyped
    <3>. QED
      BY <1>1, <1>2, <1>4, <3>1, MutexAlone
  <2>2. CASE ~NoWait(q)
    <3>1. cont.call = "enq"
      BY <1>3, <2>2
    <3>. QED
      BY <1>1, <1>2, <1>4, <3>1, MutexAlone
  <2>. QED
    BY <2>1, <2>2
<1>6. CallTyped(p)'
  <2>1. doing'[p] = cont
    BY <1>1, GoesFrom
  <2>. QED
    BY <1>2, <1>3, <2>1 DEF CallTyped, Enqueuing, Dequeuing
<1>7. ASSUME q \notin raced' PROVE QueueOrdered(q)'
  <2>1. QueueOrdered(q) /\ Past(Enqueuing, q) = {}
    BY <1>1, <1>2, <1>7
  <2>2. Past({"enqCounts"}, q) = {} /\ Past({"enq", "enqPlaces"}, q) = {}
    BY <2>1 DEF Past, Enqueuing
  <2>3. cont.call \in Enqueuing /\ cont.call \in {"enq", "enqPlaces"} /\ cont.call \notin Dequeuing
        /\ cont.call \notin {"enqCounts", "deqCounts"}
    BY <1>3 DEF Enqueuing, Dequeuing
  <2>4. doing[p].call \notin Enqueuing \cup Dequeuing \cup {"enqCounts", "deqCounts"}
    BY <1>1 DEF Enqueuing, Dequeuing
  <2>5. /\ Past(Enqueuing, q)' = {p} /\ Past(Dequeuing, q)' = Past(Dequeuing, q)
        /\ Past({"enqCounts"}, q)' = {} /\ Past({"deqCounts"}, q)' = Past({"deqCounts"}, q)
        /\ Past({"enq", "enqPlaces"}, q)' = {p}
    <3>. DEFINE E == Past(Enqueuing, q)
                D == Past(Dequeuing, q)
                EC == Past({"enqCounts"}, q)
                DC == Past({"deqCounts"}, q)
                EP == Past({"enq", "enqPlaces"}, q)
    <3>1. /\ E' = IF cont.call \in Enqueuing THEN E \cup {p} ELSE E \ {p}
          /\ D' = IF cont.call \in Dequeuing THEN D \cup {p} ELSE D \ {p}
          /\ EC' = IF cont.call = "enqCounts" THEN EC \cup {p} ELSE EC \ {p}
          /\ DC' = IF cont.call = "deqCounts" THEN DC \cup {p} ELSE DC \ {p}
          /\ EP' = IF cont.call \in {"enq", "enqPlaces"} THEN EP \cup {p} ELSE EP \ {p}
          /\ p \in D <=> doing[p].call \in Dequeuing
          /\ p \in DC <=> doing[p].call = "deqCounts"
      BY <1>4, UseMoves
    <3>2. E = {} /\ EC = {} /\ EP = {}
      BY <2>1, <2>2
    <3>. HIDE DEF E, D, EC, DC, EP
    <3>3. E' = {p} /\ D' = D /\ EC' = {} /\ DC' = DC /\ EP' = {p}
      BY <2>3, <2>4, <3>1, <3>2
    <3>. QED
      BY <3>3 DEF E, D, EC, DC, EP
  <2>6. doing'[p].entry.elt = elt
    BY <1>1, <1>3, GoesFrom
  <2>7. Q' = Q /\ arrived' = arrived /\ NoWait(q)' = NoWait(q)
    BY <1>1 DEF NoWait
  <2>8. arrived[q] \in Seq(Entries) => DOMAIN arrived[q] = 1..Len(arrived[q])
    OBVIOUS
  <2>. QED
    BY <1>1, <2>1, <2>2, <2>5, <2>6, <2>7, <2>8 DEF QueueOrdered
<1>8. Q'[q] = [Q[q] EXCEPT !.list = Q'[q].list, !.count = Q'[q].count]
  BY <1>1, <1>2 DEF QueueTyped
<1>9. cont.call \in Enqueuing /\ (NoWait(q) => cont.call \notin {"enq", "enqCounts", "deq", "deqCounts"})
  BY <1>3 DEF Enqueuing
<1>10. raced \subseteq raced' /\ (broken' => broken) /\ UNCHANGED <<arrays, usable, memory>>
  BY <1>1
<1>. QED
  BY <1>1, <1>4, <1>5, <1>6, <1>7, <1>8, <1>9, <1>10, UseKeeps

\* A wait for the queue's mutex (gpq.c, enq and deq).
LEMMA useWaits ==
  ASSUME TasksTyped, SemsOwned, QueuesInv, NEW p \in Procs, enqWaits(p) \/ deqWaits(p),
         UNCHANGED memory, UNCHANGED pools
  PROVE  QueuesInv' /\ TasksTyped' /\ SemsOwned' /\ Local(QueueCalls, Mutexes \cup Mutexes')
<1>0. PICK q : q = doing[p].q
  OBVIOUS
<1>1. PICK now \in {"enq", "deq"}, next \in {"enqPlaces", "deqShifts"} :
        /\ now = (IF next = "enqPlaces" THEN "enq" ELSE "deq")
        /\ At(p, now) /\ semaph' = wait(p, Q[q].mutex)
        /\ Goes(p, [doing[p] EXCEPT !.call = next])
        /\ UNCHANGED <<Q, arrays, broken, usable, arrived, raced>>
  <2>1. CASE enqWaits(p)
    BY <1>0, <2>1 DEF enqWaits, queues
  <2>2. CASE deqWaits(p)
    BY <1>0, <2>2 DEF deqWaits, queues
  <2>. QED
    BY <2>1, <2>2
<1>2. doing[p].call = now /\ \A s \in Semaphores : p \notin Row(semaph[s])
  BY <1>1, AtStep
<1>3. CallTyped(p) /\ now \in {"enq", "deq"}
  BY <1>1 DEF QueuesInv, QueuesTyped
<1>4. /\ q \in Queues /\ QueueTyped(q) /\ (q \notin raced => QueueOrdered(q)) /\ QueueLive(q)
      /\ Q = [r \in Queues |-> Q[r]] /\ arrays = [r \in Queues |-> arrays[r]]
      /\ arrived = [r \in Queues |-> arrived[r]]
      /\ usable \subseteq Queues /\ raced \subseteq Queues /\ broken \in BOOLEAN
  BY <1>0, <1>2, <1>3 DEF QueuesInv, QueuesTyped, CallTyped, QueueCalls, Enqueuing, Dequeuing
<1>5. p \in Past({"enq", "enqCounts", "deq", "deqCounts"}, q) /\ p \in Past(Enqueuing \cup Dequeuing, q)
  BY <1>0, <1>2, <1>3 DEF Past, Enqueuing, Dequeuing
<1>6. q \in usable /\ ~NoWait(q)
  BY <1>4, <1>5 DEF QueueLive, InUse
<1>7. PICK cont : cont = [doing[p] EXCEPT !.call = next]
  OBVIOUS
<1>8. /\ now = "enq" => next = "enqPlaces" /\ cont = [call |-> next, q |-> q, entry |-> doing[p].entry]
                        /\ doing[p].entry \in [key : Keys, elt : Elements]
      /\ now = "deq" => next = "deqShifts" /\ cont = [call |-> next, q |-> q]
  BY <1>0, <1>1, <1>2, <1>3, <1>7 DEF CallTyped, Enqueuing, Dequeuing
<1>9. cont.call = next /\ cont.q = q /\ (now = "enq" => cont.entry = doing[p].entry)
  BY <1>3, <1>8
<1>10. StepOn(p, q, cont)
  BY <1>0, <1>1, <1>2, <1>3, <1>4, <1>7, <1>9 DEF StepOn, QueueCalls, Enqueuing, Dequeuing
<1>11. MutexHeld(q)' /\ MutexOnly(q)
  BY <1>1, <1>2, <1>3, <1>4, <1>9, <1>10, MutexWaits
<1>12. doing'[p] = cont
  BY <1>1, <1>7, GoesFrom
<1>13. CallTyped(p)'
  <2>1. CASE now = "enq"
    BY <1>4, <1>8, <1>9, <1>12, <2>1 DEF CallTyped, Enqueuing, Dequeuing
  <2>2. CASE now = "deq"
    BY <1>4, <1>8, <1>9, <1>12, <2>2 DEF CallTyped, Enqueuing, Dequeuing
  <2>. QED
    BY <1>3, <2>1, <2>2
<1>14. ASSUME q \notin raced' PROVE QueueOrdered(q)'
  <2>1. QueueOrdered(q)
    BY <1>1, <1>4, <1>14
  <2>2. /\ cont.call \in Enqueuing <=> doing[p].call \in Enqueuing
        /\ cont.call \in Dequeuing <=> doing[p].call \in Dequeuing
        /\ cont.call \in {"enq", "enqPlaces"} <=> doing[p].call \in {"enq", "enqPlaces"}
        /\ cont.call \notin {"enqCounts", "deqCounts"} /\ doing[p].call \notin {"enqCounts", "deqCounts"}
    BY <1>1, <1>2, <1>9 DEF Enqueuing, Dequeuing
  <2>3. /\ Past(Enqueuing, q)' = Past(Enqueuing, q) /\ Past(Dequeuing, q)' = Past(Dequeuing, q)
        /\ Past({"enqCounts"}, q)' = Past({"enqCounts"}, q)
        /\ Past({"deqCounts"}, q)' = Past({"deqCounts"}, q)
        /\ Past({"enq", "enqPlaces"}, q)' = Past({"enq", "enqPlaces"}, q)
        /\ p \in Past({"enq", "enqPlaces"}, q) <=> doing[p].call \in {"enq", "enqPlaces"}
    <3>. DEFINE E == Past(Enqueuing, q)
                D == Past(Dequeuing, q)
                EC == Past({"enqCounts"}, q)
                DC == Past({"deqCounts"}, q)
                EP == Past({"enq", "enqPlaces"}, q)
    <3>1. /\ E' = IF cont.call \in Enqueuing THEN E \cup {p} ELSE E \ {p}
          /\ D' = IF cont.call \in Dequeuing THEN D \cup {p} ELSE D \ {p}
          /\ EC' = IF cont.call = "enqCounts" THEN EC \cup {p} ELSE EC \ {p}
          /\ DC' = IF cont.call = "deqCounts" THEN DC \cup {p} ELSE DC \ {p}
          /\ EP' = IF cont.call \in {"enq", "enqPlaces"} THEN EP \cup {p} ELSE EP \ {p}
      BY <1>10, UseMoves
    <3>2. /\ p \in E <=> doing[p].call \in Enqueuing
          /\ p \in D <=> doing[p].call \in Dequeuing
          /\ p \in EC <=> doing[p].call = "enqCounts"
          /\ p \in DC <=> doing[p].call = "deqCounts"
          /\ p \in EP <=> doing[p].call \in {"enq", "enqPlaces"}
      BY <1>10, UseMoves
    <3>. HIDE DEF E, D, EC, DC, EP
    <3>3. E' = E /\ D' = D /\ EC' = EC /\ DC' = DC /\ EP' = EP
      BY <2>2, <3>1, <3>2
    <3>. QED
      BY <3>2, <3>3 DEF E, D, EC, DC, EP
  <2>4. \A r \in Past({"enq", "enqPlaces"}, q) : doing'[r].entry.elt = doing[r].entry.elt
    <3>1. \A r \in Procs \ {p} : doing'[r] = doing[r]
      BY <1>1, GoesFrom
    <3>2. doing[p].call \in {"enq", "enqPlaces"} => doing'[p].entry = doing[p].entry
      BY <1>2, <1>3, <1>9, <1>12
    <3>. QED
      BY <2>3, <3>1, <3>2 DEF Past
  <2>5. Q' = Q /\ arrived' = arrived /\ NoWait(q)' = NoWait(q)
    BY <1>1 DEF NoWait
  <2>. QED
    BY <2>1, <2>3, <2>4, <2>5 DEF QueueOrdered
<1>15. Q'[q] = [Q[q] EXCEPT !.list = Q'[q].list, !.count = Q'[q].count]
  BY <1>1, <1>4 DEF QueueTyped
<1>16. /\ doing[p].call \in Enqueuing \cup Dequeuing /\ cont.call \in Enqueuing \cup Dequeuing
       /\ cont.call \notin {"enq", "enqCounts", "deq", "deqCounts"}
  BY <1>2, <1>3, <1>9 DEF Enqueuing, Dequeuing
<1>17. raced \subseteq raced' /\ (broken' => broken) /\ UNCHANGED <<arrays, usable, memory>>
  BY <1>1
<1>. QED
  BY <1>6, <1>10, <1>11, <1>13, <1>14, <1>15, <1>16, <1>17, UseKeeps

\* A queue that somebody works on is in use.
LEMMA InUseNow ==
  ASSUME QueuesInv, NEW p \in Procs, NEW q, q = doing[p].q,
         doing[p].call \in Enqueuing \cup Dequeuing
  PROVE  /\ q \in usable /\ q \in Queues /\ QueueTyped(q) /\ QueueLive(q) /\ Q[q].valid
         /\ q \notin raced => QueueOrdered(q)
         /\ Q = [r \in Queues |-> Q[r]] /\ arrays = [r \in Queues |-> arrays[r]]
         /\ arrived = [r \in Queues |-> arrived[r]]
         /\ usable \subseteq Queues /\ raced \subseteq Queues /\ broken \in BOOLEAN
<1>1. CallTyped(p)
  BY DEF QueuesInv, QueuesTyped
<1>2. q \in Queues
  BY <1>1 DEF CallTyped, QueueCalls
<1>3. InUse(q) /\ QueueLive(q)
  BY <1>2 DEF QueuesInv, InUse, Past
<1>. QED
  BY <1>2, <1>3 DEF QueuesInv, QueuesTyped, QueueLive

\* Whoever is past its wait() for the mutex has it to itself.
LEMMA NobodyCounts ==
  ASSUME TasksTyped, SemsOwned, QueuesInv, NEW p \in Procs, NEW q \in Queues,
         doing[p].call \in {"enqPlaces", "deqShifts"}, doing[p].q = q,
         \A s \in Semaphores : p \notin Row(semaph[s]), NoWait(q) \/ Q[q].mutex # SYSERR
  PROVE  Past({"enqCounts"}, q) = {} /\ Past({"deqCounts"}, q) = {}
<1>1. CASE NoWait(q)
  BY <1>1 DEF QueuesInv, QueueLive, Past
<1>2. CASE Q[q].mutex # SYSERR
  <2>1. /\ Q[q].mutex \in Semaphores /\ semaph[Q[q].mutex] \in Sems
        /\ QueueFits(semaph[Q[q].mutex], Past({"enqPlaces", "deqShifts"}, q))
    BY <1>2, MutexSem
  <2>2. Row(semaph[Q[q].mutex]) \subseteq Past({"enqPlaces", "deqShifts"}, q)
    <3>1. Past({"enqPlaces", "deqShifts"}, q) \in SUBSET Procs
      BY DEF Past
    <3>. QED
      BY <2>1, <3>1, RowCounted
  <2>3. p \in Holding(q) /\ p \notin Row(semaph[Q[q].mutex])
    BY <2>1 DEF Holding, Past
  <2>4. ASSUME NEW r \in Procs, doing[r].call \in {"enqCounts", "deqCounts"}, doing[r].q = q
        PROVE  FALSE
    <3>1. r \in Holding(q) /\ r \notin Row(semaph[Q[q].mutex])
      BY <2>2, <2>4 DEF Holding, Past
    <3>2. p = r
      BY <1>2, <2>3, <3>1, Alone
    <3>. QED
      BY <2>4, <3>2
  <2>. QED
    BY <2>4 DEF Past
<1>. QED
  BY <1>1, <1>2

\* enq() puts its entry in place (gpq.c, enq).
LEMMA enqPlacesKeeps ==
  ASSUME TasksTyped, SemsOwned, QueuesInv, NEW p \in Procs, enqPlaces(p),
         UNCHANGED memory, UNCHANGED pools
  PROVE  QueuesInv' /\ TasksTyped' /\ SemsOwned' /\ Local(QueueCalls, Mutexes \cup Mutexes')
<1>0. PICK q, entry, count : /\ q = doing[p].q /\ entry = doing[p].entry
                             /\ count = Repaired(Q[q].count)
  OBVIOUS
<1>1. doing[p].call = "enqPlaces" /\ \A s \in Semaphores : p \notin Row(semaph[s])
  BY AtStep DEF enqPlaces
<1>2. doing[p].call \in Enqueuing \cup Dequeuing /\ doing[p].call \in Enqueuing
  BY <1>1 DEF Enqueuing
<1>3. /\ q \in usable /\ q \in Queues /\ QueueTyped(q) /\ QueueLive(q) /\ Q[q].valid
      /\ q \notin raced => QueueOrdered(q)
      /\ Q = [r \in Queues |-> Q[r]] /\ arrays = [r \in Queues |-> arrays[r]]
      /\ arrived = [r \in Queues |-> arrived[r]]
      /\ usable \subseteq Queues /\ raced \subseteq Queues /\ broken \in BOOLEAN
  BY <1>0, <1>2, InUseNow
<1>4. /\ doing[p] = [call |-> "enqPlaces", q |-> q, entry |-> entry] /\ entry \in Entries
      /\ CallTyped(p)
  BY <1>0, <1>1, <1>2 DEF QueuesInv, QueuesTyped, CallTyped, Entries
<1>5. UNCHANGED <<semaph, arrays, usable, raced>>
  BY DEF enqPlaces
<1>6. p \in Past(Enqueuing, q) /\ p \in Past({"enq", "enqPlaces"}, q)
  BY <1>0, <1>1, <1>2 DEF Past
<1>7. ASSUME q \notin raced, NoWait(q) \/ Q[q].mutex # SYSERR
      PROVE  /\ QueueOrdered(q) /\ count = Q[q].count /\ count = Len(arrived[q])
             /\ count \in Nat /\ Q[q].max \in Nat /\ count < Q[q].max
             /\ Past({"enqCounts"}, q) = {} /\ Past({"deqCounts"}, q) = {}
  <2>1. Past({"enqCounts"}, q) = {} /\ Past({"deqCounts"}, q) = {}
    BY <1>0, <1>1, <1>3, <1>7, NobodyCounts
  <2>2. QueueOrdered(q)
    BY <1>3, <1>7
  <2>3. Q[q].count \in 0..Q[q].max /\ Q[q].count < Q[q].max /\ Q[q].count = Len(arrived[q])
    BY <1>3, <1>6, <1>7, <2>1, <2>2 DEF QueueOrdered
  <2>4. Q[q].max \in Nat
    BY <1>3, QueuesAssumption DEF QueueTyped
  <2>5. count = Q[q].count
    BY <1>0, <2>3, <2>4 DEF Repaired
  <2>. QED
    BY <2>1, <2>2, <2>3, <2>4, <2>5
<1>8. CASE count >= Q[q].max
  <2>1. broken' = TRUE /\ UNCHANGED <<doing, Q, arrived>>
    BY <1>0, <1>8 DEF enqPlaces
  <2>2. PICK cont : cont = doing[p]
    OBVIOUS
  <2>3. Goes(p, cont)
    BY <2>1, <2>2 DEF Goes, TasksTyped
  <2>4. StepOn(p, q, cont)
    BY <1>0, <1>2, <1>3, <1>5, <2>1, <2>2, <2>3 DEF StepOn, QueueCalls
  <2>5. MutexOnly(q)
    BY <1>3, <1>5, MutexSem DEF MutexOnly, TasksTyped, Sems
  <2>6. MutexHeld(q)' /\ CallTyped(p)' /\ (q \notin raced' => QueueOrdered(q)')
    <3>1. SameOn(q)
      BY <2>1 DEF SameOn
    <3>2. MutexHeld(q)
      BY <1>3 DEF QueuesInv
    <3>3. (MutexHeld(q) => MutexHeld(q)') /\ (QueueOrdered(q) => QueueOrdered(q)')
      BY <1>3, <1>5, <2>1, <3>1, QueueFrame
    <3>4. CallTyped(p)'
      BY <1>4, <2>1 DEF CallTyped
    <3>. QED
      BY <1>3, <1>5, <3>2, <3>3, <3>4
  <2>7. q \in raced' \/ (~NoWait(q) /\ Q[q].mutex = SYSERR)
    <3>1. ~(count < Q[q].max) \/ count \notin Nat \/ Q[q].max \notin Nat
      BY <1>8
    <3>. QED
      BY <1>5, <1>7, <3>1
  <2>8. Q'[q] = [Q[q] EXCEPT !.list = Q'[q].list, !.count = Q'[q].count]
    BY <1>3, <2>1 DEF QueueTyped
  <2>9. /\ doing[p].call \in Enqueuing \cup Dequeuing /\ cont.call \in Enqueuing \cup Dequeuing
        /\ cont.call \notin {"enq", "enqCounts", "deq", "deqCounts"}
    BY <1>1, <1>2, <2>2
  <2>10. raced \subseteq raced' /\ UNCHANGED <<arrays, usable, memory>>
    BY <1>5
  <2>. QED
    BY <1>3, <2>4, <2>5, <2>6, <2>7, <2>8, <2>9, <2>10, UseKeeps
<1>9. CASE ~(count >= Q[q].max)
  <2>1. PICK cont : cont = IF NoWait(q) THEN Idle ELSE [doing[p] EXCEPT !.call = "enqCounts"]
    OBVIOUS
  <2>2. /\ Q' = [Q EXCEPT ![q].list = Placed(@, count, entry),
                          ![q].count = IF NoWait(q) THEN count + 1 ELSE count]
        /\ arrived' = [arrived EXCEPT ![q] = Append(@, entry)]
        /\ Goes(p, cont) /\ broken' = broken
    BY <1>0, <1>9, <2>1 DEF enqPlaces, Returns
  <2>3. /\ Q'[q] = [Q[q] EXCEPT !.list = Placed(Q[q].list, count, entry),
                                !.count = IF NoWait(q) THEN count + 1 ELSE count]
        /\ arrived'[q] = Append(arrived[q], entry)
        /\ \A r \in Queues \ {q} : Q'[r] = Q[r] /\ arrived'[r] = arrived[r]
        /\ Q' = [r \in Queues |-> Q'[r]] /\ arrived' = [r \in Queues |-> arrived'[r]]
    BY <1>3, <2>2
  <2>4. /\ Q'[q].list = Placed(Q[q].list, count, entry)
        /\ Q'[q].count = IF NoWait(q) THEN count + 1 ELSE count
        /\ Q'[q] = [Q[q] EXCEPT !.list = Q'[q].list, !.count = Q'[q].count]
        /\ Q'[q].mutex = Q[q].mutex /\ Q'[q].max = Q[q].max /\ Q'[q].type = Q[q].type
        /\ Q'[q].valid = Q[q].valid
    BY SMTT(30), ZenonT(30), <1>3, <2>3 DEF QueueTyped
  <2>5. /\ cont.call = (IF NoWait(q) THEN "idle" ELSE "enqCounts")
        /\ ~NoWait(q) => cont = [call |-> "enqCounts", q |-> q, entry |-> entry]
    BY <1>4, <2>1 DEF Idle
  <2>6. ~NoWait(q) => cont.q = q /\ cont.entry = entry
    BY <2>5
  <2>7. StepOn(p, q, cont)
    <3>1. /\ cont.call \in QueueCalls \cup {"idle"} /\ (cont.call \in QueueCalls => cont.q = q)
          /\ doing[p].call \in QueueCalls
      BY <1>2, <2>5, <2>6 DEF QueueCalls, Enqueuing, Dequeuing
    <3>. QED
      BY <1>0, <1>3, <1>5, <2>2, <2>3, <3>1 DEF StepOn
  <2>8. MutexHeld(q)' /\ MutexOnly(q)
    <3>1. CASE NoWait(q)
      <4>1. Q[q].mutex = SYSERR
        BY <1>3, <3>1 DEF QueueTyped
      <4>. QED
        BY <1>3, <1>5, <2>4, <2>7, <4>1, MutexAlone
    <3>2. CASE ~NoWait(q)
      <4>1. cont.call = "enqCounts"
        BY <2>5, <3>2
      <4>. QED
        BY <1>1, <1>3, <1>5, <2>4, <2>7, <4>1, MutexAlone
    <3>. QED
      BY <3>1, <3>2
  <2>9. CallTyped(p)'
    <3>1. doing'[p] = cont
      BY <2>2, GoesFrom
    <3>2. CASE NoWait(q)
      BY <2>5, <3>1, <3>2 DEF CallTyped, QueueCalls, Enqueuing, Dequeuing
    <3>3. CASE ~NoWait(q)
      <4>1. doing'[p] = [call |-> "enqCounts", q |-> q, entry |-> entry]
        BY <2>5, <3>1, <3>3
      <4>2. doing'[p].call = "enqCounts" /\ doing'[p].q = q /\ doing'[p].entry = entry
        BY <4>1
      <4>. QED
        BY <1>3, <1>4, <4>1, <4>2 DEF CallTyped, QueueCalls, Enqueuing, Dequeuing, Entries
    <3>. QED
      BY <3>2, <3>3
  <2>10. ASSUME q \notin raced' PROVE QueueOrdered(q)'
    <3>. DEFINE E == Past(Enqueuing, q)
                D == Past(Dequeuing, q)
                EC == Past({"enqCounts"}, q)
                DC == Past({"deqCounts"}, q)
                EP == Past({"enq", "enqPlaces"}, q)
    <3>1. q \notin raced /\ QueueOrdered(q)
      BY <1>3, <1>5, <2>10
    <3>2. /\ E' = IF cont.call \in Enqueuing THEN E \cup {p} ELSE E \ {p}
          /\ D' = IF cont.call \in Dequeuing THEN D \cup {p} ELSE D \ {p}
          /\ EC' = IF cont.call = "enqCounts" THEN EC \cup {p} ELSE EC \ {p}
          /\ DC' = IF cont.call = "deqCounts" THEN DC \cup {p} ELSE DC \ {p}
          /\ EP' = IF cont.call \in {"enq", "enqPlaces"} THEN EP \cup {p} ELSE EP \ {p}
          /\ p \in D <=> doing[p].call \in Dequeuing
      BY <2>7, UseMoves
    <3>3. E = {p} /\ \A r, t \in D : r = t
      BY <1>6, <3>1 DEF QueueOrdered
    <3>4. EP \subseteq E
      BY DEF Past, Enqueuing
    <3>5. p \notin D
      BY <1>1, <3>2 DEF Dequeuing
    <3>6. cont.call \in Enqueuing <=> ~NoWait(q)
      BY <2>5 DEF Enqueuing
    <3>7. cont.call \notin Dequeuing /\ cont.call # "deqCounts" /\ cont.call \notin {"enq", "enqPlaces"}
      BY <2>5 DEF Dequeuing
    <3>8. /\ E' \subseteq {p} /\ (NoWait(q) => E' = {}) /\ D' = D /\ EP' = {}
          /\ EC' = (IF NoWait(q) THEN EC \ {p} ELSE EC \cup {p}) /\ DC' = DC \ {p}
      <4>. HIDE DEF E, D, EC, DC, EP
      <4>. QED
        BY <2>5, <3>2, <3>3, <3>4, <3>5, <3>6, <3>7
    <3>9. NoWait(q)' = NoWait(q)
      BY <2>4 DEF NoWait
    <3>10. ASSUME NoWait(q) \/ Q[q].mutex # SYSERR
           PROVE  LET n == Len(arrived[q]) IN
                  /\ count = n /\ n \in Nat /\ Q[q].max \in Nat /\ n < Q[q].max
                  /\ EC' = (IF NoWait(q) THEN {} ELSE {p}) /\ DC' = {} /\ (D' # {} => n > 0)
                  /\ arrived'[q] \in Seq(Entries) /\ Len(arrived'[q]) = n + 1
                  /\ Q'[q].list \in Seq(Entries \cup {NOTHING}) /\ Len(Q'[q].list) = Q[q].max
                  /\ \A i, j \in 1..n + 1 : arrived'[q][i].elt = arrived'[q][j].elt => i = j
                  /\ Arranged(Q'[q].list, n + 1, arrived'[q])
      <4>1. PICK n : n = Len(arrived[q])
        OBVIOUS
      <4>2. /\ count = Q[q].count /\ count = n /\ n \in Nat /\ Q[q].max \in Nat /\ n < Q[q].max
            /\ EC = {} /\ DC = {}
        BY <1>7, <3>1, <3>10, <4>1
      <4>3. /\ arrived[q] \in Seq(Entries) /\ Q[q].list \in Seq(Cells) /\ Len(Q[q].list) = Q[q].max
            /\ (D # {} => n > 0)
            /\ \A i, j \in 1..n : arrived[q][i].elt = arrived[q][j].elt => i = j
            /\ \A i \in 1..n : arrived[q][i].elt # entry.elt
            /\ Arranged(Q[q].list, n, arrived[q])
        BY <1>0, <1>3, <1>6, <3>1, <3>10, <4>1, <4>2 DEF QueueOrdered, Cells
      <4>4. /\ Q'[q].list \in Seq(Cells) /\ Len(Q'[q].list) = Len(Q[q].list)
            /\ arrived'[q] \in Seq(Entries) /\ Arranged(Q'[q].list, n + 1, arrived'[q])
        <5>1. PICK list, came, new, came1 :
                /\ list \in Seq(Cells) /\ came \in Seq(Entries)
                /\ list = Q[q].list /\ came = arrived[q] /\ new = Q'[q].list /\ came1 = arrived'[q]
          BY <4>3
        <5>2. n < Len(list) /\ \A k \in 1..n : came[k] # entry
          BY <4>2, <4>3, <5>1
        <5>3. new = Placed(list, n, entry) /\ came1 = Append(came, entry) /\ Arranged(list, n, came)
          BY <2>3, <2>4, <4>2, <4>3, <5>1
        <5>4. /\ new \in Seq(Cells) /\ Len(new) = Len(list)
              /\ came1 \in Seq(Entries) /\ Arranged(new, n + 1, came1)
          BY <1>4, <4>2, <5>1, <5>2, <5>3, PlacedArranged
        <5>. QED
          BY <5>1, <5>4
      <4>5. /\ Len(arrived'[q]) = n + 1 /\ arrived'[q][n + 1] = entry
            /\ \A i \in 1..n : arrived'[q][i] = arrived[q][i]
        BY <1>4, <2>3, <4>1, <4>3, AppendProperties
      <4>6. \A i, j \in 1..n + 1 : arrived'[q][i].elt = arrived'[q][j].elt => i = j
        <5>1. \A i \in 1..n + 1 : i \in 1..n \/ i = n + 1
          BY <4>2
        <5>. HIDE <4>2
        <5>. QED
          BY <4>3, <4>5, <5>1
      <4>7. EC' = (IF NoWait(q) THEN {} ELSE {p}) /\ DC' = {} /\ (D' # {} => n > 0)
        <5>. HIDE DEF E, D, EC, DC, EP
        <5>. QED
          BY <3>8, <4>2, <4>3
      <4>. QED
        BY <4>1, <4>2, <4>3, <4>4, <4>5, <4>6, <4>7 DEF Cells
    <3>11. (\A r, t \in E' : r = t) /\ \A r, t \in D' : r = t
      <4>. HIDE DEF E, D, EC, DC, EP
      <4>. QED
        BY <3>3, <3>8
    <3>12. ASSUME NoWait(q) \/ Q[q].mutex # SYSERR
           PROVE  /\ Q'[q].count \in 0..Q'[q].max
                  /\ EC' # {} => DC' = {}
                  /\ Q'[q].count = IF EC' # {} THEN Len(arrived'[q]) - 1
                                   ELSE IF DC' # {} THEN Len(arrived'[q]) + 1 ELSE Len(arrived'[q])
                  /\ E' # {} => Q'[q].count < Q'[q].max
                  /\ D' # {} => Q'[q].count > 0
      <4>1. PICK n, m, c, x : /\ n = Len(arrived[q]) /\ m = Len(arrived'[q])
                              /\ c = Q'[q].count /\ x = Q'[q].max
        OBVIOUS
      <4>. HIDE DEF E, D, EC, DC, EP
      <4>2. /\ count = n /\ n \in Nat /\ x \in Nat /\ n < x /\ m = n + 1
            /\ EC' = (IF NoWait(q) THEN {} ELSE {p}) /\ DC' = {} /\ (D' # {} => n > 0)
        BY <2>4, <3>10, <3>12, <4>1
      <4>3. CASE NoWait(q)
        <5>1. c = n + 1 /\ EC' = {} /\ E' = {}
          BY <2>4, <3>8, <4>1, <4>2, <4>3
        <5>2. c \in 0..x /\ c = m /\ c > 0
          BY <4>2, <5>1
        <5>. QED
          BY <4>1, <4>2, <5>1, <5>2
      <4>4. CASE ~NoWait(q)
        <5>1. c = n /\ EC' = {p} /\ EC' # {}
          BY <2>4, <3>8, <4>1, <4>2, <4>4
        <5>2. c \in 0..x /\ c = m - 1 /\ c < x
          BY <4>2, <5>1
        <5>. QED
          BY <4>1, <4>2, <5>1, <5>2
      <4>. QED
        BY <4>3, <4>4
    <3>13. \A r \in EP' : FALSE
      BY <3>8
    <3>. QED
      BY <2>4, <3>9, <3>10, <3>11, <3>12, <3>13, Zenon DEF QueueOrdered
  <2>11. /\ doing[p].call \in Enqueuing \cup Dequeuing
         /\ cont.call \in Enqueuing \cup Dequeuing \cup {"idle"}
         /\ NoWait(q) => cont.call \notin {"enq", "enqCounts", "deq", "deqCounts"}
    BY <1>2, <2>5 DEF Enqueuing
  <2>12. raced \subseteq raced' /\ UNCHANGED <<arrays, usable, memory>> /\ (broken' => broken)
    BY <1>5, <2>2
  <2>. QED
    BY <1>3, <2>4, <2>7, <2>8, <2>9, <2>10, <2>11, <2>12, UseKeeps
<1>. QED
  BY <1>8, <1>9

\* enq() counts its entry and gives the mutex back (gpq.c, enq).
LEMMA enqCountsKeeps ==
  ASSUME TasksTyped, SemsOwned, QueuesInv, NEW p \in Procs, enqCounts(p),
         UNCHANGED memory, UNCHANGED pools
  PROVE  QueuesInv' /\ TasksTyped' /\ SemsOwned' /\ Local(QueueCalls, Mutexes \cup Mutexes')
<1>0. PICK q : q = doing[p].q
  OBVIOUS
<1>1. doing[p].call = "enqCounts"
  BY AtStep DEF enqCounts
<1>2. doing[p].call \in Enqueuing \cup Dequeuing /\ doing[p].call \in Enqueuing
  BY <1>1 DEF Enqueuing
<1>3. /\ q \in usable /\ q \in Queues /\ QueueTyped(q) /\ QueueLive(q) /\ Q[q].valid
      /\ q \notin raced => QueueOrdered(q)
      /\ Q = [r \in Queues |-> Q[r]] /\ arrays = [r \in Queues |-> arrays[r]]
      /\ arrived = [r \in Queues |-> arrived[r]]
      /\ usable \subseteq Queues /\ raced \subseteq Queues /\ broken \in BOOLEAN
  BY <1>0, <1>2, InUseNow
<1>4. /\ Q' = [Q EXCEPT ![q].count = @ + 1] /\ broken' = (Q'[q].count > Q[q].max)
      /\ semaph' = signal(Q[q].mutex) /\ Goes(p, Idle)
      /\ UNCHANGED <<arrays, usable, arrived, raced>>
  BY <1>0 DEF enqCounts, Returns
<1>5. p \in Past(Enqueuing, q) /\ p \in Past({"enqCounts"}, q)
  BY <1>0, <1>1, <1>2 DEF Past
<1>6. /\ Q'[q] = [Q[q] EXCEPT !.count = Q[q].count + 1]
      /\ \A r \in Queues \ {q} : Q'[r] = Q[r]
      /\ Q' = [r \in Queues |-> Q'[r]]
  BY <1>3, <1>4
<1>7. /\ Q'[q].list = Q[q].list /\ Q'[q].count = Q[q].count + 1
      /\ Q'[q] = [Q[q] EXCEPT !.list = Q'[q].list, !.count = Q'[q].count]
      /\ Q'[q].mutex = Q[q].mutex /\ Q'[q].max = Q[q].max /\ Q'[q].type = Q[q].type
      /\ Q'[q].valid = Q[q].valid
  BY <1>3, <1>6 DEF QueueTyped
<1>8. PICK cont : cont = Idle /\ cont.call = "idle"
  <2>1. Idle.call = "idle"
    BY DEF Idle
  <2>. QED
    BY <2>1
<1>9. StepOn(p, q, cont)
  <2>1. cont.call \notin QueueCalls /\ doing[p].call \in QueueCalls
    BY <1>2, <1>8 DEF QueueCalls, Enqueuing, Dequeuing
  <2>2. broken' \in BOOLEAN
    BY <1>4
  <2>. QED
    BY <1>0, <1>3, <1>4, <1>6, <1>8, <2>1, <2>2 DEF StepOn
<1>10. MutexHeld(q)' /\ MutexOnly(q)
  BY <1>1, <1>3, <1>4, <1>7, <1>8, <1>9, MutexSignals
<1>11. CallTyped(p)'
  <2>1. doing'[p] = cont
    BY <1>4, <1>8, GoesFrom
  <2>. QED
    BY <1>8, <2>1 DEF CallTyped, QueueCalls, Enqueuing, Dequeuing
<1>12. ASSUME q \notin raced, NoWait(q) \/ Q[q].mutex # SYSERR
       PROVE  LET n == Len(arrived[q]) IN
              /\ Q[q].count \in 0..Q[q].max /\ Q[q].count = n - 1 /\ n \in Nat /\ Q[q].max \in Nat
              /\ Q[q].count < Q[q].max
              /\ Past({"deqCounts"}, q) = {} /\ QueueOrdered(q)
  <2>1. QueueOrdered(q)
    BY <1>3, <1>12
  <2>2. Q[q].max \in Nat
    BY <1>3, QueuesAssumption DEF QueueTyped
  <2>3. arrived[q] \in Seq(Entries)
    BY <1>3, <1>12, <2>1 DEF QueueOrdered
  <2>. QED
    BY <1>3, <1>5, <1>12, <2>1, <2>2, <2>3 DEF QueueOrdered
<1>13. ASSUME q \notin raced' PROVE QueueOrdered(q)'
  <2>. DEFINE E == Past(Enqueuing, q)
              D == Past(Dequeuing, q)
              EC == Past({"enqCounts"}, q)
              DC == Past({"deqCounts"}, q)
              EP == Past({"enq", "enqPlaces"}, q)
  <2>1. q \notin raced /\ QueueOrdered(q)
    BY <1>3, <1>4, <1>13
  <2>2. /\ E' = IF cont.call \in Enqueuing THEN E \cup {p} ELSE E \ {p}
        /\ D' = IF cont.call \in Dequeuing THEN D \cup {p} ELSE D \ {p}
        /\ EC' = IF cont.call = "enqCounts" THEN EC \cup {p} ELSE EC \ {p}
        /\ DC' = IF cont.call = "deqCounts" THEN DC \cup {p} ELSE DC \ {p}
        /\ EP' = IF cont.call \in {"enq", "enqPlaces"} THEN EP \cup {p} ELSE EP \ {p}
        /\ p \in D <=> doing[p].call \in Dequeuing
    BY <1>9, UseMoves
  <2>3. E = {p} /\ EC \subseteq E /\ EP \subseteq E /\ \A r, t \in D : r = t
    <3>1. E = {p} /\ \A r, t \in D : r = t
      BY <1>5, <2>1 DEF QueueOrdered
    <3>. QED
      BY <3>1 DEF Past, Enqueuing
  <2>4. cont.call \notin Enqueuing \cup Dequeuing \cup {"enqCounts", "deqCounts", "enq", "enqPlaces"}
        /\ doing[p].call \notin Dequeuing
    BY <1>1, <1>8 DEF Enqueuing, Dequeuing
  <2>5. E' = {} /\ D' = D /\ EC' = {} /\ DC' = DC \ {p} /\ EP' = {}
    <3>. HIDE DEF E, D, EC, DC, EP
    <3>. QED
      BY <2>2, <2>3, <2>4
  <2>6. NoWait(q)' = NoWait(q)
    BY <1>7 DEF NoWait
  <2>7. ASSUME NoWait(q) \/ Q[q].mutex # SYSERR
        PROVE  LET n == Len(arrived[q]) IN
               /\ Q'[q].count \in 0..Q[q].max /\ Q'[q].count = n /\ Q'[q].count > 0
               /\ DC' = {} /\ arrived[q] \in Seq(Entries)
               /\ Q[q].list \in Seq(Entries \cup {NOTHING}) /\ Len(Q[q].list) = Q[q].max
               /\ \A i, j \in 1..n : arrived[q][i].elt = arrived[q][j].elt => i = j
               /\ Arranged(Q[q].list, n, arrived[q])
    <3>1. PICK n, c, x, cn : n = Len(arrived[q]) /\ c = Q[q].count /\ x = Q[q].max /\ cn = Q'[q].count
      OBVIOUS
    <3>2. c \in 0..x /\ c = n - 1 /\ n \in Nat /\ x \in Nat /\ c < x /\ DC = {} /\ cn = c + 1
      BY <1>7, <1>12, <2>1, <2>7, <3>1
    <3>3. cn \in 0..x /\ cn = n /\ cn > 0
      BY <3>2
    <3>4. DC' = {}
      BY <2>5, <3>2
    <3>5. /\ arrived[q] \in Seq(Entries)
          /\ Q[q].list \in Seq(Entries \cup {NOTHING}) /\ Len(Q[q].list) = Q[q].max
          /\ \A i, j \in 1..n : arrived[q][i].elt = arrived[q][j].elt => i = j
          /\ Arranged(Q[q].list, n, arrived[q])
      BY <1>3, <2>1, <2>7, <3>1 DEF QueueOrdered
    <3>. QED
      BY <3>1, <3>3, <3>4, <3>5
  <2>8. (\A r, t \in E' : r = t) /\ \A r, t \in D' : r = t
    <3>. HIDE DEF E, D
    <3>. QED
      BY <2>3, <2>5
  <2>9. arrived' = arrived
    BY <1>4
  <2>10. \A r \in EP' : FALSE
    BY <2>5
  <2>. QED
    BY <1>7, <2>5, <2>6, <2>7, <2>8, <2>9, <2>10, Zenon DEF QueueOrdered
<1>14. broken' => broken \/ q \in raced' \/ (~NoWait(q) /\ Q[q].mutex = SYSERR)
  <2>. SUFFICES ASSUME q \notin raced, NoWait(q) \/ Q[q].mutex # SYSERR PROVE ~broken'
    BY <1>4
  <2>1. PICK c, x, cn : c = Q[q].count /\ x = Q[q].max /\ cn = Q'[q].count
    OBVIOUS
  <2>2. c \in 0..x /\ x \in Nat /\ c < x /\ cn = c + 1
    BY <1>7, <1>12, <2>1
  <2>3. ~(cn > x)
    BY <2>2
  <2>. QED
    BY <1>4, <2>1, <2>3
<1>15. /\ doing[p].call \in Enqueuing \cup Dequeuing
       /\ cont.call \in Enqueuing \cup Dequeuing \cup {"idle"}
       /\ cont.call \notin {"enq", "enqCounts", "deq", "deqCounts"}
  BY <1>2, <1>8
<1>16. raced \subseteq raced' /\ UNCHANGED <<arrays, usable, memory>>
  BY <1>4
<1>. QED
  BY <1>3, <1>7, <1>9, <1>10, <1>11, <1>13, <1>14, <1>15, <1>16, UseKeeps

\* deq(): the queue is not empty (gpq.c, deq).
LEMMA deqKeeps ==
  ASSUME TasksTyped, SemsOwned, QueuesInv, NEW p \in Procs, NEW q \in usable,
         deq(p, q), UNCHANGED memory, UNCHANGED pools
  PROVE  QueuesInv' /\ TasksTyped' /\ SemsOwned' /\ Local(QueueCalls, Mutexes \cup Mutexes')
<1>. DEFINE cont == [call |-> IF NoWait(q) THEN "deqShifts" ELSE "deq", q |-> q]
<1>1. /\ doing[p].call = "idle" /\ Goes(p, cont) /\ UNCHANGED <<semaph, Q, arrays, broken, usable, arrived>>
      /\ raced' = IF Past(Dequeuing, q) = {} THEN raced ELSE raced \cup {q}
      /\ Q[q].valid /\ Q[q].count > 0
  BY CallsIdle DEF deq
<1>2. /\ q \in Queues /\ QueueTyped(q) /\ (q \notin raced => QueueOrdered(q))
      /\ Q = [r \in Queues |-> Q[r]] /\ arrays = [r \in Queues |-> arrays[r]]
      /\ arrived = [r \in Queues |-> arrived[r]]
      /\ usable \subseteq Queues /\ raced \subseteq Queues /\ broken \in BOOLEAN
  BY DEF QueuesInv, QueuesTyped
<1>3. /\ cont.call = (IF NoWait(q) THEN "deqShifts" ELSE "deq") /\ cont.q = q
      /\ cont = [call |-> cont.call, q |-> cont.q]
  OBVIOUS
<1>. HIDE DEF cont
<1>4. StepOn(p, q, cont)
  <2>1. cont.call \in QueueCalls /\ cont.q = q
    BY <1>3 DEF QueueCalls, Dequeuing
  <2>2. doing[p].call \notin QueueCalls
    BY <1>1 DEF QueueCalls, Enqueuing, Dequeuing
  <2>3. raced' \subseteq Queues /\ \A r \in Queues \ {q} : r \in raced' <=> r \in raced
    BY <1>1, <1>2
  <2>. QED
    BY <1>1, <1>2, <2>1, <2>2, <2>3 DEF StepOn
<1>5. MutexHeld(q)' /\ MutexOnly(q)
  <2>1. CASE NoWait(q)
    <3>1. Q[q].mutex = SYSERR
      BY <1>2, <2>1 DEF QueueTyped
    <3>. QED
      BY <1>1, <1>2, <1>4, <3>1, MutexAlone
  <2>2. CASE ~NoWait(q)
    <3>1. cont.call = "deq"
      BY <1>3, <2>2
    <3>. QED
      BY <1>1, <1>2, <1>4, <3>1, MutexAlone
  <2>. QED
    BY <2>1, <2>2
<1>6. CallTyped(p)'
  <2>1. doing'[p] = cont
    BY <1>1, GoesFrom
  <2>. QED
    BY <1>2, <1>3, <2>1 DEF CallTyped, Enqueuing, Dequeuing
<1>7. ASSUME q \notin raced' PROVE QueueOrdered(q)'
  <2>. DEFINE E == Past(Enqueuing, q)
              D == Past(Dequeuing, q)
              EC == Past({"enqCounts"}, q)
              DC == Past({"deqCounts"}, q)
              EP == Past({"enq", "enqPlaces"}, q)
  <2>1. QueueOrdered(q) /\ D = {}
    BY <1>1, <1>2, <1>7
  <2>2. DC = {}
    BY <2>1 DEF Past, Dequeuing
  <2>3. /\ cont.call \in Dequeuing /\ cont.call \notin Enqueuing \cup {"enq", "enqPlaces"}
        /\ cont.call \notin {"enqCounts", "deqCounts"}
        /\ doing[p].call \notin Enqueuing \cup Dequeuing \cup {"enqCounts", "deqCounts", "enq", "enqPlaces"}
    BY <1>1, <1>3 DEF Enqueuing, Dequeuing
  <2>4. /\ E' = IF cont.call \in Enqueuing THEN E \cup {p} ELSE E \ {p}
        /\ D' = IF cont.call \in Dequeuing THEN D \cup {p} ELSE D \ {p}
        /\ EC' = IF cont.call = "enqCounts" THEN EC \cup {p} ELSE EC \ {p}
        /\ DC' = IF cont.call = "deqCounts" THEN DC \cup {p} ELSE DC \ {p}
        /\ EP' = IF cont.call \in {"enq", "enqPlaces"} THEN EP \cup {p} ELSE EP \ {p}
        /\ p \in E <=> doing[p].call \in Enqueuing
        /\ p \in EC <=> doing[p].call = "enqCounts"
        /\ p \in EP <=> doing[p].call \in {"enq", "enqPlaces"}
    BY <1>4, UseMoves
  <2>5. E' = E /\ D' = {p} /\ EC' = EC /\ DC' = {} /\ EP' = EP /\ p \notin EP
    <3>1. D = {} /\ DC = {}
      BY <2>1, <2>2
    <3>. HIDE DEF E, D, EC, DC, EP
    <3>. QED
      BY <2>3, <2>4, <3>1
  <2>6. \A r \in EP : doing'[r] = doing[r]
    <3>1. \A r \in Procs \ {p} : doing'[r] = doing[r]
      BY <1>1, GoesFrom
    <3>. QED
      BY <2>5, <3>1 DEF Past
  <2>7. Q' = Q /\ arrived' = arrived /\ NoWait(q)' = NoWait(q)
    BY <1>1 DEF NoWait
  <2>. QED
    BY <1>1, <2>1, <2>2, <2>5, <2>6, <2>7 DEF QueueOrdered
<1>8. Q'[q] = [Q[q] EXCEPT !.list = Q'[q].list, !.count = Q'[q].count]
  BY <1>1, <1>2 DEF QueueTyped
<1>9. cont.call \in Dequeuing /\ (NoWait(q) => cont.call \notin {"enq", "enqCounts", "deq", "deqCounts"})
  BY <1>3 DEF Dequeuing
<1>10. raced \subseteq raced' /\ (broken' => broken) /\ UNCHANGED <<arrays, usable, memory>>
  BY <1>1
<1>. QED
  BY <1>1, <1>4, <1>5, <1>6, <1>7, <1>8, <1>9, <1>10, UseKeeps

\* deq() counts its entry out and gives the mutex back (gpq.c, deq).
LEMMA deqCountsKeeps ==
  ASSUME TasksTyped, SemsOwned, QueuesInv, NEW p \in Procs, deqCounts(p),
         UNCHANGED memory, UNCHANGED pools
  PROVE  QueuesInv' /\ TasksTyped' /\ SemsOwned' /\ Local(QueueCalls, Mutexes \cup Mutexes')
<1>0. PICK q : q = doing[p].q
  OBVIOUS
<1>1. doing[p].call = "deqCounts"
  BY AtStep DEF deqCounts
<1>2. doing[p].call \in Enqueuing \cup Dequeuing /\ doing[p].call \in Dequeuing
  BY <1>1 DEF Dequeuing
<1>3. /\ q \in usable /\ q \in Queues /\ QueueTyped(q) /\ QueueLive(q) /\ Q[q].valid
      /\ q \notin raced => QueueOrdered(q)
      /\ Q = [r \in Queues |-> Q[r]] /\ arrays = [r \in Queues |-> arrays[r]]
      /\ arrived = [r \in Queues |-> arrived[r]]
      /\ usable \subseteq Queues /\ raced \subseteq Queues /\ broken \in BOOLEAN
  BY <1>0, <1>2, InUseNow
<1>4. /\ Q' = [Q EXCEPT ![q].count = @ - 1] /\ broken' = broken
      /\ semaph' = signal(Q[q].mutex) /\ Goes(p, Idle)
      /\ UNCHANGED <<arrays, usable, arrived, raced>>
  BY <1>0 DEF deqCounts, Returns
<1>5. p \in Past(Dequeuing, q) /\ p \in Past({"deqCounts"}, q)
  BY <1>0, <1>1, <1>2 DEF Past
<1>6. /\ Q'[q] = [Q[q] EXCEPT !.count = Q[q].count - 1]
      /\ \A r \in Queues \ {q} : Q'[r] = Q[r]
      /\ Q' = [r \in Queues |-> Q'[r]]
  BY <1>3, <1>4
<1>7. /\ Q'[q].list = Q[q].list /\ Q'[q].count = Q[q].count - 1
      /\ Q'[q] = [Q[q] EXCEPT !.list = Q'[q].list, !.count = Q'[q].count]
      /\ Q'[q].mutex = Q[q].mutex /\ Q'[q].max = Q[q].max /\ Q'[q].type = Q[q].type
      /\ Q'[q].valid = Q[q].valid
  BY <1>3, <1>6 DEF QueueTyped
<1>8. PICK cont : cont = Idle /\ cont.call = "idle"
  <2>1. Idle.call = "idle"
    BY DEF Idle
  <2>. QED
    BY <2>1
<1>9. StepOn(p, q, cont)
  <2>1. cont.call \notin QueueCalls /\ doing[p].call \in QueueCalls
    BY <1>2, <1>8 DEF QueueCalls, Enqueuing, Dequeuing
  <2>. QED
    BY <1>0, <1>3, <1>4, <1>6, <1>8, <2>1 DEF StepOn
<1>10. MutexHeld(q)' /\ MutexOnly(q)
  BY <1>1, <1>3, <1>4, <1>7, <1>8, <1>9, MutexSignals
<1>11. CallTyped(p)'
  <2>1. doing'[p] = cont
    BY <1>4, <1>8, GoesFrom
  <2>. QED
    BY <1>8, <2>1 DEF CallTyped, QueueCalls, Enqueuing, Dequeuing
<1>12. ASSUME q \notin raced' PROVE QueueOrdered(q)'
  <2>. DEFINE E == Past(Enqueuing, q)
              D == Past(Dequeuing, q)
              EC == Past({"enqCounts"}, q)
              DC == Past({"deqCounts"}, q)
              EP == Past({"enq", "enqPlaces"}, q)
  <2>1. QueueOrdered(q)
    BY <1>3, <1>4, <1>12
  <2>2. /\ E' = IF cont.call \in Enqueuing THEN E \cup {p} ELSE E \ {p}
        /\ D' = IF cont.call \in Dequeuing THEN D \cup {p} ELSE D \ {p}
        /\ EC' = IF cont.call = "enqCounts" THEN EC \cup {p} ELSE EC \ {p}
        /\ DC' = IF cont.call = "deqCounts" THEN DC \cup {p} ELSE DC \ {p}
        /\ EP' = IF cont.call \in {"enq", "enqPlaces"} THEN EP \cup {p} ELSE EP \ {p}
        /\ p \in E <=> doing[p].call \in Enqueuing
        /\ p \in EC <=> doing[p].call = "enqCounts"
        /\ p \in EP <=> doing[p].call \in {"enq", "enqPlaces"}
    BY <1>9, UseMoves
  <2>3. D = {p} /\ p \in DC /\ DC \subseteq D /\ \A r, t \in E : r = t
    <3>1. D = {p} /\ \A r, t \in E : r = t
      BY <1>5, <2>1 DEF QueueOrdered
    <3>. QED
      BY <1>5, <3>1 DEF Past, Dequeuing
  <2>4. cont.call \notin Enqueuing \cup Dequeuing \cup {"enqCounts", "deqCounts", "enq", "enqPlaces"}
        /\ doing[p].call \notin Enqueuing \cup {"enqCounts", "enq", "enqPlaces"}
    BY <1>1, <1>8 DEF Enqueuing, Dequeuing
  <2>5. E' = E /\ D' = {} /\ EC' = EC /\ DC' = {} /\ DC # {} /\ EP' = EP /\ p \notin EP
    <3>. HIDE DEF E, D, EC, DC, EP
    <3>. QED
      BY <2>2, <2>3, <2>4
  <2>6. NoWait(q)' = NoWait(q) /\ arrived' = arrived
    BY <1>4, <1>7 DEF NoWait
  <2>7. \A r \in EP : doing'[r] = doing[r]
    <3>1. \A r \in Procs \ {p} : doing'[r] = doing[r]
      BY <1>4, GoesFrom
    <3>. QED
      BY <2>5, <3>1 DEF Past
  <2>8. ASSUME NoWait(q) \/ Q[q].mutex # SYSERR
        PROVE  LET n == Len(arrived[q]) IN
               /\ Q'[q].count \in 0..Q[q].max /\ Q'[q].count = n /\ EC = {}
               /\ E # {} => Q'[q].count < Q[q].max
               /\ arrived[q] \in Seq(Entries)
               /\ Q[q].list \in Seq(Entries \cup {NOTHING}) /\ Len(Q[q].list) = Q[q].max
               /\ \A i, j \in 1..n : arrived[q][i].elt = arrived[q][j].elt => i = j
               /\ \A r \in EP : \A i \in 1..n : arrived[q][i].elt # doing[r].entry.elt
               /\ Arranged(Q[q].list, n, arrived[q])
    <3>1. PICK n, c, x, cn : n = Len(arrived[q]) /\ c = Q[q].count /\ x = Q[q].max /\ cn = Q'[q].count
      OBVIOUS
    <3>2. /\ arrived[q] \in Seq(Entries)
          /\ Q[q].list \in Seq(Entries \cup {NOTHING}) /\ Len(Q[q].list) = Q[q].max
          /\ \A i, j \in 1..n : arrived[q][i].elt = arrived[q][j].elt => i = j
          /\ \A r \in EP : \A i \in 1..n : arrived[q][i].elt # doing[r].entry.elt
          /\ Arranged(Q[q].list, n, arrived[q])
          /\ EC # {} => DC = {}
          /\ c \in 0..x /\ (E # {} => c < x) /\ (D # {} => c > 0)
          /\ c = IF EC # {} THEN n - 1 ELSE IF DC # {} THEN n + 1 ELSE n
      BY <1>3, <2>1, <2>8, <3>1 DEF QueueOrdered
    <3>3. x \in Nat
      BY <1>3, <3>1, QueuesAssumption DEF QueueTyped
    <3>4. n \in Nat
      BY <3>1, <3>2
    <3>5. EC = {} /\ c = n + 1 /\ c > 0 /\ cn = c - 1
      BY <1>7, <2>3, <2>5, <3>1, <3>2
    <3>6. cn \in 0..x /\ cn = n /\ (E # {} => cn < x)
      <4>. HIDE DEF E, D, EC, DC, EP
      <4>. QED
        BY <3>2, <3>3, <3>4, <3>5
    <3>. QED
      BY <3>1, <3>2, <3>5, <3>6
  <2>9. (\A r, t \in E' : r = t) /\ \A r, t \in D' : r = t
    <3>. HIDE DEF E, D
    <3>. QED
      BY <2>3, <2>5
  <2>10. ASSUME NoWait(q) \/ Q[q].mutex # SYSERR
         PROVE  LET n == Len(arrived'[q]) IN
                /\ Q'[q].count \in 0..Q'[q].max /\ Q'[q].count = n /\ EC' = {} /\ DC' = {} /\ D' = {}
                /\ E' # {} => Q'[q].count < Q'[q].max
                /\ arrived'[q] \in Seq(Entries)
                /\ Q'[q].list \in Seq(Entries \cup {NOTHING}) /\ Len(Q'[q].list) = Q'[q].max
                /\ \A i, j \in 1..n : arrived'[q][i].elt = arrived'[q][j].elt => i = j
                /\ \A r \in EP' : \A i \in 1..n : arrived'[q][i].elt # doing'[r].entry.elt
                /\ Arranged(Q'[q].list, n, arrived'[q])
    BY <1>7, <2>5, <2>6, <2>7, <2>8, <2>10
  <2>. QED
    BY <1>7, <2>6, <2>9, <2>10, Zenon DEF QueueOrdered
<1>13. /\ doing[p].call \in Enqueuing \cup Dequeuing
       /\ cont.call \in Enqueuing \cup Dequeuing \cup {"idle"}
       /\ cont.call \notin {"enq", "enqCounts", "deq", "deqCounts"}
  BY <1>2, <1>8
<1>14. raced \subseteq raced' /\ UNCHANGED <<arrays, usable, memory>> /\ (broken' => broken)
  BY <1>4
<1>. QED
  BY <1>3, <1>7, <1>9, <1>10, <1>11, <1>12, <1>13, <1>14, UseKeeps

\* deq() takes the first entry and moves the others up (gpq.c, deq).
LEMMA deqShiftsKeeps ==
  ASSUME TasksTyped, SemsOwned, QueuesInv, NEW p \in Procs, deqShifts(p),
         UNCHANGED memory, UNCHANGED pools
  PROVE  QueuesInv' /\ TasksTyped' /\ SemsOwned' /\ Local(QueueCalls, Mutexes \cup Mutexes')
<1>0. PICK q, first : q = doing[p].q /\ first = Q[q].list[1]
  OBVIOUS
<1>1. doing[p].call = "deqShifts" /\ \A s \in Semaphores : p \notin Row(semaph[s])
  BY AtStep DEF deqShifts
<1>2. doing[p].call \in Enqueuing \cup Dequeuing /\ doing[p].call \in Dequeuing
  BY <1>1 DEF Dequeuing
<1>3. /\ q \in usable /\ q \in Queues /\ QueueTyped(q) /\ QueueLive(q) /\ Q[q].valid
      /\ q \notin raced => QueueOrdered(q)
      /\ Q = [r \in Queues |-> Q[r]] /\ arrays = [r \in Queues |-> arrays[r]]
      /\ arrived = [r \in Queues |-> arrived[r]]
      /\ usable \subseteq Queues /\ raced \subseteq Queues /\ broken \in BOOLEAN
  BY <1>0, <1>2, InUseNow
<1>4. doing[p] = [call |-> "deqShifts", q |-> q]
  <2>1. CallTyped(p)
    BY DEF QueuesInv, QueuesTyped
  <2>. QED
    BY <1>0, <1>1, <1>2, <2>1 DEF CallTyped
<1>5. UNCHANGED <<semaph, arrays, usable, raced, broken>>
  BY DEF deqShifts
<1>6. p \in Past(Dequeuing, q)
  BY <1>0, <1>2 DEF Past
<1>7. PICK cont : cont = IF NoWait(q) THEN Idle ELSE [doing[p] EXCEPT !.call = "deqCounts"]
  OBVIOUS
<1>8. /\ Q' = [Q EXCEPT ![q].list = Shifted(@, Q[q].count),
                        ![q].count = IF NoWait(q) THEN @ - 1 ELSE @]
      /\ arrived' = [arrived EXCEPT ![q] = Without(@, first)]
      /\ Goes(p, cont)
  BY <1>0, <1>7 DEF deqShifts, Returns
<1>9. /\ Q'[q] = [Q[q] EXCEPT !.list = Shifted(Q[q].list, Q[q].count),
                              !.count = IF NoWait(q) THEN Q[q].count - 1 ELSE Q[q].count]
      /\ arrived'[q] = Without(arrived[q], first)
      /\ \A r \in Queues \ {q} : Q'[r] = Q[r] /\ arrived'[r] = arrived[r]
      /\ Q' = [r \in Queues |-> Q'[r]] /\ arrived' = [r \in Queues |-> arrived'[r]]
  BY <1>3, <1>8
<1>10. /\ Q'[q].list = Shifted(Q[q].list, Q[q].count)
       /\ Q'[q].count = IF NoWait(q) THEN Q[q].count - 1 ELSE Q[q].count
       /\ Q'[q] = [Q[q] EXCEPT !.list = Q'[q].list, !.count = Q'[q].count]
       /\ Q'[q].mutex = Q[q].mutex /\ Q'[q].max = Q[q].max /\ Q'[q].type = Q[q].type
       /\ Q'[q].valid = Q[q].valid
  BY <1>3, <1>9 DEF QueueTyped
<1>11. /\ cont.call = (IF NoWait(q) THEN "idle" ELSE "deqCounts")
       /\ ~NoWait(q) => cont = [call |-> "deqCounts", q |-> q]
  BY <1>4, <1>7 DEF Idle
<1>12. ~NoWait(q) => cont.q = q
  BY <1>11
<1>13. StepOn(p, q, cont)
  <2>1. /\ cont.call \in QueueCalls \cup {"idle"} /\ (cont.call \in QueueCalls => cont.q = q)
        /\ doing[p].call \in QueueCalls
    BY <1>2, <1>11, <1>12 DEF QueueCalls, Enqueuing, Dequeuing
  <2>. QED
    BY <1>0, <1>3, <1>5, <1>8, <1>9, <2>1 DEF StepOn
<1>14. MutexHeld(q)' /\ MutexOnly(q)
  <2>1. CASE NoWait(q)
    <3>1. Q[q].mutex = SYSERR
      BY <1>3, <2>1 DEF QueueTyped
    <3>. QED
      BY <1>3, <1>5, <1>10, <1>13, <3>1, MutexAlone
  <2>2. CASE ~NoWait(q)
    <3>1. cont.call = "deqCounts"
      BY <1>11, <2>2
    <3>. QED
      BY <1>1, <1>3, <1>5, <1>10, <1>13, <3>1, MutexAlone
  <2>. QED
    BY <2>1, <2>2
<1>15. CallTyped(p)'
  <2>1. doing'[p] = cont
    BY <1>8, GoesFrom
  <2>2. CASE NoWait(q)
    BY <1>11, <2>1, <2>2 DEF CallTyped, QueueCalls, Enqueuing, Dequeuing
  <2>3. CASE ~NoWait(q)
    <3>1. doing'[p] = [call |-> "deqCounts", q |-> q]
      BY <1>11, <2>1, <2>3
    <3>2. doing'[p].call = "deqCounts" /\ doing'[p].q = q
      BY <3>1
    <3>. QED
      BY <1>3, <3>1, <3>2 DEF CallTyped, QueueCalls, Enqueuing, Dequeuing
  <2>. QED
    BY <2>2, <2>3
<1>16. ASSUME q \notin raced' PROVE QueueOrdered(q)'
  <2>. DEFINE E == Past(Enqueuing, q)
              D == Past(Dequeuing, q)
              EC == Past({"enqCounts"}, q)
              DC == Past({"deqCounts"}, q)
              EP == Past({"enq", "enqPlaces"}, q)
  <2>1. q \notin raced /\ QueueOrdered(q)
    BY <1>3, <1>5, <1>16
  <2>2. /\ E' = IF cont.call \in Enqueuing THEN E \cup {p} ELSE E \ {p}
        /\ D' = IF cont.call \in Dequeuing THEN D \cup {p} ELSE D \ {p}
        /\ EC' = IF cont.call = "enqCounts" THEN EC \cup {p} ELSE EC \ {p}
        /\ DC' = IF cont.call = "deqCounts" THEN DC \cup {p} ELSE DC \ {p}
        /\ EP' = IF cont.call \in {"enq", "enqPlaces"} THEN EP \cup {p} ELSE EP \ {p}
        /\ p \in E <=> doing[p].call \in Enqueuing
        /\ p \in EC <=> doing[p].call = "enqCounts"
        /\ p \in EP <=> doing[p].call \in {"enq", "enqPlaces"}
    BY <1>13, UseMoves
  <2>3. D = {p} /\ \A r, t \in E : r = t
    BY <1>6, <2>1 DEF QueueOrdered
  <2>4. DC \subseteq D
    BY DEF Past, Dequeuing
  <2>5. /\ cont.call \notin Enqueuing \cup {"enq", "enqPlaces", "enqCounts"}
        /\ doing[p].call \notin Enqueuing \cup {"enq", "enqPlaces", "enqCounts"}
        /\ (cont.call \in Dequeuing <=> ~NoWait(q)) /\ (cont.call = "deqCounts" <=> ~NoWait(q))
    BY <1>1, <1>11 DEF Enqueuing, Dequeuing
  <2>6. /\ E' = E /\ EC' = EC /\ EP' = EP /\ p \notin EP
        /\ D' = (IF NoWait(q) THEN {} ELSE {p})
        /\ DC' = (IF NoWait(q) THEN {} ELSE {p})
    <3>. HIDE DEF E, D, EC, DC, EP
    <3>. QED
      BY <2>2, <2>3, <2>4, <2>5
  <2>7. NoWait(q)' = NoWait(q)
    BY <1>10 DEF NoWait
  <2>8. \A r \in EP : doing'[r] = doing[r]
    <3>1. \A r \in Procs \ {p} : doing'[r] = doing[r]
      BY <1>8, GoesFrom
    <3>. QED
      BY <2>6, <3>1 DEF Past
  <2>9. ASSUME NoWait(q) \/ Q[q].mutex # SYSERR
        PROVE  LET n == Len(arrived[q]) - 1 IN
               /\ Q'[q].count \in 0..Q'[q].max /\ EC' = {}
               /\ Q'[q].count = IF DC' # {} THEN Len(arrived'[q]) + 1 ELSE Len(arrived'[q])
               /\ E' # {} => Q'[q].count < Q'[q].max
               /\ D' # {} => Q'[q].count > 0
               /\ Len(arrived'[q]) = n
               /\ arrived'[q] \in Seq(Entries)
               /\ Q'[q].list \in Seq(Entries \cup {NOTHING}) /\ Len(Q'[q].list) = Q'[q].max
               /\ \A i, j \in 1..n : arrived'[q][i].elt = arrived'[q][j].elt => i = j
               /\ \A r \in EP' : \A i \in 1..n : arrived'[q][i].elt # doing'[r].entry.elt
               /\ Arranged(Q'[q].list, n, arrived'[q])
    <3>1. PICK n, c, x, cn, m : /\ n = Len(arrived[q]) /\ c = Q[q].count /\ x = Q[q].max
                                /\ cn = Q'[q].count /\ m = Len(arrived'[q])
      OBVIOUS
    <3>2. EC = {} /\ DC = {}
      BY <1>0, <1>1, <1>3, <2>9, NobodyCounts
    <3>3. /\ arrived[q] \in Seq(Entries)
          /\ Q[q].list \in Seq(Entries \cup {NOTHING}) /\ Len(Q[q].list) = x
          /\ \A i, j \in 1..n : arrived[q][i].elt = arrived[q][j].elt => i = j
          /\ \A r \in EP : \A i \in 1..n : arrived[q][i].elt # doing[r].entry.elt
          /\ Arranged(Q[q].list, n, arrived[q])
          /\ c \in 0..x /\ (E # {} => c < x) /\ (D # {} => c > 0) /\ c = n
      BY <1>3, <2>1, <2>9, <3>1, <3>2 DEF QueueOrdered
    <3>4. x \in Nat
      BY <1>3, <3>1, QueuesAssumption DEF QueueTyped
    <3>5. n \in 1..x /\ n \in Nat /\ c = n
      BY <2>3, <3>3, <3>4
    <3>6. PICK list, came, new, came1 :
            /\ list \in Seq(Cells) /\ came \in Seq(Entries)
            /\ list = Q[q].list /\ came = arrived[q] /\ new = Q'[q].list /\ came1 = arrived'[q]
      BY <3>3 DEF Cells
    <3>7. /\ new \in Seq(Cells) /\ Len(new) = Len(list)
          /\ came1 \in Seq(Entries) /\ Len(came1) = n - 1 /\ Arranged(new, n - 1, came1)
          /\ \A k \in 1..n - 1 : \E l \in 1..n : came1[k] = came[l]
          /\ \A k, l \in 1..n - 1 : came1[k] = came1[l] => k = l
      <4>1. n \in 1..Len(list)
        BY <3>3, <3>5, <3>6
      <4>2. Arranged(list, n, came)
        BY <3>3, <3>6
      <4>3. \A k, l \in 1..n : came[k] = came[l] => k = l
        BY <3>3, <3>6
      <4>4. new = Shifted(list, n) /\ came1 = Without(came, list[1])
        BY <1>0, <1>9, <1>10, <3>1, <3>5, <3>6
      <4>5. Taken(list, n, came, new, came1)
        BY <3>6, <4>1, <4>2, <4>3, <4>4, ShiftedArranged
      <4>. QED
        BY <4>5 DEF Taken
    <3>8. ASSUME NEW k \in 1..n - 1, NEW l \in 1..n - 1, came1[k].elt = came1[l].elt PROVE k = l
      <4>1. PICK a \in 1..n : came1[k] = came[a]
        BY <3>7
      <4>2. PICK b \in 1..n : came1[l] = came[b]
        BY <3>7
      <4>3. a = b
        BY <3>3, <3>6, <3>8, <4>1, <4>2
      <4>. QED
        BY <3>7, <4>1, <4>2, <4>3
    <3>9. ASSUME NEW r \in EP', NEW i \in 1..n - 1 PROVE came1[i].elt # doing'[r].entry.elt
      <4>1. r \in EP /\ doing'[r] = doing[r]
        BY <2>6, <2>8
      <4>2. PICK a \in 1..n : came1[i] = came[a]
        BY <3>7
      <4>. QED
        BY <3>3, <3>6, <4>1, <4>2
    <3>10. m = n - 1
      BY <3>1, <3>6, <3>7
    <3>11. /\ cn \in 0..x
           /\ cn = IF DC' # {} THEN m + 1 ELSE m
           /\ E' # {} => cn < x
           /\ D' # {} => cn > 0
      <4>1. cn = IF NoWait(q) THEN n - 1 ELSE n
        BY <1>10, <3>1, <3>5
      <4>2. E' # {} => n < x
        BY <2>6, <3>3
      <4>. HIDE DEF E, D, EC, DC, EP
      <4>. QED
        BY <2>6, <3>4, <3>5, <3>10, <4>1, <4>2
    <3>12. Q'[q].max = x /\ EC' = {}
      BY <1>10, <2>6, <3>1, <3>2
    <3>. HIDE DEF E, D, EC, DC, EP
    <3>. QED
      BY <3>1, <3>3, <3>6, <3>7, <3>8, <3>9, <3>10, <3>11, <3>12 DEF Cells
  <2>10. ASSUME NoWait(q) \/ Q[q].mutex # SYSERR
         PROVE  LET n == Len(arrived'[q]) IN
                /\ Q'[q].count \in 0..Q'[q].max /\ EC' = {}
                /\ Q'[q].count = IF DC' # {} THEN n + 1 ELSE n
                /\ E' # {} => Q'[q].count < Q'[q].max
                /\ D' # {} => Q'[q].count > 0
                /\ arrived'[q] \in Seq(Entries)
                /\ Q'[q].list \in Seq(Entries \cup {NOTHING}) /\ Len(Q'[q].list) = Q'[q].max
                /\ \A i, j \in 1..n : arrived'[q][i].elt = arrived'[q][j].elt => i = j
                /\ \A r \in EP' : \A i \in 1..n : arrived'[q][i].elt # doing'[r].entry.elt
                /\ Arranged(Q'[q].list, n, arrived'[q])
    <3>1. PICK m : m = Len(arrived'[q]) /\ m = Len(arrived[q]) - 1
      BY <2>9, <2>10
    <3>. HIDE DEF E, D, EC, DC, EP
    <3>. QED
      BY <2>9, <2>10, <3>1, Zenon
  <2>11. (\A r, t \in E' : r = t) /\ \A r, t \in D' : r = t
    <3>. HIDE DEF E, D
    <3>. QED
      BY <2>3, <2>6
  <2>. QED
    BY <1>10, <2>7, <2>10, <2>11, Zenon DEF QueueOrdered
<1>17. /\ doing[p].call \in Enqueuing \cup Dequeuing
       /\ cont.call \in Enqueuing \cup Dequeuing \cup {"idle"}
       /\ NoWait(q) => cont.call \notin {"enq", "enqCounts", "deq", "deqCounts"}
  BY <1>2, <1>11 DEF Dequeuing
<1>18. raced \subseteq raced' /\ UNCHANGED <<arrays, usable, memory>> /\ (broken' => broken)
  BY <1>5
<1>. QED
  BY <1>3, <1>10, <1>13, <1>14, <1>15, <1>16, <1>17, <1>18, UseKeeps

\* A queue that a step left alone, but for processes in newq() on it.
LEMMA FreeStays ==
  ASSUME TasksTyped, NEW p \in Procs, NEW q, NEW cont, StepOn(p, q, cont),
         NEW r, r # q \/ (doing[p].call # "freeq" /\ cont.call # "freeq")
  PROVE  Past({"freeq"}, r)' = Past({"freeq"}, r)
<1>1. CASE r # q
  BY <1>1, OthersOn, PastKept DEF QueueCalls
<1>2. CASE doing[p].call # "freeq" /\ cont.call # "freeq"
  <2>1. doing'[p] = cont /\ \A t \in Procs \ {p} : doing'[t] = doing[t]
    BY GoesFrom DEF StepOn
  <2>. QED
    BY <1>2, <2>1 DEF Past
<1>. QED
  BY <1>1, <1>2

\* The arrays that a queue still has, or newly has, are its own.
LEMMA ArraysMove ==
  ASSUME TasksTyped, QueuesInv, NEW p \in Procs, NEW q \in Queues, NEW cont, StepOn(p, q, cont),
         arrays'[q] \in Seq(Areas),
         NEW gone, \A g \in held : g \in held' \/ g \in gone,
         \A r \in Queues \ {q} : \A i \in ArraysOf(r) : arrays[r][i] \notin gone,
         \A i \in ArraysOf(q)' :
           \/ i \in ArraysOf(q) /\ arrays'[q][i] = arrays[q][i] /\ arrays[q][i] \notin gone
           \/ /\ arrays'[q][i] \in held' \ held /\ arrays'[q][i].use = "heap"
              /\ \A j \in ArraysOf(q)' : j # i => j \in ArraysOf(q) /\ arrays'[q][j] = arrays[q][j]
  PROVE  ArraysHeld'
<1>1. \A r \in Queues \ {q} : ArraysOf(r)' = ArraysOf(r) /\ arrays'[r] = arrays[r]
  <2>1. \A r \in Queues \ {q} : arrays'[r] = arrays[r]
    BY DEF StepOn
  <2>2. \A r \in Queues \ {q} : Past({"freeq"}, r)' = Past({"freeq"}, r)
    BY FreeStays
  <2>. QED
    BY <2>1, <2>2 DEF ArraysOf
<1>2. \A r \in Queues : /\ arrays[r] \in Seq(Areas)
                        /\ \A i \in ArraysOf(r) : arrays[r][i] \in held /\ arrays[r][i].use = "heap"
  BY DEF QueuesInv, ArraysHeld
<1>3. \A r, t \in Queues : \A i \in ArraysOf(r), j \in ArraysOf(t) :
        arrays[r][i] = arrays[t][j] => r = t /\ i = j
  BY DEF QueuesInv, ArraysHeld
<1>4. \A r \in Queues : arrays'[r] \in Seq(Areas)
  BY <1>1, <1>2
<1>5. \A r \in Queues : \A i \in ArraysOf(r)' : arrays'[r][i] \in held' /\ arrays'[r][i].use = "heap"
  <2>1. ASSUME NEW r \in Queues \ {q}, NEW i \in ArraysOf(r)'
        PROVE  arrays'[r][i] \in held' /\ arrays'[r][i].use = "heap"
    BY <1>1, <1>2
  <2>2. ASSUME NEW i \in ArraysOf(q)' PROVE arrays'[q][i] \in held' /\ arrays'[q][i].use = "heap"
    BY <1>2
  <2>. QED
    BY <2>1, <2>2
<1>6. ASSUME NEW r \in Queues, NEW t \in Queues, NEW i \in ArraysOf(r)', NEW j \in ArraysOf(t)',
             arrays'[r][i] = arrays'[t][j]
      PROVE  r = t /\ i = j
  <2>1. CASE r # q /\ t # q
    BY <1>1, <1>3, <1>6, <2>1
  <2>2. CASE r = q /\ t # q
    <3>1. j \in ArraysOf(t) /\ arrays'[t][j] = arrays[t][j] /\ arrays[t][j] \in held
      BY <1>1, <1>2, <2>2
    <3>2. i \in ArraysOf(q) /\ arrays'[q][i] = arrays[q][i]
      BY <1>6, <2>2, <3>1
    <3>. QED
      BY <1>3, <1>6, <2>2, <3>1, <3>2
  <2>3. CASE r # q /\ t = q
    <3>1. i \in ArraysOf(r) /\ arrays'[r][i] = arrays[r][i] /\ arrays[r][i] \in held
      BY <1>1, <1>2, <2>3
    <3>2. j \in ArraysOf(q) /\ arrays'[q][j] = arrays[q][j]
      BY <1>6, <2>3, <3>1
    <3>. QED
      BY <1>3, <1>6, <2>3, <3>1, <3>2
  <2>4. CASE r = q /\ t = q
    <3>1. CASE arrays'[q][i] \in held
      <4>1. /\ i \in ArraysOf(q) /\ arrays'[q][i] = arrays[q][i]
            /\ j \in ArraysOf(q) /\ arrays'[q][j] = arrays[q][j]
        BY <1>6, <2>4, <3>1
      <4>. QED
        BY <1>3, <1>6, <2>4, <4>1
    <3>2. CASE arrays'[q][i] \notin held
      <4>1. i = j
        <5>. SUFFICES ASSUME i # j PROVE FALSE
          OBVIOUS
        <5>1. \/ i \in ArraysOf(q) /\ arrays'[q][i] = arrays[q][i]
              \/ \A k \in ArraysOf(q)' : k # i => k \in ArraysOf(q) /\ arrays'[q][k] = arrays[q][k]
          BY <2>4
        <5>2. j \in ArraysOf(q) /\ arrays'[q][j] = arrays[q][j]
          BY <1>2, <2>4, <3>2, <5>1
        <5>. QED
          BY <1>2, <1>6, <2>4, <3>2, <5>2
      <4>. QED
        BY <2>4, <4>1
    <3>. QED
      BY <3>1, <3>2
  <2>. QED
    BY <2>1, <2>2, <2>3, <2>4
<1>. QED
  BY <1>4, <1>5, <1>6 DEF ArraysHeld

\* Freed memory is no longer in use, all other is.
LEMMA FreememTakes ==
  ASSUME NEW h, Freemem(h)
  PROVE  \A g \in held : g \in held' \/ g \in {h}
BY DEF Freemem, GiveBack, Lose

\* Memory for an array, or none (gpq.c, newq).
LEMMA ArrayGiven ==
  ASSUME MemoryInv, ~strayed, QueuesInv, NEW q \in Queues, NEW size \in QueueSizes, Array(q, size)
  PROVE  /\ \A g \in held : g \in held'
         /\ \A r \in Queues \ {q} : arrays'[r] = arrays[r]
         /\ arrays' = [r \in Queues |-> arrays'[r]]
         /\ \/ arrays'[q] = arrays[q]
            \/ \E h \in Areas : h \in held' \ held /\ h.use = "heap" /\ arrays'[q] = Append(arrays[q], h)
<1>1. arrays = [r \in Queues |-> arrays[r]]
  BY DEF QueuesInv, QueuesTyped
<1>2. CASE Getmem(4 * size, "heap") /\ arrays' = [arrays EXCEPT ![q] = Append(@, CHOOSE h \in held' : h \notin held)]
  <2>1. 4 * size \in Nat \ {0}
    BY AskedAssumption, SizesAssumption
  <2>2. PICK a \in Areas : a \notin held /\ held' = held \cup {a} /\ a.use = "heap"
    BY <1>2, <2>1, NewArea DEF Uses
  <2>3. (CHOOSE h \in held' : h \notin held) = a
    BY <2>2
  <2>. QED
    BY <1>1, <1>2, <2>2, <2>3
<1>3. CASE UNCHANGED <<arrays, memory>>
  BY <1>1, <1>3 DEF memory
<1>. QED
  BY <1>2, <1>3 DEF Array

\* A process that neither uses nor makes a queue before or after its step.
LEMMA AsideFrom ==
  ASSUME TasksTyped, SemsOwned, QueuesInv, NEW p \in Procs, NEW q \in Queues, NEW cont,
         StepOn(p, q, cont), Q'[q] = Q[q], arrived'[q] = arrived[q],
         doing[p].call \notin Enqueuing \cup Dequeuing, cont.call \notin Enqueuing \cup Dequeuing,
         raced' = raced, UNCHANGED semaph
  PROVE  /\ MutexHeld(q)' /\ MutexOnly(q) /\ (q \notin raced' => QueueOrdered(q)') /\ QueueTyped(q)'
         /\ InUse(q)' = InUse(q) /\ NoWait(q)' = NoWait(q)
         /\ Past({"enq", "enqCounts", "deq", "deqCounts"}, q)'
              = Past({"enq", "enqCounts", "deq", "deqCounts"}, q)
<1>1. \A calls \in SUBSET QueueCalls :
        /\ Past(calls, q)' = IF cont.call \in calls THEN Past(calls, q) \cup {p} ELSE Past(calls, q) \ {p}
        /\ p \in Past(calls, q) <=> doing[p].call \in calls
  BY PastMoves
<1>2. ASSUME NEW calls \in SUBSET (Enqueuing \cup Dequeuing) PROVE Past(calls, q)' = Past(calls, q)
  <2>1. calls \in SUBSET QueueCalls
    BY DEF QueueCalls
  <2>2. cont.call \notin calls /\ doing[p].call \notin calls
    OBVIOUS
  <2>3. p \notin Past(calls, q)
    BY <2>2 DEF Past
  <2>4. Past(calls, q)' = Past(calls, q) \ {p}
    BY <1>1, <2>1, <2>2
  <2>. QED
    BY <2>3, <2>4
<1>3. /\ Past(Enqueuing, q)' = Past(Enqueuing, q) /\ Past(Dequeuing, q)' = Past(Dequeuing, q)
      /\ Past({"enqCounts"}, q)' = Past({"enqCounts"}, q)
      /\ Past({"deqCounts"}, q)' = Past({"deqCounts"}, q)
      /\ Past({"enq", "enqPlaces"}, q)' = Past({"enq", "enqPlaces"}, q)
      /\ Past(Enqueuing \cup Dequeuing, q)' = Past(Enqueuing \cup Dequeuing, q)
      /\ Past({"enq", "enqCounts", "deq", "deqCounts"}, q)'
           = Past({"enq", "enqCounts", "deq", "deqCounts"}, q)
  BY <1>2 DEF Enqueuing, Dequeuing
<1>4. \A r \in Past({"enq", "enqPlaces"}, q) : doing'[r] = doing[r]
  <2>1. \A r \in Procs \ {p} : doing'[r] = doing[r]
    BY GoesFrom DEF StepOn
  <2>. QED
    BY <2>1 DEF Past, Enqueuing
<1>5. NoWait(q)' = NoWait(q) /\ InUse(q)' = InUse(q)
  BY <1>3 DEF NoWait, InUse
<1>6. q \notin raced' => QueueOrdered(q)'
  <2>. SUFFICES ASSUME QueueOrdered(q) PROVE QueueOrdered(q)'
    BY DEF QueuesInv
  <2>1. \A r \in Past({"enq", "enqPlaces"}, q) : doing'[r].entry.elt = doing[r].entry.elt
    BY <1>4
  <2>. QED
    BY <1>3, <1>5, <2>1 DEF QueueOrdered
<1>7. MutexHeld(q)' /\ MutexOnly(q)
  <2>1. /\ doing[p].call \notin {"enqPlaces", "enqCounts", "deqShifts", "deqCounts"}
        /\ cont.call \notin {"enqPlaces", "enqCounts", "deqShifts", "deqCounts"}
    BY DEF Enqueuing, Dequeuing
  <2>. QED
    BY <2>1, MutexAlone
<1>8. QueueTyped(q)'
  <2>1. QueueTyped(q)
    BY DEF QueuesInv, QueuesTyped
  <2>. QED
    BY <1>5, <2>1 DEF QueueTyped
<1>. QED
  BY <1>3, <1>5, <1>6, <1>7, <1>8

\* newq() takes the first queue that is not valid (gpq.c, newq).
LEMMA newqKeeps ==
  ASSUME TasksTyped, SemsOwned, QueuesInv, NEW p \in Procs,
         NEW size \in QueueSizes, NEW type \in QueueTypes, newq(p, size, type), UNCHANGED pools
  PROVE  QueuesInv' /\ TasksTyped' /\ SemsOwned' /\ Local(QueueCalls, Mutexes \cup Mutexes')
<1>1. PICK q \in Queues : ~Q[q].valid /\ Goes(p, [call |-> "newq", q |-> q, size |-> size, type |-> type])
  BY DEF newq
<1>2. PICK cont : cont = [call |-> "newq", q |-> q, size |-> size, type |-> type]
  OBVIOUS
<1>3. cont.call = "newq" /\ cont.q = q /\ cont.size = size /\ cont.type = type
  BY <1>2
<1>4. /\ doing[p].call = "idle" /\ UNCHANGED <<semaph, memory>>
      /\ UNCHANGED <<Q, arrays, broken, usable, arrived, raced>>
  BY CallsIdle DEF newq, queues
<1>5. /\ Q = [r \in Queues |-> Q[r]] /\ arrays = [r \in Queues |-> arrays[r]]
      /\ arrived = [r \in Queues |-> arrived[r]]
      /\ usable \subseteq Queues /\ raced \subseteq Queues /\ broken \in BOOLEAN
      /\ QueueTyped(q) /\ QueueLive(q)
  BY DEF QueuesInv, QueuesTyped
<1>6. StepOn(p, q, cont)
  <2>1. cont.call \in QueueCalls /\ doing[p].call \notin QueueCalls
    BY <1>3, <1>4 DEF QueueCalls, Enqueuing, Dequeuing
  <2>. QED
    BY <1>1, <1>2, <1>3, <1>4, <1>5, <2>1 DEF StepOn
<1>7. doing[p].call \notin Enqueuing \cup Dequeuing /\ cont.call \notin Enqueuing \cup Dequeuing
  BY <1>3, <1>4 DEF Enqueuing, Dequeuing
<1>8. /\ MutexHeld(q)' /\ MutexOnly(q) /\ (q \notin raced' => QueueOrdered(q)') /\ QueueTyped(q)'
      /\ InUse(q)' = InUse(q) /\ NoWait(q)' = NoWait(q)
      /\ Past({"enq", "enqCounts", "deq", "deqCounts"}, q)'
           = Past({"enq", "enqCounts", "deq", "deqCounts"}, q)
  BY <1>4, <1>6, <1>7, AsideFrom
<1>9. SemsOwned' /\ OthersMutexes(q) /\ Local(QueueCalls, Mutexes \cup Mutexes')
  BY <1>4, <1>6, <1>8, MutexOwners
<1>10. doing'[p] = cont /\ \A r \in Procs \ {p} : doing'[r] = doing[r]
  BY <1>1, <1>2, GoesFrom
<1>11. CallTyped(p)'
  BY <1>3, <1>10 DEF CallTyped, Enqueuing, Dequeuing
<1>12. /\ Making(q)' = Making(q) /\ Past({"newqKeys"}, q)' = Past({"newqKeys"}, q)
       /\ Past({"freeq"}, q)' = Past({"freeq"}, q)
  BY <1>3, <1>4, <1>10 DEF Making, Past
<1>13. QueueLive(q)'
  BY <1>4, <1>5, <1>8, <1>12 DEF QueueLive
<1>14. ArraysHeld'
  <2>1. \A r \in Queues : Past({"freeq"}, r)' = Past({"freeq"}, r)
    BY <1>3, <1>4, <1>10 DEF Past
  <2>2. \A r \in Queues : ArraysOf(r)' = ArraysOf(r)
    BY <1>4, <2>1 DEF ArraysOf
  <2>. QED
    BY <1>4, <2>2 DEF QueuesInv, ArraysHeld, memory
<1>15. BrokenByRaces'
  <2>1. \A r \in Queues : r # q => Past({"newq"}, r)' = Past({"newq"}, r)
    BY <1>3, <1>4, <1>10 DEF Past
  <2>2. \A r \in Queues : NoWait(r)' = NoWait(r)
    BY <1>4 DEF NoWait
  <2>. QED
    BY <1>1, <1>4, <2>1, <2>2 DEF QueuesInv, BrokenByRaces
<1>16. QueuesInv' /\ TasksTyped'
  <2>1. semaph' \in [Semaphores -> Sems]
    BY <1>8 DEF MutexOnly
  <2>. QED
    BY <1>6, <1>8, <1>9, <1>11, <1>13, <1>14, <1>15, <2>1, QueueStep
<1>. QED
  BY <1>9, <1>16

\* newq() when another newq() took the same queue meanwhile: the model stops.
LEMMA newqFindsTaken ==
  ASSUME TasksTyped, SemsOwned, QueuesInv, NEW p \in Procs, newqFills(p),
         Q[doing[p].q].valid, UNCHANGED pools
  PROVE  QueuesInv' /\ TasksTyped' /\ SemsOwned' /\ Local(QueueCalls, Mutexes \cup Mutexes')
<1>0. PICK q, cont : q = doing[p].q /\ cont = doing[p]
  OBVIOUS
<1>1. /\ doing[p].call = "newq" /\ broken' = TRUE
      /\ UNCHANGED <<Q, arrays, raced, semaph, doing, memory, usable, arrived>>
  BY AtStep DEF newqFills
<1>2. CallTyped(p) /\ q \in Queues
  BY <1>0, <1>1 DEF QueuesInv, QueuesTyped, CallTyped, QueueCalls
<1>3. /\ Q = [r \in Queues |-> Q[r]] /\ arrays = [r \in Queues |-> arrays[r]]
      /\ arrived = [r \in Queues |-> arrived[r]]
      /\ usable \subseteq Queues /\ raced \subseteq Queues /\ QueueLive(q)
  BY <1>2 DEF QueuesInv, QueuesTyped
<1>4. StepOn(p, q, cont)
  <2>1. Goes(p, cont)
    BY <1>0, <1>1 DEF Goes, TasksTyped
  <2>. QED
    BY <1>0, <1>1, <1>3, <2>1 DEF StepOn, QueueCalls
<1>5. doing[p].call \notin Enqueuing \cup Dequeuing
  BY <1>1 DEF Enqueuing, Dequeuing
<1>6. MutexHeld(q)' /\ MutexOnly(q) /\ (q \notin raced' => QueueOrdered(q)') /\ QueueTyped(q)'
  BY <1>0, <1>1, <1>2, <1>4, <1>5, AsideFrom
<1>7. SemsOwned' /\ OthersMutexes(q) /\ Local(QueueCalls, Mutexes \cup Mutexes')
  BY <1>1, <1>2, <1>4, <1>6, MutexOwners
<1>8. CallTyped(p)'
  BY <1>1, <1>2 DEF CallTyped
<1>9. \A r \in Queues : SameOn(r)
  BY <1>1 DEF SameOn
<1>10. QueueLive(q)'
  <2>1. QueueLive(q) => QueueLive(q)'
    BY <1>1, <1>2, <1>9, QueueFrame
  <2>. QED
    BY <1>3, <2>1
<1>11. ArraysHeld'
  <2>1. \A r \in Queues : ArraysOf(r)' = ArraysOf(r)
    BY <1>1 DEF ArraysOf, Past
  <2>. QED
    BY <1>1, <2>1 DEF QueuesInv, ArraysHeld, memory
<1>12. BrokenByRaces'
  <2>1. p \in Past({"newq"}, q)'
    BY <1>0, <1>1 DEF Past
  <2>. QED
    BY <1>0, <1>1, <1>2, <2>1 DEF BrokenByRaces
<1>13. QueuesInv' /\ TasksTyped'
  <2>1. semaph' \in [Semaphores -> Sems]
    BY <1>6 DEF MutexOnly
  <2>. QED
    BY <1>2, <1>4, <1>6, <1>7, <1>8, <1>10, <1>11, <1>12, <2>1, QueueStep
<1>. QED
  BY <1>7, <1>13

\* newq() fills in the queue and asks for the first array (gpq.c, newq).
LEMMA newqFillsKeeps ==
  ASSUME TasksTyped, SemsOwned, QueuesInv, MemoryInv, ~strayed, ~broken,
         NEW p \in Procs, newqFills(p), ~Q[doing[p].q].valid, UNCHANGED pools
  PROVE  QueuesInv' /\ TasksTyped' /\ SemsOwned' /\ Local(QueueCalls, Mutexes \cup Mutexes')
<1>0. PICK q, size, type, mutex :
        /\ q = doing[p].q /\ size = doing[p].size /\ type = doing[p].type
        /\ mutex = (IF type = "QF_NOWAIT" THEN SYSERR ELSE newsem)
  OBVIOUS
<1>1. PICK cont : cont = [call |-> "newqKeys", q |-> q]
  OBVIOUS
<1>2. PICK blank : blank = [i \in 1..size |-> NOTHING]
  OBVIOUS
<1>3. /\ doing[p].call = "newq"
      /\ Q' = [Q EXCEPT ![q] = [valid |-> TRUE, type |-> type, max |-> size,
                                count |-> 0, mutex |-> mutex, list |-> blank]]
      /\ semaph' = screate(mutex, 1) /\ Array(q, size) /\ raced' = raced \ {q} /\ Goes(p, cont)
      /\ UNCHANGED <<broken, usable, arrived>>
  BY <1>0, <1>1, <1>2, AtStep DEF newqFills
<1>4. CallTyped(p) /\ q \in Queues /\ size \in QueueSizes /\ type \in QueueTypes
  BY <1>0, <1>3 DEF QueuesInv, QueuesTyped, CallTyped, QueueCalls
<1>5. /\ Q = [r \in Queues |-> Q[r]] /\ arrays = [r \in Queues |-> arrays[r]]
      /\ arrived = [r \in Queues |-> arrived[r]]
      /\ usable \subseteq Queues /\ raced \subseteq Queues /\ broken \in BOOLEAN
      /\ QueueTyped(q) /\ QueueLive(q)
  BY <1>4 DEF QueuesInv, QueuesTyped
<1>6. /\ Q[q] = NoQueue /\ arrived[q] = <<>> /\ arrays[q] = <<>> /\ q \notin usable
      /\ Making(q) = {} /\ Past(Enqueuing \cup Dequeuing, q) = {}
  BY <1>0, <1>5 DEF QueueTyped, QueueLive, InUse
<1>7. /\ \A g \in held : g \in held'
      /\ \A r \in Queues \ {q} : arrays'[r] = arrays[r]
      /\ arrays' = [r \in Queues |-> arrays'[r]]
      /\ \/ arrays'[q] = arrays[q]
         \/ \E h \in Areas : h \in held' \ held /\ h.use = "heap" /\ arrays'[q] = Append(arrays[q], h)
  BY <1>3, <1>4, ArrayGiven
<1>8. /\ Q'[q] = [valid |-> TRUE, type |-> type, max |-> size,
                  count |-> 0, mutex |-> mutex, list |-> blank]
      /\ \A r \in Queues \ {q} : Q'[r] = Q[r]
      /\ Q' = [r \in Queues |-> Q'[r]]
  BY <1>3, <1>4, <1>5
<1>9. /\ Q'[q].valid = TRUE /\ Q'[q].type = type /\ Q'[q].max = size
      /\ Q'[q].count = 0 /\ Q'[q].mutex = mutex /\ Q'[q].list = blank
  BY <1>8
<1>10. cont.call = "newqKeys" /\ cont.q = q
  BY <1>1
<1>11. StepOn(p, q, cont)
  <2>1. cont.call \in QueueCalls /\ doing[p].call \in QueueCalls
    BY <1>3, <1>10 DEF QueueCalls
  <2>2. /\ \A r \in Queues \ {q} : (r \in usable' <=> r \in usable) /\ (r \in raced' <=> r \in raced)
        /\ arrived' = [r \in Queues |-> arrived'[r]] /\ usable' \subseteq Queues /\ raced' \subseteq Queues
        /\ broken' \in BOOLEAN /\ \A r \in Queues \ {q} : arrived'[r] = arrived[r]
    BY <1>3, <1>5
  <2>. QED
    BY <1>0, <1>3, <1>7, <1>8, <1>10, <2>1, <2>2 DEF StepOn
<1>12. /\ mutex \in Semaphores \cup {SYSERR}
       /\ semaph' \in [Semaphores -> Sems]
       /\ \A t \in Semaphores : t # mutex => semaph'[t] = semaph[t]
       /\ mutex # SYSERR => /\ mutex \in Semaphores /\ ~semaph[mutex].used
                            /\ semaph'[mutex] = Counting(1)
                            /\ mutex \notin PoolSems \cup Mutexes \cup {OSEMA, ISEMA}
  <2>1. CASE mutex = SYSERR
    BY <1>3, <2>1 DEF screate, TasksTyped, Sems
  <2>2. CASE mutex # SYSERR
    <3>1. mutex = newsem
      BY <1>0, <2>2
    <3>. QED
      BY <1>3, <3>1, Created
  <2>. QED
    BY <2>1, <2>2
<1>13. \A calls \in SUBSET QueueCalls :
         Past(calls, q)' = IF cont.call \in calls THEN Past(calls, q) \cup {p} ELSE Past(calls, q) \ {p}
  BY <1>11, PastMoves
<1>14. ASSUME NEW calls \in SUBSET (Enqueuing \cup Dequeuing) PROVE Past(calls, q)' = {}
  <2>1. calls \in SUBSET QueueCalls /\ cont.call \notin calls
    BY <1>10 DEF QueueCalls, Enqueuing, Dequeuing
  <2>2. Past(calls, q) = {}
    BY <1>6 DEF Past
  <2>. QED
    BY <1>13, <2>1, <2>2
<1>15. /\ Past(Enqueuing, q)' = {} /\ Past(Dequeuing, q)' = {} /\ Past(Enqueuing \cup Dequeuing, q)' = {}
       /\ Past({"enqCounts"}, q)' = {} /\ Past({"deqCounts"}, q)' = {}
       /\ Past({"enq", "enqPlaces"}, q)' = {}
       /\ Past({"enq", "enqCounts", "deq", "deqCounts"}, q)' = {}
       /\ Past({"enqPlaces", "deqShifts"}, q)' = {} /\ Holding(q)' = {}
  BY <1>14 DEF Enqueuing, Dequeuing, Holding
<1>16. Making(q)' = {p} /\ Past({"freeq"}, q)' = {}
  <2>1. /\ Past({"newqKeys", "freeq"}, q)' = Past({"newqKeys", "freeq"}, q) \cup {p}
        /\ Past({"freeq"}, q)' = Past({"freeq"}, q) \ {p}
    <3>1. {"newqKeys", "freeq"} \in SUBSET QueueCalls /\ {"freeq"} \in SUBSET QueueCalls
      BY DEF QueueCalls
    <3>. QED
      BY <1>10, <1>13, <3>1
  <2>2. Past({"newqKeys", "freeq"}, q) = {} /\ Past({"freeq"}, q) = {}
    BY <1>6 DEF Making, Past
  <2>. QED
    BY <2>1, <2>2 DEF Making
<1>17. arrays'[q] \in Seq(Areas) /\ Len(arrays'[q]) <= 1 /\ ArraysOf(q)' = 1..Len(arrays'[q])
       /\ \A i \in 1..Len(arrays'[q]) : i = 1 /\ arrays'[q][i] \in held' \ held /\ arrays'[q][i].use = "heap"
  <2>1. ArraysOf(q)' = 1..Len(arrays'[q])
    BY <1>16 DEF ArraysOf
  <2>2. CASE arrays'[q] = arrays[q]
    <3>1. arrays'[q] = <<>>
      BY <1>6, <2>2
    <3>. QED
      BY <2>1, <3>1
  <2>3. CASE \E h \in Areas : h \in held' \ held /\ h.use = "heap" /\ arrays'[q] = Append(arrays[q], h)
    <3>1. PICK h \in Areas : h \in held' \ held /\ h.use = "heap" /\ arrays'[q] = Append(<<>>, h)
      BY <1>6, <2>3
    <3>2. arrays'[q] = <<h>>
      BY <3>1
    <3>3. /\ arrays'[q] \in Seq(Areas) /\ Len(arrays'[q]) = 1 /\ arrays'[q][1] = h
      BY <3>2
    <3>. QED
      BY <2>1, <3>1, <3>3
  <2>. QED
    BY <1>7, <2>2, <2>3
<1>18. ArraysHeld'
  <2>1. PICK gone : gone = {}
    OBVIOUS
  <2>2. /\ \A g \in held : g \in held' \/ g \in gone
        /\ \A r \in Queues \ {q} : \A i \in ArraysOf(r) : arrays[r][i] \notin gone
    BY <1>7, <2>1
  <2>3. \A i \in ArraysOf(q)' :
           /\ arrays'[q][i] \in held' \ held /\ arrays'[q][i].use = "heap"
           /\ \A j \in ArraysOf(q)' : j # i => j \in ArraysOf(q) /\ arrays'[q][j] = arrays[q][j]
    BY <1>17
  <2>. QED
    BY <1>4, <1>11, <1>17, <2>2, <2>3, ArraysMove
<1>19. QueueTyped(q)'
  BY <1>4, <1>8, <1>9, <1>0 DEF QueueTyped, NoWait
<1>20. QueueLive(q)'
  BY <1>3, <1>6, <1>9, <1>15, <1>16, <1>17 DEF QueueLive, InUse
<1>21. MutexHeld(q)'
  <2>. SUFFICES ASSUME mutex # SYSERR PROVE MutexHeld(q)'
    BY <1>9 DEF MutexHeld
  <2>1. semaph'[mutex] = Counting(1) /\ QueueFits(Counting(1), {}) /\ Counting(1).semcnt = 1
    BY <1>12, CountingFits
  <2>2. Cardinality({}) = 0
    BY FS_EmptySet
  <2>. QED
    BY <1>9, <1>15, <2>1, <2>2 DEF MutexHeld
<1>22. QueueOrdered(q)'
  <2>1. size \in Nat \ {0} /\ blank \in Seq(Entries \cup {NOTHING}) /\ Len(blank) = size
    <3>1. size \in Nat \ {0}
      BY <1>4, QueuesAssumption
    <3>. QED
      BY <1>2, <3>1
  <2>2. arrived'[q] = <<>> /\ Len(<<>>) = 0 /\ <<>> \in Seq(Entries)
    BY <1>3, <1>6
  <2>3. Arranged(blank, 0, <<>>)
    BY <2>2 DEF Arranged
  <2>. QED
    BY <1>9, <1>15, <2>1, <2>2, <2>3 DEF QueueOrdered
<1>23. BrokenByRaces'
  BY <1>3 DEF BrokenByRaces
<1>24. CallTyped(p)'
  <2>1. doing'[p] = cont
    BY <1>3, GoesFrom
  <2>. QED
    BY <1>4, <1>10, <2>1 DEF CallTyped, Enqueuing, Dequeuing
<1>25. Mutexes' = Mutexes \cup ({mutex} \ {SYSERR}) /\ PoolSems' = PoolSems /\ bptab' = bptab
  <2>1. Mutexes' = {Q'[r].mutex : r \in Queues} \ {SYSERR}
    BY DEF Mutexes
  <2>2. Q[q].mutex = SYSERR
    BY <1>6 DEF NoQueue
  <2>3. Mutexes' = Mutexes \cup ({mutex} \ {SYSERR})
    BY <1>4, <1>8, <1>9, <2>1, <2>2 DEF Mutexes
  <2>. QED
    BY <2>3 DEF PoolSems, pools
<1>26. SemsOwned'
  <2>1. \A i, j \in DOMAIN bptab' : bptab'[i].bpsem = bptab'[j].bpsem /\ bptab'[i].bpsem # SYSERR => i = j
    BY <1>25 DEF SemsOwned
  <2>2. \A r, t \in Queues : Q'[r].mutex = Q'[t].mutex /\ Q'[r].mutex # SYSERR => r = t
    <3>1. \A r, t \in Queues : Q[r].mutex = Q[t].mutex /\ Q[r].mutex # SYSERR => r = t
      BY DEF SemsOwned
    <3>2. \A r \in Queues : Q[r].mutex # SYSERR => mutex # Q[r].mutex
      <4>1. \A r \in Queues : Q[r].mutex # SYSERR => Q[r].mutex \in Mutexes /\ Q[r].mutex \in Semaphores
        BY MutexSem
      <4>. QED
        BY <1>12, <4>1
    <3>. QED
      BY <1>8, <1>9, <3>1, <3>2
  <2>3. Counting(1).used
    BY DEF Counting
  <2>4. \A t \in Semaphores : semaph'[t].used <=> t \in PoolSems' \cup Mutexes' \cup {OSEMA, ISEMA}
    BY <1>12, <1>25, <2>3, Drivers DEF SemsOwned
  <2>5. \A t \in Semaphores : ~semaph'[t].used => semaph'[t] = Free
    BY <1>12, <2>3, Drivers DEF SemsOwned
  <2>6. /\ PoolSems' \cup Mutexes' \subseteq Semaphores /\ PoolSems' \cap Mutexes' = {}
        /\ OSEMA \notin PoolSems' \cup Mutexes' /\ ISEMA \notin PoolSems' \cup Mutexes'
    BY <1>12, <1>25 DEF SemsOwned
  <2>. QED
    BY <2>1, <2>2, <2>4, <2>5, <2>6 DEF SemsOwned
<1>27. OthersMutexes(q)
  <2>1. \A r \in Queues : Q[r].mutex # SYSERR => Q[r].mutex \in Mutexes /\ Q[r].mutex \in Semaphores
    BY MutexSem
  <2>. QED
    BY <1>12, <2>1 DEF OthersMutexes
<1>28. Local(QueueCalls, Mutexes \cup Mutexes')
  <2>1. doing'[p] = cont /\ \A t \in Procs \ {p} : doing'[t] = doing[t]
    BY <1>3, GoesFrom
  <2>2. cont.call \in QueueCalls /\ doing[p].call \in QueueCalls
    BY <1>3, <1>10 DEF QueueCalls
  <2>3. \A s \in Semaphores : semaph'[s] # semaph[s] => s \in Mutexes \cup Mutexes'
    BY <1>12, <1>25, Drivers
  <2>. QED
    BY <2>1, <2>2, <2>3 DEF Local
<1>29. QueuesInv' /\ TasksTyped'
  BY <1>4, <1>11, <1>12, <1>18, <1>19, <1>20, <1>21, <1>22, <1>23, <1>24, <1>27, QueueStep
<1>. QED
  BY <1>26, <1>28, <1>29

\* newq() asks for the second array and returns (gpq.c, newq).
LEMMA newqKeysKeeps ==
  ASSUME TasksTyped, SemsOwned, QueuesInv, MemoryInv, ~strayed, ~broken,
         NEW p \in Procs, newqKeys(p), UNCHANGED pools
  PROVE  QueuesInv' /\ TasksTyped' /\ SemsOwned' /\ Local(QueueCalls, Mutexes \cup Mutexes')
<1>0. PICK q, cont : q = doing[p].q /\ cont = Idle /\ cont.call = "idle"
  <2>1. Idle.call = "idle"
    BY DEF Idle
  <2>. QED
    BY <2>1
<1>1. doing[p].call = "newqKeys"
  BY AtStep DEF newqKeys
<1>2. /\ Array(q, Q[q].max) /\ Goes(p, cont)
      /\ usable' = (IF Len(arrays'[q]) = 2 THEN usable \cup {q} ELSE usable)
      /\ UNCHANGED <<Q, broken, arrived, raced, semaph>>
  BY <1>0 DEF newqKeys, Returns
<1>3. CallTyped(p) /\ q \in Queues
  BY <1>0, <1>1 DEF QueuesInv, QueuesTyped, CallTyped, QueueCalls
<1>4. /\ Q = [r \in Queues |-> Q[r]] /\ arrays = [r \in Queues |-> arrays[r]]
      /\ arrived = [r \in Queues |-> arrived[r]]
      /\ usable \subseteq Queues /\ raced \subseteq Queues /\ broken \in BOOLEAN
      /\ QueueTyped(q) /\ QueueLive(q)
  BY <1>3 DEF QueuesInv, QueuesTyped
<1>5. p \in Past({"newqKeys"}, q) /\ p \in Making(q)
  BY <1>0, <1>1 DEF Past, Making
<1>6. /\ Making(q) = {p} /\ Q[q].valid /\ Len(arrays[q]) <= 1 /\ q \notin usable /\ ~InUse(q)
  BY <1>4, <1>5 DEF QueueLive
<1>8. StepOn(p, q, cont) /\ (\A g \in held : g \in held')
      /\ \/ arrays'[q] = arrays[q]
         \/ \E h \in Areas : h \in held' \ held /\ h.use = "heap" /\ arrays'[q] = Append(arrays[q], h)
  <2>1. cont.call \notin QueueCalls /\ doing[p].call \in QueueCalls
    BY <1>0, <1>1 DEF QueueCalls, Enqueuing, Dequeuing
  <2>2. /\ \A r \in Queues \ {q} : (r \in usable' <=> r \in usable)
        /\ usable' \subseteq Queues
    BY <1>2, <1>3, <1>4
  <2>3. /\ \A g \in held : g \in held'
        /\ \A r \in Queues \ {q} : arrays'[r] = arrays[r]
        /\ arrays' = [r \in Queues |-> arrays'[r]]
        /\ \/ arrays'[q] = arrays[q]
           \/ \E h \in Areas : h \in held' \ held /\ h.use = "heap" /\ arrays'[q] = Append(arrays[q], h)
    <3>1. Q[q].max \in QueueSizes
      BY <1>4, <1>6 DEF QueueTyped
    <3>. QED
      BY <1>2, <1>3, <3>1, ArrayGiven
  <2>. QED
    BY <1>0, <1>1, <1>2, <1>4, <2>1, <2>2, <2>3 DEF StepOn
<1>9. doing[p].call \notin Enqueuing \cup Dequeuing /\ cont.call \notin Enqueuing \cup Dequeuing
  BY <1>0, <1>1 DEF Enqueuing, Dequeuing
<1>10. /\ MutexHeld(q)' /\ MutexOnly(q) /\ (q \notin raced' => QueueOrdered(q)') /\ QueueTyped(q)'
       /\ InUse(q)' = InUse(q) /\ NoWait(q)' = NoWait(q)
       /\ Past({"enq", "enqCounts", "deq", "deqCounts"}, q)'
            = Past({"enq", "enqCounts", "deq", "deqCounts"}, q)
  BY <1>2, <1>3, <1>8, <1>9, AsideFrom
<1>11. SemsOwned' /\ OthersMutexes(q) /\ Local(QueueCalls, Mutexes \cup Mutexes')
  BY <1>2, <1>3, <1>8, <1>10, MutexOwners
<1>12. doing'[p] = cont /\ \A r \in Procs \ {p} : doing'[r] = doing[r]
  BY <1>2, GoesFrom
<1>13. CallTyped(p)'
  BY <1>0, <1>12 DEF CallTyped, QueueCalls, Enqueuing, Dequeuing
<1>14. /\ Making(q)' = {} /\ Past({"newqKeys"}, q)' = {} /\ Past({"freeq"}, q)' = {}
       /\ Past({"freeq"}, q) = {}
  <2>1. \A r \in Procs : doing[r].call \in {"newqKeys", "freeq"} /\ doing[r].q = q => r = p
    BY <1>6 DEF Making, Past
  <2>. QED
    BY <1>0, <1>1, <1>12, <2>1 DEF Making, Past
<1>15. QueueLive(q)'
  <2>1. q \in usable' => Len(arrays'[q]) = 2
    BY <1>2, <1>6
  <2>2. NoWait(q)' => Past({"enq", "enqCounts", "deq", "deqCounts"}, q)' = {}
    BY <1>4, <1>10 DEF QueueLive
  <2>. QED
    BY <1>2, <1>6, <1>10, <1>14, <2>1, <2>2 DEF QueueLive
<1>16. ArraysHeld'
  <2>1. PICK gone : gone = {}
    OBVIOUS
  <2>2. /\ \A g \in held : g \in held' \/ g \in gone
        /\ \A r \in Queues \ {q} : \A i \in ArraysOf(r) : arrays[r][i] \notin gone
    BY <1>8, <2>1
  <2>3. PICK n : n = Len(arrays[q]) /\ n \in Nat /\ arrays[q] \in Seq(Areas)
    BY <1>3 DEF QueuesInv, ArraysHeld
  <2>4. ArraysOf(q)' = 1..Len(arrays'[q]) /\ ArraysOf(q) = 1..n
    BY <1>14, <2>3 DEF ArraysOf
  <2>5. CASE arrays'[q] = arrays[q]
    <3>1. \A i \in ArraysOf(q)' : i \in ArraysOf(q) /\ arrays'[q][i] = arrays[q][i] /\ arrays[q][i] \notin gone
      BY <2>1, <2>3, <2>4, <2>5
    <3>2. arrays'[q] \in Seq(Areas)
      BY <2>3, <2>5
    <3>. QED
      BY <1>3, <1>8, <2>2, <3>1, <3>2, ArraysMove
  <2>6. CASE \E h \in Areas : h \in held' \ held /\ h.use = "heap" /\ arrays'[q] = Append(arrays[q], h)
    <3>1. PICK h \in Areas : h \in held' \ held /\ h.use = "heap" /\ arrays'[q] = Append(arrays[q], h)
      BY <2>6
    <3>2. /\ arrays'[q] \in Seq(Areas) /\ Len(arrays'[q]) = n + 1 /\ arrays'[q][n + 1] = h
          /\ \A i \in 1..n : arrays'[q][i] = arrays[q][i]
      BY <2>3, <3>1, AppendProperties
    <3>3. \A i \in ArraysOf(q)' : i \in 1..n \/ i = n + 1
      BY <2>3, <2>4, <3>2
    <3>4. \A i \in ArraysOf(q)' :
            \/ i \in ArraysOf(q) /\ arrays'[q][i] = arrays[q][i] /\ arrays[q][i] \notin gone
            \/ /\ arrays'[q][i] \in held' \ held /\ arrays'[q][i].use = "heap"
               /\ \A j \in ArraysOf(q)' : j # i => j \in ArraysOf(q) /\ arrays'[q][j] = arrays[q][j]
      BY <2>1, <2>4, <3>1, <3>2, <3>3
    <3>. QED
      BY <1>3, <1>8, <2>2, <3>2, <3>4, ArraysMove
  <2>. QED
    BY <1>8, <2>5, <2>6
<1>17. BrokenByRaces'
  BY <1>2 DEF BrokenByRaces
<1>18. QueuesInv' /\ TasksTyped'
  <2>1. semaph' \in [Semaphores -> Sems]
    BY <1>10 DEF MutexOnly
  <2>. QED
    BY <1>3, <1>8, <1>10, <1>11, <1>13, <1>15, <1>16, <1>17, <2>1, QueueStep
<1>. QED
  BY <1>11, <1>18

\* freeq() gives the keys back (gpq.c, freeq).
LEMMA freeqKeeps ==
  ASSUME TasksTyped, SemsOwned, QueuesInv, ~broken,
         NEW p \in Procs, NEW q \in usable, freeq(p, q), UNCHANGED pools
  PROVE  QueuesInv' /\ TasksTyped' /\ SemsOwned' /\ Local(QueueCalls, Mutexes \cup Mutexes')
<1>1. PICK cont : cont = [call |-> "freeq", q |-> q]
  OBVIOUS
<1>2. /\ doing[p].call = "idle" /\ ~InUse(q) /\ Freemem(arrays[q][2]) /\ Goes(p, cont)
      /\ usable' = usable \ {q} /\ UNCHANGED <<semaph, Q, arrays, broken, arrived, raced>>
  BY <1>1, CallsIdle DEF freeq
<1>3. cont.call = "freeq" /\ cont.q = q
  BY <1>1
<1>4. /\ q \in Queues /\ Q = [r \in Queues |-> Q[r]] /\ arrays = [r \in Queues |-> arrays[r]]
      /\ arrived = [r \in Queues |-> arrived[r]]
      /\ usable \subseteq Queues /\ raced \subseteq Queues /\ broken \in BOOLEAN
      /\ QueueTyped(q) /\ QueueLive(q)
  BY DEF QueuesInv, QueuesTyped
<1>5. Making(q) = {} /\ Len(arrays[q]) = 2 /\ Q[q].valid
  BY <1>4 DEF QueueLive
<1>6. StepOn(p, q, cont)
  <2>1. cont.call \in QueueCalls /\ doing[p].call \notin QueueCalls
    BY <1>2, <1>3 DEF QueueCalls, Enqueuing, Dequeuing
  <2>2. usable' \subseteq Queues /\ \A r \in Queues \ {q} : r \in usable' <=> r \in usable
    BY <1>2, <1>4
  <2>. QED
    BY <1>2, <1>3, <1>4, <2>1, <2>2 DEF StepOn
<1>7. doing[p].call \notin Enqueuing \cup Dequeuing /\ cont.call \notin Enqueuing \cup Dequeuing
  BY <1>2, <1>3 DEF Enqueuing, Dequeuing
<1>8. /\ MutexHeld(q)' /\ MutexOnly(q) /\ (q \notin raced' => QueueOrdered(q)') /\ QueueTyped(q)'
      /\ InUse(q)' = InUse(q) /\ NoWait(q)' = NoWait(q)
      /\ Past({"enq", "enqCounts", "deq", "deqCounts"}, q)'
           = Past({"enq", "enqCounts", "deq", "deqCounts"}, q)
  BY <1>2, <1>4, <1>6, <1>7, AsideFrom
<1>9. SemsOwned' /\ OthersMutexes(q) /\ Local(QueueCalls, Mutexes \cup Mutexes')
  BY <1>2, <1>4, <1>6, <1>8, MutexOwners
<1>10. doing'[p] = cont /\ \A r \in Procs \ {p} : doing'[r] = doing[r]
  BY <1>2, GoesFrom
<1>11. CallTyped(p)'
  BY <1>3, <1>4, <1>10 DEF CallTyped, Enqueuing, Dequeuing
<1>12. /\ Making(q)' = {p} /\ Past({"newqKeys"}, q)' = {} /\ Past({"freeq"}, q)' = {p}
       /\ Past({"freeq"}, q) = {}
  <2>1. \A r \in Procs : ~(doing[r].call \in {"newqKeys", "freeq"} /\ doing[r].q = q)
    BY <1>5 DEF Making, Past
  <2>. QED
    BY <1>3, <1>10, <2>1 DEF Making, Past
<1>13. QueueLive(q)'
  <2>1. NoWait(q)' => Past({"enq", "enqCounts", "deq", "deqCounts"}, q)' = {}
    BY <1>4, <1>8 DEF QueueLive
  <2>. QED
    BY <1>2, <1>5, <1>8, <1>12, <2>1 DEF QueueLive
<1>14. ArraysHeld'
  <2>1. ArraysOf(q) = {1, 2} /\ ArraysOf(q)' = {1}
    BY <1>5, <1>12 DEF ArraysOf
  <2>2. PICK gone : gone = {arrays[q][2]}
    OBVIOUS
  <2>3. \A g \in held : g \in held' \/ g \in gone
    BY <1>2, <2>2, FreememTakes
  <2>4. \A r \in Queues : \A i \in ArraysOf(r) : arrays[r][i] = arrays[q][2] => r = q /\ i = 2
    BY <1>4, <2>1 DEF QueuesInv, ArraysHeld
  <2>5. \A r \in Queues \ {q} : \A i \in ArraysOf(r) : arrays[r][i] \notin gone
    BY <2>2, <2>4
  <2>6. \A i \in ArraysOf(q)' : i \in ArraysOf(q) /\ arrays'[q][i] = arrays[q][i] /\ arrays[q][i] \notin gone
    BY <1>2, <1>4, <2>1, <2>2, <2>4
  <2>7. arrays'[q] \in Seq(Areas)
    BY <1>2, <1>4 DEF QueuesInv, ArraysHeld
  <2>. QED
    BY <1>4, <1>6, <2>3, <2>5, <2>6, <2>7, ArraysMove
<1>15. BrokenByRaces'
  BY <1>2 DEF BrokenByRaces
<1>16. QueuesInv' /\ TasksTyped'
  <2>1. semaph' \in [Semaphores -> Sems]
    BY <1>8 DEF MutexOnly
  <2>. QED
    BY <1>4, <1>6, <1>8, <1>9, <1>11, <1>13, <1>14, <1>15, <2>1, QueueStep
<1>. QED
  BY <1>9, <1>16

\* freeq() gives the elements and the mutex back (gpq.c, freeq).
LEMMA freeqEndsKeeps ==
  ASSUME TasksTyped, SemsOwned, QueuesInv, ~broken, NEW p \in Procs, freeqEnds(p), UNCHANGED pools
  PROVE  QueuesInv' /\ TasksTyped' /\ SemsOwned' /\ Local(QueueCalls, Mutexes \cup Mutexes')
<1>0. PICK q, cont : q = doing[p].q /\ cont = Idle /\ cont.call = "idle"
  <2>1. Idle.call = "idle"
    BY DEF Idle
  <2>. QED
    BY <2>1
<1>1. doing[p].call = "freeq"
  BY AtStep DEF freeqEnds
<1>2. /\ Freemem(arrays[q][1]) /\ semaph' = (IF NoWait(q) THEN semaph ELSE sdelete(Q[q].mutex))
      /\ Q' = [Q EXCEPT ![q] = NoQueue] /\ arrays' = [arrays EXCEPT ![q] = <<>>]
      /\ arrived' = [arrived EXCEPT ![q] = <<>>] /\ Goes(p, cont)
      /\ UNCHANGED <<broken, usable, raced>>
  BY <1>0 DEF freeqEnds, Returns
<1>3. CallTyped(p) /\ q \in Queues
  BY <1>0, <1>1 DEF QueuesInv, QueuesTyped, CallTyped, QueueCalls
<1>4. /\ Q = [r \in Queues |-> Q[r]] /\ arrays = [r \in Queues |-> arrays[r]]
      /\ arrived = [r \in Queues |-> arrived[r]]
      /\ usable \subseteq Queues /\ raced \subseteq Queues /\ broken \in BOOLEAN
      /\ QueueTyped(q) /\ QueueLive(q)
  BY <1>3 DEF QueuesInv, QueuesTyped
<1>5. p \in Past({"freeq"}, q) /\ p \in Making(q)
  BY <1>0, <1>1 DEF Past, Making
<1>6. /\ Making(q) = {p} /\ Q[q].valid /\ Len(arrays[q]) = 2 /\ q \notin usable /\ ~InUse(q)
      /\ ArraysOf(q) = {1}
  BY <1>4, <1>5 DEF QueueLive, ArraysOf
<1>7. /\ Q'[q] = NoQueue /\ arrays'[q] = <<>> /\ arrived'[q] = <<>>
      /\ \A r \in Queues \ {q} : Q'[r] = Q[r] /\ arrays'[r] = arrays[r] /\ arrived'[r] = arrived[r]
      /\ Q' = [r \in Queues |-> Q'[r]] /\ arrays' = [r \in Queues |-> arrays'[r]]
      /\ arrived' = [r \in Queues |-> arrived'[r]]
  BY <1>2, <1>3, <1>4
<1>8. NoQueue.mutex = SYSERR /\ NoQueue.valid = FALSE /\ NoQueue.max = 0
  BY DEF NoQueue
<1>9. StepOn(p, q, cont)
  <2>1. cont.call \notin QueueCalls /\ doing[p].call \in QueueCalls
    BY <1>0, <1>1 DEF QueueCalls, Enqueuing, Dequeuing
  <2>. QED
    BY <1>0, <1>2, <1>4, <1>7, <2>1 DEF StepOn
<1>10. /\ semaph' \in [Semaphores -> Sems]
       /\ \A t \in Semaphores : t # Q[q].mutex => semaph'[t] = semaph[t]
       /\ Q[q].mutex # SYSERR => semaph'[Q[q].mutex] = Free
  <2>1. semaph \in [Semaphores -> Sems]
    BY DEF TasksTyped, Sems
  <2>2. CASE Q[q].mutex = SYSERR
    <3>1. semaph' = semaph
      BY <1>2, <2>2, Drivers DEF sdelete, Known
    <3>. QED
      BY <2>1, <2>2, <3>1
  <2>3. CASE Q[q].mutex # SYSERR
    <3>1. Known(Q[q].mutex) /\ Q[q].mutex \in Semaphores /\ ~NoWait(q)
      BY <1>3, <2>3, MutexSem
    <3>2. semaph' = [semaph EXCEPT ![Q[q].mutex] = Free]
      BY <1>2, <3>1 DEF sdelete
    <3>3. Free \in Sems
      BY DEF Free, Sems
    <3>. QED
      BY <2>1, <3>1, <3>2, <3>3
  <2>. QED
    BY <2>2, <2>3
<1>11. doing'[p] = cont /\ \A r \in Procs \ {p} : doing'[r] = doing[r]
  BY <1>2, GoesFrom
<1>12. \A r \in Procs : ~(doing'[r].call \in QueueCalls \ {"newq"} /\ doing'[r].q = q)
  <2>1. \A r \in Procs : doing[r].call \in {"newqKeys", "freeq"} /\ doing[r].q = q => r = p
    BY <1>6 DEF Making, Past
  <2>2. \A r \in Procs : ~(doing[r].call \in Enqueuing \cup Dequeuing /\ doing[r].q = q)
    BY <1>6 DEF InUse, Past
  <2>. QED
    BY <1>0, <1>11, <2>1, <2>2 DEF QueueCalls, Enqueuing, Dequeuing
<1>14. /\ Past(Enqueuing, q)' = {} /\ Past(Dequeuing, q)' = {} /\ Past(Enqueuing \cup Dequeuing, q)' = {}
       /\ Making(q)' = {} /\ Past({"newqKeys"}, q)' = {} /\ Past({"freeq"}, q)' = {}
       /\ Past({"enq", "enqCounts", "deq", "deqCounts"}, q)' = {}
  BY <1>12 DEF QueueCalls, Enqueuing, Dequeuing, Making, Past
<1>15. QueueTyped(q)'
  BY <1>7, <1>8 DEF QueueTyped, NoQueue, NoWait
<1>16. QueueLive(q)'
  BY <1>2, <1>6, <1>7, <1>8, <1>14 DEF QueueLive, InUse
<1>17. MutexHeld(q)'
  BY <1>7, <1>8 DEF MutexHeld
<1>18. QueueOrdered(q)'
  BY <1>7, <1>8, <1>14 DEF QueueOrdered
<1>19. CallTyped(p)'
  BY <1>0, <1>11 DEF CallTyped, QueueCalls, Enqueuing, Dequeuing
<1>20. ArraysHeld'
  <2>1. PICK gone : gone = {arrays[q][1]}
    OBVIOUS
  <2>2. \A g \in held : g \in held' \/ g \in gone
    BY <1>2, <2>1, FreememTakes
  <2>3. \A r \in Queues : \A i \in ArraysOf(r) : arrays[r][i] = arrays[q][1] => r = q /\ i = 1
    BY <1>3, <1>6 DEF QueuesInv, ArraysHeld
  <2>4. \A r \in Queues \ {q} : \A i \in ArraysOf(r) : arrays[r][i] \notin gone
    BY <2>1, <2>3
  <2>5. ArraysOf(q)' = {} /\ arrays'[q] \in Seq(Areas)
    <3>1. Len(<<>>) = 0 /\ <<>> \in Seq(Areas)
      OBVIOUS
    <3>. QED
      BY <1>7, <1>14, <3>1 DEF ArraysOf
  <2>. QED
    BY <1>3, <1>9, <2>2, <2>4, <2>5, ArraysMove
<1>21. BrokenByRaces'
  BY <1>2 DEF BrokenByRaces
<1>22. OthersMutexes(q)
  <2>. SUFFICES ASSUME NEW r \in Queues, r # q, Q[r].mutex # SYSERR
                PROVE  semaph'[Q[r].mutex] = semaph[Q[r].mutex]
    BY DEF OthersMutexes
  <2>1. Q[r].mutex \in Semaphores
    BY MutexSem
  <2>2. Q[r].mutex # Q[q].mutex
    BY <1>3 DEF SemsOwned
  <2>. QED
    BY <1>10, <2>1, <2>2
<1>23. QueuesInv' /\ TasksTyped'
  BY <1>3, <1>9, <1>10, <1>15, <1>16, <1>17, <1>18, <1>19, <1>20, <1>21, <1>22, QueueStep
<1>24. Mutexes' = Mutexes \ {Q[q].mutex} /\ PoolSems' = PoolSems /\ bptab' = bptab
  <2>1. Mutexes' = {Q'[r].mutex : r \in Queues} \ {SYSERR}
    BY DEF Mutexes
  <2>2. \A r, t \in Queues : Q[r].mutex = Q[t].mutex /\ Q[r].mutex # SYSERR => r = t
    BY DEF SemsOwned
  <2>3. Mutexes' = Mutexes \ {Q[q].mutex}
    BY <1>3, <1>7, <1>8, <2>1, <2>2 DEF Mutexes
  <2>. QED
    BY <2>3 DEF PoolSems, pools
<1>25. SemsOwned'
  <2>1. \A i, j \in DOMAIN bptab' : bptab'[i].bpsem = bptab'[j].bpsem /\ bptab'[i].bpsem # SYSERR => i = j
    BY <1>24 DEF SemsOwned
  <2>2. \A r, t \in Queues : Q'[r].mutex = Q'[t].mutex /\ Q'[r].mutex # SYSERR => r = t
    <3>1. \A r, t \in Queues : Q[r].mutex = Q[t].mutex /\ Q[r].mutex # SYSERR => r = t
      BY DEF SemsOwned
    <3>. QED
      BY <1>7, <1>8, <3>1
  <2>3. ~Free.used
    BY DEF Free
  <2>4. Q[q].mutex # SYSERR => Q[q].mutex \in Mutexes /\ Q[q].mutex \in Semaphores
    BY <1>3, MutexSem
  <2>5. \A t \in Semaphores : semaph'[t].used <=> t \in PoolSems' \cup Mutexes' \cup {OSEMA, ISEMA}
    <3>1. Q[q].mutex # SYSERR => Q[q].mutex \notin PoolSems \cup {OSEMA, ISEMA}
      BY <2>4 DEF SemsOwned
    <3>. QED
      BY <1>10, <1>24, <2>3, <2>4, <3>1, Drivers DEF SemsOwned
  <2>6. \A t \in Semaphores : ~semaph'[t].used => semaph'[t] = Free
    <3>1. \A t \in Semaphores : ~semaph[t].used => semaph[t] = Free
      BY DEF SemsOwned
    <3>. QED
      BY <1>10, <3>1, Drivers
  <2>7. /\ PoolSems' \cup Mutexes' \subseteq Semaphores /\ PoolSems' \cap Mutexes' = {}
        /\ OSEMA \notin PoolSems' \cup Mutexes' /\ ISEMA \notin PoolSems' \cup Mutexes'
    BY <1>24 DEF SemsOwned
  <2>. QED
    BY <2>1, <2>2, <2>5, <2>6, <2>7 DEF SemsOwned
<1>26. Local(QueueCalls, Mutexes \cup Mutexes')
  <2>1. Q[q].mutex # SYSERR => Q[q].mutex \in Mutexes
    BY <1>3, MutexSem
  <2>2. \A s \in Semaphores : semaph'[s] # semaph[s] => s \in Mutexes \cup Mutexes'
    BY <1>10, <2>1, Drivers
  <2>3. cont.call = "idle" /\ doing[p].call \in QueueCalls
    BY <1>0, <1>1 DEF QueueCalls
  <2>. QED
    BY <1>11, <2>2, <2>3 DEF Local
<1>. QED
  BY <1>23, <1>25, <1>26

-------------------------------------------------------------------------------
(***************************************************************************)
(* All parts together.                                                     *)
(***************************************************************************)
ServicesInv ==
  /\ MemoryInv /\ FreeInRegion /\ TasksTyped /\ SemsOwned
  /\ PoolsInv /\ InputInv /\ OutputInv /\ QueuesInv /\ StacksInv

\* No call is of two parts.
LEMMA CallsApart ==
  /\ "idle" \notin PoolCalls \cup QueueCalls \cup InputCalls \cup OutputCalls
  /\ \A call \in PoolCalls : call \notin QueueCalls \cup InputCalls \cup OutputCalls
  /\ \A call \in QueueCalls : call \notin PoolCalls \cup InputCalls \cup OutputCalls
  /\ \A call \in InputCalls : call \notin PoolCalls \cup QueueCalls \cup OutputCalls
  /\ \A call \in OutputCalls : call \notin PoolCalls \cup QueueCalls \cup InputCalls
BY DEF PoolCalls, QueueCalls, InputCalls, OutputCalls, Enqueuing, Dequeuing

\* And kill() is of none of them.
LEMMA KillApart ==
  ASSUME NEW calls \in {PoolCalls, QueueCalls, InputCalls, OutputCalls}
  PROVE  /\ "idle" \notin {"kill"} /\ \A call \in calls : call \notin {"kill"}
         /\ "idle" \notin calls /\ \A call \in {"kill"} : call \notin calls
BY DEF PoolCalls, QueueCalls, InputCalls, OutputCalls, Enqueuing, Dequeuing

\* A step of another part leaves the processes their stacks.
LEMMA StacksFrame ==
  ASSUME StacksInv, SameCalls({"kill"}), UNCHANGED processes,
         \A h \in held : h.use = "stack" => h \in held'
  PROVE  StacksInv'
<1>1. alive' = alive /\ stack' = stack
  BY DEF processes
<1>2. \A p \in Procs : doing'[p].call = "kill" => doing'[p] = doing[p]
  BY DEF SameCalls
<1>3. \A x : StackGiven(x)' <=> StackGiven(x)
  BY DEF StackGiven, Area, End
<1>4. \A p \in Procs : doing'[p].call = "kill" =>
        /\ doing'[p] = Killing(doing'[p].pid) /\ doing'[p].pid \in Pids
        /\ StackGiven(stack[doing'[p].pid])
  BY <1>2 DEF StacksInv
<1>. QED
  BY <1>1, <1>3, <1>4 DEF StacksInv, Killing

LEMMA StacksAlone ==
  ASSUME StacksInv, UNCHANGED processes,
         NEW calls \in {PoolCalls, QueueCalls, InputCalls, OutputCalls}, NEW sems, Local(calls, sems),
         \A h \in held : h.use = "stack" => h \in held'
  PROVE  StacksInv'
<1>1. SameCalls({"kill"})
  BY KillApart, LocalCalls
<1>. QED
  BY <1>1, StacksFrame

\* A step within the pools is not seen by the other parts.
LEMMA PoolsAlone ==
  ASSUME ServicesInv, SemsOwned', UNCHANGED <<queues, input, output>>,
         NEW sems, Local(PoolCalls, sems), sems \subseteq PoolSems \cup PoolSems',
         \A h \in held : h.use = "heap" => h \in held'
  PROVE  QueuesInv' /\ InputInv' /\ OutputInv'
<1>1. SameCalls(QueueCalls) /\ SameCalls(InputCalls) /\ SameCalls(OutputCalls)
  BY CallsApart, LocalCalls
<1>2. Mutexes' = Mutexes
  BY DEF Mutexes, queues
<1>3. \A s \in Mutexes \cup {ISEMA, OSEMA} : s \in Semaphores /\ s \notin sems
  BY <1>2, Drivers DEF ServicesInv, SemsOwned
<1>4. \A s \in Mutexes \cup {ISEMA, OSEMA} : semaph'[s] = semaph[s]
  BY <1>3 DEF Local
<1>5. QueuesInv'
  BY <1>1, <1>4, QueuesFrame DEF ServicesInv
<1>6. InputInv'
  BY <1>1, <1>4, InputFrame DEF ServicesInv
<1>7. OutputInv'
  BY <1>1, <1>4, OutputFrame DEF ServicesInv
<1>. QED
  BY <1>5, <1>6, <1>7

\* Nor is one within the queues.
LEMMA QueuesAlone ==
  ASSUME ServicesInv, SemsOwned', UNCHANGED <<pools, input, output>>,
         Local(QueueCalls, Mutexes \cup Mutexes')
  PROVE  PoolsInv' /\ InputInv' /\ OutputInv'
<1>1. SameCalls(PoolCalls) /\ SameCalls(InputCalls) /\ SameCalls(OutputCalls)
  BY CallsApart, LocalCalls
<1>2. PoolSems' = PoolSems
  BY DEF PoolSems, pools
<1>3. \A s \in PoolSems \cup {ISEMA, OSEMA} : s \in Semaphores /\ s \notin Mutexes \cup Mutexes'
  BY <1>2, Drivers DEF ServicesInv, SemsOwned
<1>4. \A s \in PoolSems \cup {ISEMA, OSEMA} : semaph'[s] = semaph[s]
  BY <1>3 DEF Local
<1>5. PoolsInv'
  BY <1>1, <1>4, PoolsFrame DEF ServicesInv
<1>6. InputInv'
  BY <1>1, <1>4, InputFrame DEF ServicesInv
<1>7. OutputInv'
  BY <1>1, <1>4, OutputFrame DEF ServicesInv
<1>. QED
  BY <1>5, <1>6, <1>7

\* Nor one of the console.
LEMMA ConsoleAlone ==
  ASSUME ServicesInv, UNCHANGED lent,
         NEW calls \in {InputCalls, OutputCalls}, NEW sema \in {ISEMA, OSEMA}, Local(calls, {sema})
  PROVE  /\ PoolsInv' /\ QueuesInv' /\ MemoryInv' /\ FreeInRegion' /\ StacksInv'
         /\ calls = InputCalls /\ sema = ISEMA /\ UNCHANGED output => OutputInv'
         /\ calls = OutputCalls /\ sema = OSEMA /\ UNCHANGED input => InputInv'
<1>1. SameCalls(PoolCalls) /\ SameCalls(QueueCalls)
  BY CallsApart, LocalCalls
<1>2. \A s \in PoolSems \cup Mutexes : s \in Semaphores /\ s \notin {sema}
  BY Drivers DEF ServicesInv, SemsOwned
<1>3. \A s \in PoolSems \cup Mutexes : semaph'[s] = semaph[s]
  BY <1>2 DEF Local
<1>4. PoolsInv'
  BY <1>1, <1>3, PoolsFrame DEF ServicesInv, lent
<1>5. QueuesInv'
  BY <1>1, <1>3, QueuesFrame DEF ServicesInv, lent, memory
<1>6. MemoryInv'
  BY DEF ServicesInv, lent, memory, MemoryInv, TypeOK, MemoryApart, AllEven, Odd, Even, InRegion,
         Within
<1>9. FreeInRegion'
  BY DEF ServicesInv, lent, memory, FreeInRegion, InRegion, Within
<1>10. StacksInv'
  BY StacksAlone DEF ServicesInv, lent, memory
<1>7. ASSUME calls = InputCalls, sema = ISEMA, UNCHANGED output PROVE OutputInv'
  <2>1. SameCalls(OutputCalls)
    BY <1>7, CallsApart, LocalCalls
  <2>2. semaph'[OSEMA] = semaph[OSEMA]
    BY <1>7, Drivers DEF Local
  <2>. QED
    BY <1>7, <2>1, <2>2, OutputFrame DEF ServicesInv
<1>8. ASSUME calls = OutputCalls, sema = OSEMA, UNCHANGED input PROVE InputInv'
  <2>1. SameCalls(InputCalls)
    BY <1>8, CallsApart, LocalCalls
  <2>2. semaph'[ISEMA] = semaph[ISEMA]
    BY <1>8, Drivers DEF Local
  <2>. QED
    BY <1>8, <2>1, <2>2, InputFrame DEF ServicesInv
<1>. QED
  BY <1>4, <1>5, <1>6, <1>7, <1>8, <1>9, <1>10

\* create() asks for a stack of a size that is rounded already.
LEMMA RoundedTwice ==
  ASSUME NEW n \in Nat \ {0}
  PROVE  roundew(roundew(n)) = roundew(n)
<1>1. PICK m \in Nat : m = roundew(n) /\ m % 4 = 0
  BY RoundUp
<1>2. ((3 + m) \div 4) * 4 = m
  BY <1>1
<1>. QED
  BY <1>1, <1>2 DEF roundew

\* Memory is asked for as Memory expects it: by mkpool() and newq(), ...
LEMMA GetmemUsesWell ==
  ASSUME ~strayed, NEW n,
         \/ \E bufsiz \in BufferSizes, numbufs \in BufferCounts : n = (bufsiz + Word) * numbufs
         \/ \E size \in QueueSizes : n = 4 * size,
         Getmem(n, "heap")
  PROVE  MemoryNext
<1>1. n \in Sizes
  BY AskedAssumption
<1>. QED
  BY <1>1 DEF MemoryNext

\* ... for the arrays of a queue, ...
LEMMA ArrayUsesWell ==
  ASSUME ~strayed, NEW q, NEW size \in QueueSizes, Array(q, size)
  PROVE  MemoryNext \/ UNCHANGED memory
<1>1. CASE Getmem(4 * size, "heap")
  BY <1>1, GetmemUsesWell
<1>2. CASE UNCHANGED memory
  BY <1>2
<1>. QED
  BY <1>1, <1>2 DEF Array

\* ... and by create().
LEMMA CreateUsesWell ==
  ASSUME ~strayed, NEW ssize \in StackSizes, NEW use \in {"stack", "leaked"},
         Getstk(roundew(ssize), use)
  PROVE  Getstk(ssize, use) /\ MemoryNext
<1>1. roundew(roundew(ssize)) = roundew(ssize)
  BY RoundedTwice, SizesAssumption
<1>2. Getstk(ssize, use)
  BY <1>1 DEF Getstk
<1>. QED
  BY <1>2 DEF MemoryNext

\* A process that dies gives its stack back, or is dead already: then its stack is
\* refused, or put on the list again.
LEMMA DiesUsesWell ==
  ASSUME ~strayed, StacksInv, NEW pid \in Pids,
         pid \in alive \/ StackGiven(stack[pid]), Dies(pid)
  PROVE  MemoryNext \/ UNCHANGED memory
<1>1. CASE pid \in alive /\ Freestk(stack[pid])
  <2>1. stack[pid] \in held /\ stack[pid].use = "stack"
    BY <1>1 DEF StacksInv
  <2>. QED
    BY <1>1, <2>1 DEF MemoryNext
<1>2. CASE pid \notin alive /\ FreestkAgain(stack[pid])
  <2>1. PICK r \in Regions, n \in StackSizes :
          \E at \in r.at..End(r) : stack[pid] = Area(at, roundew(n), "stack")
    BY <1>2 DEF StackGiven
  <2>2. PICK at \in r.at..End(r) : stack[pid] = Area(at, roundew(n), "stack")
    BY <2>1
  <2>3. FreestkAgain(Area(at, roundew(n), "stack"))
    BY <1>2, <2>2
  <2>. QED
    BY <2>3 DEF MemoryNext
<1>3. CASE UNCHANGED memory
  BY <1>3
<1>. QED
  BY <1>1, <1>2, <1>3 DEF Dies

\* Who is killed had a slot.
LEMMA VictimKnown ==
  ASSUME StacksInv, NEW p \in Procs, killEnds(p)
  PROVE  /\ doing[p].call = "kill" /\ doing[p].pid \in Pids /\ StackGiven(stack[doing[p].pid])
         /\ Goes(p, Idle) /\ Dies(doing[p].pid)
BY DEF killEnds, At, Returns, StacksInv

\* So processes use memory well.
LEMMA ProcessesUseWell ==
  ASSUME ~strayed, StacksInv, ProcessesNext
  PROVE  MemoryNext \/ UNCHANGED memory
<1>1. ASSUME NEW ssize \in StackSizes, create(ssize) PROVE MemoryNext
  <2>1. PICK use \in {"stack", "leaked"} : Getstk(roundew(ssize), use)
    BY <1>1 DEF create
  <2>. QED
    BY <2>1, CreateUsesWell
<1>2. ASSUME NEW pid \in alive, suicide(pid) PROVE MemoryNext \/ UNCHANGED memory
  <2>1. pid \in Pids /\ Dies(pid)
    BY <1>2 DEF StacksInv, suicide
  <2>. QED
    BY <2>1, DiesUsesWell
<1>3. ASSUME NEW p \in Procs, NEW pid \in alive, kill(p, pid) PROVE UNCHANGED memory
  BY <1>3 DEF kill
<1>4. ASSUME NEW p \in Procs, killEnds(p) PROVE MemoryNext \/ UNCHANGED memory
  <2>. DEFINE pid == doing[p].pid
  <2>1. pid \in Pids /\ StackGiven(stack[pid]) /\ Dies(pid)
    BY <1>4, VictimKnown
  <2>. HIDE DEF pid
  <2>. QED
    BY <2>1, DiesUsesWell
<1>. QED
  BY <1>1, <1>2, <1>3, <1>4 DEF ProcessesNext

\* freeq() gives back the arrays that newq() was given, one in each of its steps.
LEMMA FreeqGives ==
  ASSUME QueuesInv, NEW p \in Procs, (\E q \in usable : freeq(p, q)) \/ freeqEnds(p)
  PROVE  \E h \in held : h.use = "heap" /\ Freemem(h)
<1>1. ASSUME NEW q \in usable, freeq(p, q) PROVE \E h \in held : h.use = "heap" /\ Freemem(h)
  <2>1. q \in Queues
    BY DEF QueuesInv, QueuesTyped
  <2>2. Past({"freeq"}, q) = {} /\ Len(arrays[q]) = 2
    BY <2>1 DEF QueuesInv, QueueLive, Making, Past
  <2>3. 2 \in ArraysOf(q)
    BY <2>2 DEF ArraysOf
  <2>4. arrays[q][2] \in held /\ arrays[q][2].use = "heap"
    BY <2>1, <2>3 DEF QueuesInv, ArraysHeld
  <2>. QED
    BY <1>1, <2>4 DEF freeq
<1>2. CASE freeqEnds(p)
  <2>1. doing[p].call = "freeq" /\ Freemem(arrays[doing[p].q][1])
    BY <1>2 DEF freeqEnds, At
  <2>2. PICK q \in Queues : q = doing[p].q
    BY <2>1 DEF QueuesInv, QueuesTyped, CallTyped, QueueCalls
  <2>3. 1 \in ArraysOf(q)
    BY <2>1, <2>2 DEF ArraysOf, Past
  <2>4. arrays[q][1] \in held /\ arrays[q][1].use = "heap"
    BY <2>3 DEF QueuesInv, ArraysHeld
  <2>. QED
    BY <2>1, <2>2, <2>4
<1>. QED
  BY <1>1, <1>2

\* Pools, queues and processes use memory as Memory expects it.
LEMMA LentUsesWell ==
  ASSUME ServicesInv, LentNext
  PROVE  [MemoryNext]_memory
<1>0. ~strayed /\ QueuesInv /\ StacksInv
  BY DEF LentNext, ServicesInv
<1>1. ASSUME NEW p \in Procs, PoolsNext(p) PROVE [MemoryNext]_memory
  <2>1. ASSUME NEW bufsiz \in BufferSizes, NEW numbufs \in BufferCounts, mkpool(p, bufsiz, numbufs)
        PROVE  MemoryNext
    <3>1. Getmem((bufsiz + Word) * numbufs, "heap")
      BY <2>1 DEF mkpool
    <3>. QED
      BY <1>0, <3>1, GetmemUsesWell
  <2>. QED
    BY <1>1, <2>1 DEF PoolsNext
<1>2. ASSUME NEW p \in Procs, QueuesNext(p) PROVE [MemoryNext]_memory
  <2>1. CASE newqFills(p)
    <3>1. doing[p].call = "newq"
      BY <2>1 DEF newqFills, At
    <3>2. doing[p].size \in QueueSizes
      BY <1>0, <3>1 DEF QueuesInv, QueuesTyped, CallTyped
    <3>3. UNCHANGED memory \/ Array(doing[p].q, doing[p].size)
      BY <2>1 DEF newqFills
    <3>. QED
      BY <1>0, <3>2, <3>3, ArrayUsesWell
  <2>2. CASE newqKeys(p)
    <3>1. doing[p].call = "newqKeys" /\ Array(doing[p].q, Q[doing[p].q].max)
      BY <2>2 DEF newqKeys, At
    <3>2. PICK q \in Queues : q = doing[p].q
      BY <1>0, <3>1 DEF QueuesInv, QueuesTyped, CallTyped, QueueCalls
    <3>3. Making(q) # {}
      BY <3>1, <3>2 DEF Making, Past
    <3>4. Q[q].max \in QueueSizes
      BY <1>0, <3>3 DEF QueuesInv, QueuesTyped, QueueTyped, QueueLive
    <3>. QED
      BY <1>0, <3>1, <3>2, <3>4, ArrayUsesWell
  <2>3. CASE (\E q \in usable : freeq(p, q)) \/ freeqEnds(p)
    <3>1. \E h \in held : h.use = "heap" /\ Freemem(h)
      BY <1>0, <2>3, FreeqGives
    <3>. QED
      BY <1>0, <3>1 DEF MemoryNext
  <2>4. ASSUME NEW size \in QueueSizes, NEW type \in QueueTypes, newq(p, size, type)
        PROVE  UNCHANGED memory
    BY <2>4 DEF newq
  <2>. QED
    BY <1>2, <2>1, <2>2, <2>3, <2>4 DEF QueuesNext
<1>3. CASE ProcessesNext
  BY <1>0, <1>3, ProcessesUseWell
<1>. QED
  BY <1>1, <1>2, <1>3 DEF LentNext

\* The parts' own steps, one after the other: the pools, ...
LEMMA PoolsNextKeeps ==
  ASSUME ServicesInv, ~strayed, NEW p \in Procs, PoolsNext(p),
         UNCHANGED <<queues, processes, input, output>>
  PROVE  /\ PoolsInv' /\ QueuesInv' /\ InputInv' /\ OutputInv' /\ TasksTyped' /\ SemsOwned'
         /\ StacksInv'
<1>1. TasksTyped /\ SemsOwned /\ PoolsInv /\ MemoryInv
  BY DEF ServicesInv
<1>2. CASE \E bufsiz \in BufferSizes, numbufs \in BufferCounts : mkpool(p, bufsiz, numbufs)
  <2>1. PoolsInv' /\ TasksTyped' /\ SemsOwned' /\ Local(PoolCalls, PoolSems \cup PoolSems')
    BY <1>1, <1>2, mkpoolKeeps
  <2>2. \A h \in held : h \in held'
    BY <1>2 DEF mkpool, Getmem
  <2>. QED
    BY <2>1, <2>2, PoolsAlone, StacksAlone DEF ServicesInv
<1>3. ASSUME UNCHANGED memory,
             \/ \E pool \in DOMAIN bptab : getbuf(p, pool) \/ nbgetbuf(p, pool)
             \/ getbufTakes(p)
             \/ \E buf \in buffers[p] : freebuf(p, buf)
             \/ freebufSignals(p)
      PROVE  /\ PoolsInv' /\ QueuesInv' /\ InputInv' /\ OutputInv' /\ TasksTyped' /\ SemsOwned'
             /\ StacksInv'
  <2>1. PoolsInv' /\ TasksTyped' /\ SemsOwned' /\ Local(PoolCalls, PoolSems)
    BY <1>1, <1>3, getbufKeeps, nbgetbufKeeps, getbufTakesKeeps, freebufKeeps, freebufSignalsKeeps
  <2>2. \A h \in held : h \in held'
    BY <1>3 DEF memory
  <2>. QED
    BY <2>1, <2>2, PoolsAlone, StacksAlone DEF ServicesInv
<1>. QED
  BY <1>2, <1>3 DEF PoolsNext

\* ... the queues, ...
LEMMA QueuesNextKeeps ==
  ASSUME ServicesInv, ~strayed, ~broken, NEW p \in Procs, QueuesNext(p),
         UNCHANGED <<pools, processes, input, output>>
  PROVE  /\ PoolsInv' /\ QueuesInv' /\ InputInv' /\ OutputInv' /\ TasksTyped' /\ SemsOwned'
         /\ StacksInv'
<1>1. TasksTyped /\ SemsOwned /\ QueuesInv /\ MemoryInv
  BY DEF ServicesInv
<1>2. usable \subseteq Queues
  BY <1>1 DEF QueuesInv, QueuesTyped
<1>10. \A h \in held : h.use = "stack" => h \in held'
  <2>1. CASE UNCHANGED memory
    BY <2>1 DEF memory
  <2>2. CASE \E n : Getmem(n, "heap")
    BY <2>2 DEF Getmem
  <2>3. CASE \E h \in held : h.use = "heap" /\ Freemem(h)
    BY <2>3, FreememTakes
  <2>4. CASE (\E q \in usable : freeq(p, q)) \/ freeqEnds(p)
    BY <1>1, <2>3, <2>4, FreeqGives
  <2>5. CASE newqFills(p) \/ newqKeys(p)
    BY <2>1, <2>2, <2>5 DEF newqFills, newqKeys, Array
  <2>6. CASE \E size \in QueueSizes, type \in QueueTypes : newq(p, size, type)
    BY <2>1, <2>6 DEF newq
  <2>. QED
    BY <2>1, <2>4, <2>5, <2>6 DEF QueuesNext
<1>. SUFFICES QueuesInv' /\ TasksTyped' /\ SemsOwned' /\ Local(QueueCalls, Mutexes \cup Mutexes')
  BY <1>10, QueuesAlone, StacksAlone DEF ServicesInv
<1>3. ASSUME UNCHANGED memory, NEW q \in usable, NEW elt \in Elements, NEW key \in Keys,
             \A r \in Queues : \A i \in DOMAIN arrived[r] : arrived[r][i].elt # elt,
             enq(p, q, elt, key)
      PROVE  QueuesInv' /\ TasksTyped' /\ SemsOwned' /\ Local(QueueCalls, Mutexes \cup Mutexes')
  <2>1. \A i \in DOMAIN arrived[q] : arrived[q][i].elt # elt
    BY <1>2, <1>3
  <2>. QED
    BY <1>1, <1>3, <2>1, enqKeeps
<1>4. ASSUME UNCHANGED memory, NEW q \in usable, deq(p, q)
      PROVE  QueuesInv' /\ TasksTyped' /\ SemsOwned' /\ Local(QueueCalls, Mutexes \cup Mutexes')
  BY <1>1, <1>4, deqKeeps
<1>5. ASSUME UNCHANGED memory, enqWaits(p) \/ enqPlaces(p) \/ enqCounts(p)
                               \/ deqWaits(p) \/ deqShifts(p) \/ deqCounts(p)
      PROVE  QueuesInv' /\ TasksTyped' /\ SemsOwned' /\ Local(QueueCalls, Mutexes \cup Mutexes')
  BY <1>1, <1>5, useWaits, enqPlacesKeeps, enqCountsKeeps, deqShiftsKeeps, deqCountsKeeps
<1>6. ASSUME NEW size \in QueueSizes, NEW type \in QueueTypes, newq(p, size, type)
      PROVE  QueuesInv' /\ TasksTyped' /\ SemsOwned' /\ Local(QueueCalls, Mutexes \cup Mutexes')
  BY <1>1, <1>6, newqKeeps
<1>7. CASE newqFills(p)
  BY <1>1, <1>7, newqFindsTaken, newqFillsKeeps
<1>8. CASE newqKeys(p)
  BY <1>1, <1>8, newqKeysKeeps
<1>9. CASE (\E q \in usable : freeq(p, q)) \/ freeqEnds(p)
  BY <1>1, <1>9, freeqKeeps, freeqEndsKeeps
<1>. QED
  BY <1>3, <1>4, <1>5, <1>6, <1>7, <1>8, <1>9 DEF QueuesNext

\* ... and the stacks of processes, which are no memory of pools and queues: create(), ...
LEMMA createKeeps ==
  ASSUME ServicesInv, ~strayed, NEW ssize \in StackSizes, create(ssize), UNCHANGED doing
  PROVE  StacksInv' /\ \A h \in held : h \in held'
<1>. DEFINE size == roundew(ssize)
<1>0. size \in Nat \ {0}
  BY SizesAssumption, RoundUp
<1>1. ASSUME NEW use \in {"stack", "leaked"}, Getstk(roundew(ssize), use)
      PROVE  \E b \in memlist : held' = held \cup {Area(End(b) - size, size, use)} /\ b.len >= size
  <2>1. Getstk(ssize, use)
    BY <1>1, CreateUsesWell
  <2>. QED
    BY <2>1 DEF Getstk, LastFit
<1>2. CASE \E pid \in Pids \ alive, h \in held' \ held :
             /\ Getstk(roundew(ssize), "stack")
             /\ alive' = alive \cup {pid} /\ stack' = [stack EXCEPT ![pid] = h]
  <2>1. PICK pid \in Pids \ alive, h \in held' \ held :
             /\ Getstk(roundew(ssize), "stack")
             /\ alive' = alive \cup {pid} /\ stack' = [stack EXCEPT ![pid] = h]
    BY <1>2
  <2>2. PICK b \in memlist : held' = held \cup {Area(End(b) - size, size, "stack")} /\ b.len >= size
    BY <1>1, <2>1
  <2>3. h = Area(End(b) - size, size, "stack") /\ h.use = "stack"
    BY <2>2 DEF Area
  <2>4. PICK r \in Regions : Within(b, r)
    BY DEF ServicesInv, FreeInRegion, InRegion
  <2>5. /\ b.at \in Nat /\ b.len \in Nat /\ r.at \in Nat /\ r.len \in Nat
        /\ End(b) = b.at + b.len /\ End(r) = r.at + r.len
    BY RegionsAssumption DEF ServicesInv, MemoryInv, TypeOK, Blocks, End
  <2>. HIDE DEF size
  <2>6. End(b) - size \in r.at..End(r)
    BY <1>0, <2>2, <2>4, <2>5 DEF Within
  <2>7. StackGiven(h)
    BY <2>3, <2>6 DEF StackGiven, size
  <2>8. stack' = [x \in Pids |-> IF x = pid THEN h ELSE stack[x]]
    BY <2>1 DEF ServicesInv, StacksInv
  <2>9. \A a \in alive : a \in Pids /\ a # pid /\ stack[a] # h /\ stack'[a] = stack[a]
    BY <2>8 DEF ServicesInv, StacksInv
  <2>10. stack'[pid] = h /\ h \in held' /\ \A g \in held : g \in held'
    BY <2>2, <2>8
  <2>11. \A x \in Pids : StackGiven(stack[x]) => StackGiven(stack'[x])
    BY <2>7, <2>8
  <2>. HIDE DEF StackGiven
  <2>12. \A a \in alive' : stack'[a] \in held' /\ stack'[a].use = "stack" /\ StackGiven(stack'[a])
    BY <2>1, <2>3, <2>7, <2>9, <2>10 DEF ServicesInv, StacksInv
  <2>13. \A a, c \in alive' : stack'[a] = stack'[c] => a = c
    BY <2>1, <2>9, <2>10 DEF ServicesInv, StacksInv
  <2>14. \A p \in Procs : doing'[p].call = "kill" =>
           /\ doing'[p] = Killing(doing'[p].pid) /\ doing'[p].pid \in Pids
           /\ StackGiven(stack'[doing'[p].pid])
    BY <2>11 DEF ServicesInv, StacksInv
  <2>15. alive' \subseteq Pids /\ stack' = [x \in Pids |-> stack'[x]]
    BY <2>1, <2>8 DEF ServicesInv, StacksInv
  <2>16. \A x : StackGiven(x)' <=> StackGiven(x)
    BY DEF StackGiven, Area, End
  <2>. QED
    BY <2>10, <2>12, <2>13, <2>14, <2>15, <2>16 DEF StacksInv, Killing
<1>3. CASE Getstk(roundew(ssize), "leaked") /\ UNCHANGED processes
  <2>1. \A h \in held : h \in held'
    BY <1>1, <1>3
  <2>2. SameCalls({"kill"})
    BY DEF SameCalls
  <2>. QED
    BY <1>3, <2>1, <2>2, StacksFrame DEF ServicesInv
<1>. QED
  BY <1>2, <1>3 DEF create

\* ... a process that dies, ...
LEMMA DiesKeeps ==
  ASSUME StacksInv, NEW pid \in Pids, Dies(pid),
         \A p \in Procs : doing'[p].call = "kill" => doing'[p] = doing[p]
  PROVE  StacksInv' /\ \A h \in held : h.use = "heap" => h \in held'
<1>1. /\ alive' = alive \ {pid}
      /\ \/ stack' = stack
         \/ stack' = [stack EXCEPT ![pid] = NOTHING]
            /\ \A p \in Procs : doing'[p] # Killing(pid)
  BY DEF Dies
<1>2. \A h \in held : h \in held' \/ (pid \in alive /\ h = stack[pid])
  <2>1. CASE pid \in alive /\ Freestk(stack[pid])
    BY <2>1 DEF Freestk, GiveBack, Lose
  <2>2. CASE FreestkAgain(stack[pid])
    BY <2>2 DEF FreestkAgain
  <2>3. CASE UNCHANGED memory
    BY <2>3 DEF memory
  <2>. QED
    BY <2>1, <2>2, <2>3 DEF Dies
<1>3. \A a \in alive : a \in Pids /\ stack[a] \in held /\ stack[a].use = "stack" /\ StackGiven(stack[a])
  BY DEF StacksInv
<1>4. stack' = [x \in Pids |-> stack'[x]] /\ \A x \in Pids \ {pid} : stack'[x] = stack[x]
  BY <1>1 DEF StacksInv
<1>5. \A a \in alive' : a \in alive /\ a # pid /\ stack'[a] = stack[a] /\ stack[a] \in held'
  <2>1. \A a \in alive : a # pid /\ pid \in alive => stack[a] # stack[pid]
    BY DEF StacksInv
  <2>. QED
    BY <1>1, <1>2, <1>3, <1>4, <2>1
<1>6. \A p \in Procs : doing'[p].call = "kill" =>
        /\ doing'[p] = Killing(doing'[p].pid) /\ doing'[p].pid \in Pids
        /\ StackGiven(stack[doing'[p].pid]) /\ stack'[doing'[p].pid] = stack[doing'[p].pid]
  BY <1>1, <1>4 DEF StacksInv
<1>7. \A x : StackGiven(x)' <=> StackGiven(x)
  BY DEF StackGiven, Area, End
<1>8. \A h \in held : h.use = "heap" => h \in held'
  BY <1>2, <1>3
<1>9. \A a, b \in alive' : stack'[a] = stack'[b] => a = b
  BY <1>5 DEF StacksInv
<1>10. \A a \in alive' : stack'[a] \in held' /\ stack'[a].use = "stack" /\ StackGiven(stack'[a])
  BY <1>3, <1>5
<1>11. \A p \in Procs : doing'[p].call = "kill" => StackGiven(stack'[doing'[p].pid])
  BY <1>6
<1>. QED
  BY <1>1, <1>3, <1>4, <1>6, <1>7, <1>8, <1>9, <1>10, <1>11 DEF StacksInv, Killing

\* ... and a killer.
LEMMA killKeeps ==
  ASSUME ServicesInv, NEW p \in Procs, NEW pid \in alive, kill(p, pid)
  PROVE  StacksInv' /\ UNCHANGED memory /\ Goes(p, Killing(pid)) /\ doing[p].call = "idle"
<1>1. UNCHANGED <<memory, processes>> /\ Goes(p, Killing(pid)) /\ doing[p].call = "idle"
  BY CallsIdle DEF kill
<1>2. doing'[p] = Killing(pid) /\ \A q \in Procs \ {p} : doing'[q] = doing[q]
  BY <1>1, GoesFrom DEF ServicesInv
<1>3. Killing(pid).pid = pid /\ pid \in Pids /\ StackGiven(stack[pid])
  BY DEF Killing, ServicesInv, StacksInv
<1>4. alive' = alive /\ stack' = stack /\ held' = held
  BY <1>1 DEF processes, memory
<1>5. \A q \in Procs : doing'[q].call = "kill" =>
        /\ doing'[q] = Killing(doing'[q].pid) /\ doing'[q].pid \in Pids
        /\ StackGiven(stack[doing'[q].pid])
  BY <1>2, <1>3 DEF ServicesInv, StacksInv
<1>6. StacksInv'
  <2>1. \A x : StackGiven(x)' <=> StackGiven(x)
    BY DEF StackGiven, Area, End
  <2>. QED
    BY <1>4, <1>5, <2>1 DEF ServicesInv, StacksInv, Killing
<1>. QED
  BY <1>1, <1>6

\* A killer alone moves.
LEMMA KillerMoves ==
  ASSUME TasksTyped, NEW p \in Procs, NEW cont, Goes(p, cont), UNCHANGED semaph,
         doing[p].call \in {"idle", "kill"}, cont.call \in {"idle", "kill"}
  PROVE  doing' = [q \in Procs |-> doing'[q]] /\ Local({"kill"}, {})
<1>1. /\ doing' = [q \in Procs |-> doing'[q]] /\ doing'[p] = cont
      /\ \A q \in Procs \ {p} : doing'[q] = doing[q]
  BY GoesFrom
<1>. QED
  BY <1>1 DEF Local

LEMMA ProcessesMove ==
  ASSUME ServicesInv, ~strayed, ProcessesNext
  PROVE  /\ StacksInv' /\ \A h \in held : h.use = "heap" => h \in held'
         /\ doing' = [q \in Procs |-> doing'[q]] /\ semaph' = semaph /\ Local({"kill"}, {})
<1>0. semaph' = semaph /\ TasksTyped /\ StacksInv
  BY DEF ProcessesNext, ServicesInv
<1>1. UNCHANGED doing => doing' = [q \in Procs |-> doing'[q]] /\ Local({"kill"}, {})
  BY <1>0 DEF TasksTyped, Local
<1>2. ASSUME NEW ssize \in StackSizes, create(ssize), UNCHANGED doing
      PROVE  StacksInv' /\ \A h \in held : h.use = "heap" => h \in held'
  BY <1>2, createKeeps
<1>3. ASSUME NEW pid \in alive, suicide(pid)
      PROVE  UNCHANGED doing /\ StacksInv' /\ \A h \in held : h.use = "heap" => h \in held'
  <2>1. pid \in Pids /\ Dies(pid) /\ UNCHANGED doing
    BY <1>0, <1>3 DEF StacksInv, suicide
  <2>. QED
    BY <1>0, <2>1, DiesKeeps
<1>4. ASSUME NEW p \in Procs, NEW pid \in alive, kill(p, pid)
      PROVE  /\ StacksInv' /\ \A h \in held : h \in held'
             /\ doing' = [q \in Procs |-> doing'[q]] /\ Local({"kill"}, {})
  <2>1. StacksInv' /\ UNCHANGED memory /\ Goes(p, Killing(pid)) /\ doing[p].call = "idle"
    BY <1>4, killKeeps
  <2>. DEFINE cont == Killing(pid)
  <2>2. cont.call \in {"idle", "kill"} /\ Goes(p, cont) /\ doing[p].call \in {"idle", "kill"}
    BY <2>1 DEF Killing
  <2>. HIDE DEF cont
  <2>. QED
    BY <1>0, <2>1, <2>2, KillerMoves DEF memory
<1>5. ASSUME NEW p \in Procs, killEnds(p)
      PROVE  /\ StacksInv' /\ \A h \in held : h.use = "heap" => h \in held'
             /\ doing' = [q \in Procs |-> doing'[q]] /\ Local({"kill"}, {})
  <2>. DEFINE pid == doing[p].pid
  <2>1. doing[p].call = "kill" /\ pid \in Pids /\ Goes(p, Idle) /\ Dies(pid)
    BY <1>0, <1>5, VictimKnown
  <2>. HIDE DEF pid
  <2>2. Idle.call = "idle"
    BY DEF Idle
  <2>3. doing' = [q \in Procs |-> doing'[q]] /\ Local({"kill"}, {})
    BY <1>0, <2>1, <2>2, KillerMoves
  <2>4. doing'[p] = Idle /\ \A q \in Procs \ {p} : doing'[q] = doing[q]
    BY <1>0, <2>1, GoesFrom
  <2>5. \A q \in Procs : doing'[q].call = "kill" => doing'[q] = doing[q]
    BY <2>2, <2>4
  <2>. QED
    BY <1>0, <2>1, <2>3, <2>5, DiesKeeps
<1>. QED
  BY <1>0, <1>1, <1>2, <1>3, <1>4, <1>5 DEF ProcessesNext

LEMMA StacksKeep ==
  ASSUME ServicesInv, ~strayed, ProcessesNext, UNCHANGED <<pools, queues, input, output>>
  PROVE  /\ PoolsInv' /\ QueuesInv' /\ InputInv' /\ OutputInv' /\ TasksTyped' /\ SemsOwned'
         /\ StacksInv'
<1>1. /\ StacksInv' /\ \A h \in held : h.use = "heap" => h \in held'
      /\ doing' = [q \in Procs |-> doing'[q]] /\ semaph' = semaph /\ Local({"kill"}, {})
  BY ProcessesMove
<1>2. TasksTyped'
  BY <1>1 DEF ServicesInv, TasksTyped
<1>3. SemsOwned'
  BY <1>1, OwnersKept DEF ServicesInv, pools, queues
<1>4. /\ SameCalls(PoolCalls) /\ SameCalls(QueueCalls)
      /\ SameCalls(InputCalls) /\ SameCalls(OutputCalls)
  BY <1>1, KillApart, LocalCalls
<1>5. PoolsInv' /\ QueuesInv'
  BY <1>1, <1>4, PoolsFrame, QueuesFrame DEF ServicesInv
<1>6. InputInv' /\ OutputInv'
  BY <1>1, <1>4, InputFrame, OutputFrame DEF ServicesInv
<1>. QED
  BY <1>1, <1>2, <1>3, <1>5, <1>6

\* Whatever is lent, the invariant stays.
LEMMA LentKeeps ==
  ASSUME ServicesInv, LentNext
  PROVE  ServicesInv'
<1>1. MemoryInv'
  BY LentUsesWell, MemoryKeeps DEF ServicesInv
<1>2. PoolsInv' /\ QueuesInv' /\ InputInv' /\ OutputInv' /\ TasksTyped' /\ SemsOwned' /\ StacksInv'
  BY PoolsNextKeeps, QueuesNextKeeps, StacksKeep DEF LentNext
<1>3. FreeInRegion'
  BY LentUsesWell, FreeInRegionKeeps DEF ServicesInv
<1>. QED
  BY <1>1, <1>2, <1>3 DEF ServicesInv

\* Whatever is typed and read, too, ...
LEMMA InputKeeps ==
  ASSUME ServicesInv, TypedNext
  PROVE  ServicesInv'
<1>1. TasksTyped /\ SemsOwned /\ InputInv /\ UNCHANGED lent /\ UNCHANGED output
  BY DEF ServicesInv, TypedNext
<1>2. ASSUME InputInv', TasksTyped', SemsOwned', Local(InputCalls, {ISEMA}) PROVE ServicesInv'
  BY <1>1, <1>2, ConsoleAlone DEF ServicesInv
<1>3. ASSUME NEW ch \in Characters, ttyiin(ch) PROVE ServicesInv'
  BY <1>1, <1>2, <1>3, ttyiinKeeps
<1>6. CASE ttyiinAnnounces
  BY <1>1, <1>2, <1>6, ttyiinAnnouncesKeeps
<1>4. ASSUME NEW p \in Procs,
             \/ \E len \in {1, IBLEN} : ttyread(p, len)
             \/ ttyreadEnds(p) \/ ttyreadWaits(p) \/ ttyreadTakes(p) \/ nextcEnds(p)
      PROVE  ServicesInv'
  BY <1>1, <1>2, <1>4, ttyreadKeeps, ttyreadWaitsKeeps, ttyreadTakesKeeps, nextcEndsKeeps
<1>5. ASSUME NEW p \in Procs, nextc(p) PROVE ServicesInv'
  <2>1. semaph[ISEMA].semcnt \in Int
    BY <1>1, Drivers DEF TasksTyped
  <2>2. CASE semaph[ISEMA].semcnt <= 0
    BY <1>1, <1>2, <1>5, <2>2, nextcKeeps
  <2>3. CASE semaph[ISEMA].semcnt > 0
    <3>1. UNCHANGED input /\ Local(InputCalls, {ISEMA}) /\ UNCHANGED <<doing, semaph>>
      BY <1>5, <2>3 DEF nextc, Local
    <3>2. SameCalls(InputCalls)
      BY <3>1 DEF SameCalls
    <3>3. InputInv'
      BY <1>1, <3>1, <3>2, InputFrame
    <3>4. TasksTyped' /\ SemsOwned'
      BY <1>1, <3>1, SameOwners DEF lent
    <3>. QED
      BY <1>2, <3>1, <3>3, <3>4
  <2>. QED
    BY <2>1, <2>2, <2>3
<1>. QED
  BY <1>3, <1>4, <1>5, <1>6 DEF TypedNext, InputNext, Characters

\* ... and written.
LEMMA OutputKeeps ==
  ASSUME ServicesInv, WrittenNext
  PROVE  ServicesInv'
<1>1. TasksTyped /\ SemsOwned /\ OutputInv /\ UNCHANGED lent /\ UNCHANGED input
  BY DEF ServicesInv, WrittenNext
<1>2. ASSUME OutputInv', TasksTyped', SemsOwned', Local(OutputCalls, {OSEMA}) PROVE ServicesInv'
  BY <1>1, <1>2, ConsoleAlone DEF ServicesInv
<1>3. CASE Transmitted \/ comintr
  BY <1>1, <1>2, <1>3, comintrKeeps
<1>4. ASSUME NEW p \in Procs,
             \/ \E ch \in {"x", "\n"} : computc(p, ch)
             \/ computcGoesOn(p) \/ computcLineEnds(p)
      PROVE  ServicesInv'
  BY <1>1, <1>2, <1>4, computcKeeps, computcGoesOnKeeps, computcLineEndsKeeps
<1>. QED
  BY <1>3, <1>4 DEF WrittenNext, OutputNext

-------------------------------------------------------------------------------
\* When the system starts nobody is in a call, and only the drivers have semaphores.
LEMMA TasksInitially ==
  ASSUME TasksInit, PoolsInit, QueuesInit
  PROVE  /\ \A p \in Procs : doing[p] = Idle /\ doing[p].call = "idle"
         /\ PoolSems = {} /\ Mutexes = {}
         /\ semaph[OSEMA] = Counting(COMBUFSZ) /\ semaph[ISEMA] = Counting(0)
         /\ TasksTyped /\ SemsOwned
<1>1. \A p \in Procs : doing[p] = Idle /\ doing[p].call = "idle"
  BY DEF TasksInit, Idle
<1>2. PoolSems = {} /\ bptab = <<>>
  BY DEF PoolSems, PoolsInit
<1>3. Mutexes = {} /\ \A q \in Queues : Q[q].mutex = SYSERR
  BY DEF Mutexes, QueuesInit, NoQueue
<1>4. semaph[OSEMA] = Counting(COMBUFSZ) /\ semaph[ISEMA] = Counting(0)
  BY Drivers DEF TasksInit
<1>5. \A s \in Semaphores : s \notin {OSEMA, ISEMA} => semaph[s] = Free
  BY DEF TasksInit
<1>6. Counting(COMBUFSZ) \in Sems /\ Counting(0) \in Sems /\ Free \in Sems
      /\ Counting(COMBUFSZ).used /\ Counting(0).used /\ ~Free.used
  <2>1. <<>> \in Seq(Procs)
    OBVIOUS
  <2>. QED
    BY <2>1, Drivers, CountingFits DEF Free, Sems
<1>7. semaph \in [Semaphores -> Sems]
  <2>1. semaph = [s \in Semaphores |-> semaph[s]]
    BY DEF TasksInit
  <2>2. \A s \in Semaphores : semaph[s] \in Sems
    BY <1>4, <1>5, <1>6
  <2>. QED
    BY <2>1, <2>2
<1>8. TasksTyped
  <2>1. doing = [p \in Procs |-> doing[p]]
    BY DEF TasksInit
  <2>. QED
    BY <1>7, <2>1 DEF TasksTyped, Sems
<1>9. SemsOwned
  <2>1. \A s \in Semaphores : semaph[s].used <=> s \in {OSEMA, ISEMA}
    BY <1>4, <1>5, <1>6
  <2>2. \A s \in Semaphores : ~semaph[s].used => semaph[s] = Free
    BY <1>5, <2>1
  <2>3. DOMAIN bptab = {}
    BY <1>2
  <2>. QED
    BY <1>2, <1>3, <2>1, <2>2, <2>3 DEF SemsOwned
<1>. QED
  BY <1>1, <1>2, <1>3, <1>4, <1>8, <1>9

\* There is no pool, and nobody is in a call on one.
LEMMA PoolsInitially ==
  ASSUME TasksInit, PoolsInit, QueuesInit
  PROVE  PoolsInv
<1>1. \A p \in Procs : doing[p].call \notin PoolCalls
  BY TasksInitially, CallsApart
<1>2. bptab = <<>> /\ bptab \in Seq(Pool) /\ DOMAIN bptab = {} /\ unlinked = FALSE
  BY DEF PoolsInit
<1>3. buffers \in [Procs -> SUBSET (Nat \X Nat)] /\ \A p \in Procs : buffers[p] = {}
  BY DEF PoolsInit
<1>. QED
  BY <1>1, <1>2, <1>3 DEF PoolsInv, PoolsTyped, BuffersKept

\* Nothing is typed or written, and nobody waits at the drivers' semaphores.
LEMMA ConsoleInitially ==
  ASSUME TasksInit, PoolsInit, QueuesInit, TerminalInit
  PROVE  InputInv /\ OutputInv
<1>1. \A p \in Procs : doing[p].call \notin InputCalls \cup OutputCalls
  BY TasksInitially, CallsApart
<1>2. InputInv
  <2>1. line \in Seq(Characters) /\ ~LineTyped /\ eof \in BOOLEAN /\ rest \in BOOLEAN
    <3>1. line = <<>> /\ eof = FALSE /\ rest = FALSE
      BY DEF TerminalInit
    <3>2. line \in Seq(Characters) /\ DOMAIN line = {}
      BY <3>1
    <3>. QED
      BY <3>1, <3>2 DEF LineTyped
  <2>2. QueueFits(semaph[ISEMA], InCall({"ttyreadTakes", "nextc"}))
    BY TasksInitially, CountingFits
  <2>. QED
    BY <1>1, <2>1, <2>2 DEF InputInv, Announcement, InputCalls, TerminalInit
<1>3. OutputInv
  <2>1. Promised = 0
    <3>1. Writers("computc") = {} /\ Writers("computcLine") = {}
      BY <1>1 DEF Writers, OutputCalls
    <3>. QED
      BY <3>1, FS_EmptySet DEF Promised
  <2>2. QueueFits(semaph[OSEMA], InCall(OutputCalls)) /\ semaph[OSEMA].semcnt = COMBUFSZ
    BY TasksInitially, CountingFits, Drivers
  <2>3. /\ com.start = 0 /\ com.count = 0
        /\ com = [start |-> com.start, count |-> com.count, buf |-> com.buf]
        /\ com.buf = [i \in 0..COMBUFSZ - 1 |-> com.buf[i]]
    BY DEF TerminalInit
  <2>4. written = <<>> /\ written \in Seq(Procs \X Sendable) /\ Len(written) = 0
    BY DEF TerminalInit
  <2>5. thre \in BOOLEAN /\ ier \in BOOLEAN /\ overtaken \in BOOLEAN
    BY DEF TerminalInit
  <2>. QED
    BY <1>1, <2>1, <2>2, <2>3, <2>4, <2>5, Drivers DEF OutputInv, OutputCalls
<1>. QED
  BY <1>2, <1>3

\* No queue is valid, and nobody is in a call on one.
LEMMA QueuesInitially ==
  ASSUME TasksInit, PoolsInit, QueuesInit
  PROVE  QueuesInv
<1>1. \A p \in Procs : doing[p].call \notin QueueCalls
  BY TasksInitially, CallsApart
<1>2. \A q, calls : calls \subseteq QueueCalls => Past(calls, q) = {}
  BY <1>1 DEF Past
<1>3. \A q \in Queues : Q[q] = NoQueue /\ arrays[q] = <<>> /\ arrived[q] = <<>>
  BY DEF QueuesInit
<1>4. NoQueue.valid = FALSE /\ NoQueue.type = "QF_NOWAIT" /\ NoQueue.max = 0
      /\ NoQueue.count = 0 /\ NoQueue.mutex = SYSERR /\ NoQueue.list = <<>>
  BY DEF NoQueue
<1>5. QueuesTyped
  <2>1. \A q \in Queues : QueueTyped(q)
    BY <1>3, <1>4 DEF QueueTyped, NoQueue
  <2>2. \A p \in Procs : CallTyped(p)
    BY <1>1 DEF CallTyped, QueueCalls
  <2>3. /\ Q = [q \in Queues |-> Q[q]] /\ arrays = [q \in Queues |-> arrays[q]]
        /\ arrived = [q \in Queues |-> arrived[q]]
        /\ usable \subseteq Queues /\ raced \subseteq Queues /\ broken \in BOOLEAN
    BY DEF QueuesInit
  <2>. QED
    BY <2>1, <2>2, <2>3 DEF QueuesTyped
<1>6. ArraysHeld
  <2>1. \A q \in Queues : ArraysOf(q) = {}
    <3>1. \A q : Past({"freeq"}, q) = {}
      BY <1>2 DEF QueueCalls
    <3>. QED
      BY <1>3, <3>1 DEF ArraysOf
  <2>2. \A q \in Queues : arrays[q] \in Seq(Areas)
    <3>1. <<>> \in Seq(Areas)
      OBVIOUS
    <3>. QED
      BY <1>3, <3>1, Zenon
  <2>. QED
    BY <2>1, <2>2 DEF ArraysHeld
<1>7. usable = {} /\ broken = FALSE
  BY DEF QueuesInit
<1>8. ASSUME NEW q \in Queues
      PROVE  QueueLive(q) /\ MutexHeld(q) /\ QueueOrdered(q)
  <2>1. /\ Past(Enqueuing \cup Dequeuing, q) = {} /\ Past({"newqKeys", "freeq"}, q) = {}
        /\ Past({"newqKeys"}, q) = {} /\ Past({"freeq"}, q) = {}
        /\ Past({"enq", "enqCounts", "deq", "deqCounts"}, q) = {}
        /\ Past(Enqueuing, q) = {} /\ Past(Dequeuing, q) = {}
    BY <1>2 DEF QueueCalls, Enqueuing, Dequeuing
  <2>2. QueueLive(q)
    BY <1>3, <1>7, <2>1 DEF QueueLive, InUse, Making
  <2>3. MutexHeld(q)
    BY <1>3, <1>4 DEF MutexHeld
  <2>4. QueueOrdered(q)
    BY <1>3, <1>4, <2>1 DEF QueueOrdered
  <2>. QED
    BY <2>2, <2>3, <2>4
<1>. QED
  BY <1>5, <1>6, <1>7, <1>8 DEF QueuesInv, BrokenByRaces

\* The parts' invariants hold in every state, for any numbers of processes, semaphores,
\* pools and queues and any sizes: whoever holds what is where its call says, every
\* semaphore belongs to one pool, queue or driver, and its row to the calls on that.
THEOREM ServicesInductive == Spec => []ServicesInv
<1>1. Init => ServicesInv
  <2>. SUFFICES ASSUME Init PROVE ServicesInv
    OBVIOUS
  <2>1. FreeInRegion
    BY RegionsAssumption DEF Init, MemoryInit, FreeInRegion, InRegion, Within, End, Blocks
  <2>2. StacksInv
    <3>1. \A p \in Procs : doing[p].call # "kill"
      BY TasksInitially DEF Init
    <3>. QED
      BY <3>1 DEF Init, StacksInv
  <2>. QED
    BY <2>1, <2>2, MemoryInitially, TasksInitially, PoolsInitially, ConsoleInitially,
       QueuesInitially DEF Init, ServicesInv
<1>2. ServicesInv /\ [Next]_vars => ServicesInv'
  <2>. SUFFICES ASSUME ServicesInv, [Next]_vars PROVE ServicesInv'
    OBVIOUS
  <2>1. CASE UNCHANGED vars
    <3>1. Local({}, {}) /\ UNCHANGED <<doing, semaph, lent, input, output>>
      BY <2>1 DEF vars, tasks, Local
    <3>2. TasksTyped' /\ SemsOwned'
      BY <3>1, SameOwners DEF ServicesInv, lent
    <3>3. Local(InputCalls, {ISEMA}) /\ Local(OutputCalls, {OSEMA})
      BY <3>1 DEF Local
    <3>. QED
      BY <3>1, <3>2, <3>3, ConsoleAlone DEF ServicesInv
  <2>. QED
    BY <2>1, LentKeeps, InputKeeps, OutputKeeps DEF Next
<1>. QED
  BY <1>1, <1>2, PTL DEF Spec

\* Pools, queues and processes use the free memory list as it expects to be used: mkpool(),
\* newq() and create() ask for sizes it knows, freeq() and kill() give back what is in
\* use, and once, but for the stack of a process that was killed already (kill.c:40, :42).
\* So what is proved of Memory holds here.
THEOREM MemoryUsedWell == Spec => UsesMemoryWell
<1>1. Init => MemoryInit
  BY DEF Init
<1>2. ServicesInv /\ [Next]_vars => [MemoryNext]_memory
  BY LentUsesWell DEF Next, TypedNext, WrittenNext, vars, lent
<1>. QED
  BY <1>1, <1>2, ServicesInductive, PTL DEF Spec, UsesMemoryWell, MemorySpec

-------------------------------------------------------------------------------
(***************************************************************************)
(* What follows from the invariant.                                        *)
(***************************************************************************)
\* Who waits at a semaphore is in a call on what it belongs to.
LEMMA RowsApart ==
  ASSUME ServicesInv, NEW s \in Semaphores, NEW p \in Row(semaph[s])
  PROVE  \/ s = OSEMA /\ doing[p].call \in OutputCalls
         \/ s = ISEMA /\ doing[p].call \in Readers
         \/ \E pool \in DOMAIN bptab :
              s = bptab[pool].bpsem /\ doing[p].call = "getbuf" /\ doing[p].pool = pool
         \/ \E q \in Queues : s = Q[q].mutex /\ doing[p].call \in {"enqPlaces", "deqShifts"}
<1>1. semaph[s].used
  <2>1. Len(Free.queue) = 0
    BY DEF Free
  <2>. QED
    BY <2>1 DEF ServicesInv, SemsOwned, Row
<1>2. s \in PoolSems \cup Mutexes \cup {OSEMA, ISEMA}
  BY <1>1 DEF ServicesInv, SemsOwned
<1>3. CASE s = OSEMA
  BY <1>3 DEF ServicesInv, OutputInv, QueueFits, Row, InCall
<1>4. CASE s = ISEMA
  BY <1>4 DEF ServicesInv, InputInv, QueueFits, Row, InCall, Readers
<1>5. CASE s \in PoolSems
  <2>1. PICK pool \in DOMAIN bptab : s = bptab[pool].bpsem /\ s # SYSERR
    BY <1>5 DEF PoolSems
  <2>2. QueueFits(semaph[s], OnPool({"getbuf"}, pool))
    BY <2>1 DEF ServicesInv, PoolsInv, PoolCounted
  <2>. QED
    BY <2>1, <2>2 DEF QueueFits, Row, OnPool
<1>6. CASE s \in Mutexes
  <2>1. PICK q \in Queues : s = Q[q].mutex /\ s # SYSERR
    BY <1>6 DEF Mutexes
  <2>2. QueueFits(semaph[s], Past({"enqPlaces", "deqShifts"}, q))
    BY <2>1 DEF ServicesInv, QueuesInv, MutexHeld
  <2>. QED
    BY <2>1, <2>2 DEF QueueFits, Row, Past
<1>. QED
  BY <1>2, <1>3, <1>4, <1>5, <1>6

\* A process waits where it is in a row.
LEMMA BlockedRows ==
  ASSUME ServicesInv, NEW p
  PROVE  Blocked(p) <=> \E s \in Semaphores : p \in Row(semaph[s])
<1>1. \A s \in Semaphores : semaph[s].queue \in Seq(Procs)
  BY DEF ServicesInv, TasksTyped
<1>2. \A s \in Semaphores : DOMAIN semaph[s].queue = 1..Len(semaph[s].queue)
  BY <1>1
<1>. QED
  BY <1>2 DEF Blocked, Row

\* A line that is typed is not slept over, unless a line end is being echoed: ttyiin()
\* announced it, or the count already lets the next reader in, or a reader that was let
\* in has not yet looked.
THEOREM LinesAlwaysAnnounced == Spec => []LineAnnounced
<1>1. ServicesInv => LineAnnounced
  <2>. SUFFICES ASSUME ServicesInv, LineTyped, ~rest, echoing = 0, ~(semaph[ISEMA].semcnt > 0)
                PROVE  \E p \in Procs : At(p, "ttyreadTakes") \/ At(p, "nextc")
    BY DEF LineAnnounced, LineTyped, LineEnds
  <2>1. PICK p \in InCall(Readers) : p \notin Row(semaph[ISEMA])
    BY DEF ServicesInv, InputInv, Announcement, Readers
  <2>2. p \in Procs /\ doing[p].call \in {"ttyreadTakes", "nextc"}
    BY DEF InCall, Readers
  <2>3. \A s \in Semaphores : p \notin Row(semaph[s])
    BY <2>1, <2>2, RowsApart DEF OutputCalls
  <2>4. ~Blocked(p)
    BY <2>3, BlockedRows
  <2>. QED
    BY <2>2, <2>4 DEF At
<1>. QED
  BY <1>1, ServicesInductive, PTL

\* Every place of the serial line's buffer is free, filled, promised or waited for, and
\* what is sent is what was written, in that order, as long as nobody is overtaken
\* between the two places of a line end (computc() and comintr()).
THEOREM OutputAlwaysKept == Spec => []OutputKept
<1>1. ServicesInv => OutputKept
  <2>. SUFFICES ASSUME OutputInv PROVE OutputKept
    BY DEF ServicesInv
  <2>1. PICK a \in Nat, b \in Nat, c \in Nat :
          a = Cardinality(Writers("computc")) /\ b = Cardinality(Writers("computcLine"))
          /\ c = com.count
    <3>1. Writers("computc") \in SUBSET Procs /\ Writers("computcLine") \in SUBSET Procs
      BY DEF Writers
    <3>2. Cardinality(Writers("computc")) \in Nat /\ Cardinality(Writers("computcLine")) \in Nat
      BY <3>1, SomeProcs
    <3>3. com.count \in Nat
      BY BufferNow
    <3>. QED
      BY <3>2, <3>3
  <2>2. semaph[OSEMA].semcnt = COMBUFSZ - c - (a + 2 * b)
    BY <2>1 DEF OutputInv, Promised
  <2>3. semaph[OSEMA].semcnt = COMBUFSZ - c - a - 2 * b
    BY <2>1, <2>2, Drivers
  <2>4. semaph[OSEMA].semcnt =
          COMBUFSZ - com.count - Cardinality({p \in Procs : doing[p].call = "computc"})
                               - 2 * Cardinality({p \in Procs : doing[p].call = "computcLine"})
    BY <2>1, <2>3 DEF Writers
  <2>5. DOMAIN written = 1..Len(written)
    BY DEF OutputInv
  <2>. QED
    BY <2>4, <2>5 DEF OutputInv, OutputKept
<1>. QED
  BY <1>1, ServicesInductive, PTL

\* What is protected has its mutex.
LEMMA ProtectedHas ==
  ASSUME NEW q, Protected(q)
  PROVE  NoWait(q) \/ Q[q].mutex # SYSERR
BY Drivers DEF Protected, Known

\* A queue that no two processes enqueue to and no two dequeue from at a time holds what
\* came and was not yet taken, the greatest key first and equal keys as they came (enq()
\* and deq(), which test q_count before they take the mutex).
THEOREM QueuesAlwaysInOrder == Spec => []QueueInOrder
<1>1. ServicesInv => QueueInOrder
  <2>. SUFFICES ASSUME QueuesInv, NEW q \in Queues \ raced, Q[q].valid, Protected(q),
                       Past({"enqCounts", "deqCounts"}, q) = {},
                       NEW list, list = Q[q].list
                PROVE  /\ Q[q].count = Len(arrived[q])
                       /\ {list[i] : i \in 1..Q[q].count} = {arrived[q][i] : i \in DOMAIN arrived[q]}
                       /\ \A i, j \in 1..Q[q].count : i < j =>
                            \/ list[i].key > list[j].key
                            \/ list[i].key = list[j].key /\ Came(q, list[i]) < Came(q, list[j])
    BY DEF ServicesInv, QueueInOrder
  <2>1. Past({"enqCounts"}, q) = {} /\ Past({"deqCounts"}, q) = {}
    BY DEF Past
  <2>2. arrived[q] \in Seq(Entries) /\ Q[q].count = Len(arrived[q])
        /\ Arranged(list, Len(arrived[q]), arrived[q])
    BY <2>1, ProtectedHas DEF QueuesInv, QueueOrdered
  <2>3. PICK n \in Nat, came \in Seq(Entries) :
          n = Q[q].count /\ came = arrived[q] /\ n = Len(came) /\ DOMAIN came = 1..n
          /\ Arranged(list, n, came)
    BY <2>2
  <2>4. {list[i] : i \in 1..n} = {came[i] : i \in DOMAIN came}
    <3>1. \A i \in 1..n : \E k \in DOMAIN came : list[i] = came[k]
      BY SMTT(30), ZenonT(30), <2>3 DEF Arranged
    <3>2. \A k \in DOMAIN came : \E i \in 1..n : list[i] = came[k]
      BY <2>3 DEF Arranged
    <3>3. ASSUME NEW x \in {list[i] : i \in 1..n} PROVE x \in {came[i] : i \in DOMAIN came}
      <4>1. PICK i \in 1..n : x = list[i]
        OBVIOUS
      <4>2. PICK k \in DOMAIN came : list[i] = came[k]
        BY <3>1
      <4>. QED
        BY <4>1, <4>2
    <3>4. ASSUME NEW x \in {came[i] : i \in DOMAIN came} PROVE x \in {list[i] : i \in 1..n}
      <4>1. PICK k \in DOMAIN came : x = came[k]
        OBVIOUS
      <4>2. PICK i \in 1..n : list[i] = came[k]
        BY <3>2
      <4>. QED
        BY <4>1, <4>2
    <3>. QED
      BY <3>3, <3>4
  <2>5. ASSUME NEW i \in 1..n PROVE Came(q, list[i]) \in 1..n /\ came[Came(q, list[i])] = list[i]
    <3>1. \E k \in DOMAIN came : came[k] = list[i]
      BY SMTT(30), ZenonT(30), <2>3 DEF Arranged
    <3>. QED
      BY <2>3, <3>1 DEF Came
  <2>6. ASSUME NEW i \in 1..n, NEW j \in 1..n, i < j
        PROVE  \/ list[i].key > list[j].key
               \/ list[i].key = list[j].key /\ Came(q, list[i]) < Came(q, list[j])
    <3>1. PICK k \in 1..n, l \in 1..n :
            k = Came(q, list[i]) /\ l = Came(q, list[j]) /\ came[k] = list[i] /\ came[l] = list[j]
      BY <2>5
    <3>2. list[i].key > list[j].key \/ (list[i].key = list[j].key /\ k < l)
      <4>1. \A i1, j1, k1, l1 \in 1..n : i1 < j1 /\ list[i1] = came[k1] /\ list[j1] = came[l1] =>
              list[i1].key > list[j1].key \/ (list[i1].key = list[j1].key /\ k1 < l1)
        BY <2>3 DEF Arranged
      <4>. QED
        BY <2>6, <3>1, <4>1
    <3>. QED
      BY <3>1, <3>2
  <2>. QED
    BY <2>3, <2>4, <2>6
<1>. QED
  BY <1>1, ServicesInductive, PTL

\* enq() writes behind the arrays, or q_count gets negative, only where two processes
\* were in enq(), or two in deq(), or a queue was made by two newq(), at a time.
THEOREM OnlyRacesEverBreak == Spec => []OnlyRacesBreak
<1>1. ServicesInv => OnlyRacesBreak
  <2>. SUFFICES ASSUME QueuesInv PROVE OnlyRacesBreak
    BY DEF ServicesInv
  <2>1. ASSUME NEW q \in Queues \ raced, Protected(q) PROVE Q[q].count >= 0
    <3>1. CASE Q[q].valid
      <4>1. Q[q].count \in 0..Q[q].max
        BY <2>1, <3>1, ProtectedHas DEF QueuesInv, QueueOrdered
      <4>. QED
        BY <4>1
    <3>2. CASE ~Q[q].valid
      BY <3>2 DEF QueuesInv, QueuesTyped, QueueTyped, NoQueue
    <3>. QED
      BY <3>1, <3>2
  <2>2. ASSUME NEW q, ~NoWait(q) /\ Q[q].mutex = SYSERR PROVE ~Protected(q)
    BY <2>2, Drivers DEF Protected, Known
  <2>3. broken => \E q \in Queues :
          q \in raced \/ ~Protected(q) \/ (Q[q].valid /\ Past({"newq"}, q) # {})
    BY <2>2 DEF QueuesInv, BrokenByRaces
  <2>. QED
    BY <2>1, <2>3 DEF OnlyRacesBreak
<1>. QED
  BY <1>1, ServicesInductive, PTL

\* The buffers of a chain.
InChain(pool, chain) == {<<pool, chain[i]>> : i \in DOMAIN chain}

\* A chain that has each of its buffers once has as many as it is long.
LEMMA ChainCounted ==
  ASSUME NEW pool, NEW chain \in Seq(Nat), \A i, j \in 1..Len(chain) : chain[i] = chain[j] => i = j
  PROVE  IsFiniteSet(InChain(pool, chain)) /\ Cardinality(InChain(pool, chain)) = Len(chain)
<1>. DEFINE C == InChain(pool, chain)
<1>. DEFINE f == [i \in 1..Len(chain) |-> <<pool, chain[i]>>]
<1>1. Len(chain) \in Nat /\ DOMAIN chain = 1..Len(chain)
  OBVIOUS
<1>2. f \in Bijection(1..Len(chain), C)
  <2>1. f \in [1..Len(chain) -> C]
    BY <1>1 DEF InChain
  <2>2. \A i, j \in 1..Len(chain) : f[i] = f[j] => i = j
    OBVIOUS
  <2>3. \A c \in C : \E i \in 1..Len(chain) : f[i] = c
    BY <1>1 DEF InChain
  <2>. QED
    BY <2>1, <2>2, <2>3 DEF Bijection, Injection, Surjection, IsInjective
<1>3. IsFiniteSet(1..Len(chain)) /\ Cardinality(1..Len(chain)) = Len(chain)
  BY SMTT(30), ZenonT(30), <1>1, FS_Interval
<1>. QED
  BY <1>2, <1>3, FS_Bijection DEF ExistsBijection

\* Of those who want a buffer of a pool, those let in are the ones not in its row.
LEMMA LetIn ==
  ASSUME ServicesInv, NEW pool \in DOMAIN bptab, bptab[pool].bpsem # SYSERR
  PROVE  /\ Between("getbuf", pool) = OnPool({"getbuf"}, pool) \ Row(semaph[bptab[pool].bpsem])
         /\ Between("freebuf", pool) = OnPool({"freebuf"}, pool)
<1>1. bptab[pool].bpsem \in Semaphores
  BY DEF ServicesInv, SemsOwned, PoolSems
<1>2. ASSUME NEW p \in Procs, doing[p].call = "getbuf", doing[p].pool = pool
      PROVE  Blocked(p) <=> p \in Row(semaph[bptab[pool].bpsem])
  <2>1. ASSUME NEW s \in Semaphores, p \in Row(semaph[s]) PROVE s = bptab[pool].bpsem
    BY <1>2, <2>1, RowsApart DEF OutputCalls, Readers
  <2>. QED
    BY <1>1, <2>1, BlockedRows
<1>3. ASSUME NEW p \in Procs, doing[p].call = "freebuf" PROVE ~Blocked(p)
  <2>1. ASSUME NEW s \in Semaphores, p \in Row(semaph[s]) PROVE FALSE
    BY <1>3, <2>1, RowsApart DEF OutputCalls, Readers
  <2>. QED
    BY <2>1, BlockedRows
<1>. QED
  BY <1>2, <1>3 DEF Between, OnPool, At

\* No buffer is lost, given out twice or put back twice, and the semaphore of a pool that
\* has one counts the free buffers but for those on their way between the chain and the
\* count (getbuf() after its wait(), freebuf() before its signal()).
THEOREM BuffersAlwaysAccounted == Spec => []BuffersAccounted
<1>1. ServicesInv => BuffersAccounted
  <2>. SUFFICES ASSUME ServicesInv PROVE BuffersAccounted
    OBVIOUS
  <2>1. TasksTyped /\ SemsOwned /\ PoolsInv
    BY DEF ServicesInv
  <2>2. ASSUME NEW pool \in DOMAIN bptab
        PROVE  /\ Cardinality(BuffersOf(pool)) = bptab[pool].bptotal
               /\ Len(bptab[pool].bpnext) + Cardinality(Out(pool)) = bptab[pool].bptotal
    <3>1. PICK chain \in Seq(Nat) : chain = bptab[pool].bpnext
      <4>1. bptab[pool] \in Pool
        BY <2>1 DEF PoolsInv, PoolsTyped
      <4>. QED
        BY <4>1 DEF Pool
    <3>2. PICK C : C = InChain(pool, chain)
      OBVIOUS
    <3>3. /\ IsFiniteSet(Out(pool)) /\ Len(chain) + Cardinality(Out(pool)) = bptab[pool].bptotal
          /\ \A i, j \in 1..Len(chain) : chain[i] = chain[j] => i = j
          /\ \A i \in 1..Len(chain) : <<pool, chain[i]>> \notin Out(pool)
      BY <2>1, <3>1 DEF PoolsInv, BuffersKept, PoolKept
    <3>4. IsFiniteSet(C) /\ Cardinality(C) = Len(chain)
      BY <3>2, <3>3, ChainCounted
    <3>5. BuffersOf(pool) = C \cup Out(pool)
      BY <3>1, <3>2 DEF BuffersOf, Out, InChain
    <3>6. C \cap Out(pool) = {}
      <4>1. DOMAIN chain = 1..Len(chain)
        OBVIOUS
      <4>. QED
        BY <3>2, <3>3, <4>1 DEF InChain
    <3>7. Cardinality(C \cup Out(pool)) = Cardinality(C) + Cardinality(Out(pool))
      <4>1. Cardinality(C \cup Out(pool)) =
              Cardinality(C) + Cardinality(Out(pool)) - Cardinality(C \cap Out(pool))
        BY <3>3, <3>4, FS_Union
      <4>2. PICK c \in Nat, o \in Nat : c = Cardinality(C) /\ o = Cardinality(Out(pool))
        BY <3>3, <3>4, FS_CardinalityType
      <4>3. Cardinality(C \cap Out(pool)) = 0
        BY <3>6, FS_EmptySet
      <4>. QED
        BY <4>1, <4>2, <4>3
    <3>. QED
      BY <3>1, <3>3, <3>4, <3>5, <3>7
  <2>3. ASSUME NEW pool \in DOMAIN bptab, Known(bptab[pool].bpsem),
               NEW count, count = semaph[bptab[pool].bpsem].semcnt
        PROVE  (IF count < 0 THEN 0 ELSE count)
                 = Len(bptab[pool].bpnext) - Cardinality(Between("getbuf", pool))
                                           - Cardinality(Between("freebuf", pool))
    <3>1. bptab[pool].bpsem \in Semaphores /\ bptab[pool].bpsem # SYSERR
      BY <2>3, Drivers DEF Known
    <3>2. PICK sem \in Sems : sem = semaph[bptab[pool].bpsem]
      BY <2>1, <3>1 DEF TasksTyped, Sems
    <3>3. PICK G \in SUBSET Procs, F \in SUBSET Procs :
            G = OnPool({"getbuf"}, pool) /\ F = OnPool({"freebuf"}, pool)
      BY DEF OnPool
    <3>4. QueueFits(sem, G) /\ count = Len(bptab[pool].bpnext) - Cardinality(G) - Cardinality(F)
      BY <2>1, <2>3, <3>1, <3>2, <3>3 DEF PoolsInv, PoolCounted
    <3>5. Between("getbuf", pool) = G \ Row(sem) /\ Between("freebuf", pool) = F
      BY <3>1, <3>2, <3>3, LetIn
    <3>6. PICK g \in Nat, f \in Nat, r \in Nat, n \in Nat :
            g = Cardinality(G) /\ f = Cardinality(F) /\ r = Len(sem.queue)
            /\ n = Len(bptab[pool].bpnext)
      <4>1. Len(bptab[pool].bpnext) \in Nat
        BY <2>1 DEF PoolsInv, PoolsTyped, Pool
      <4>. QED
        BY <3>4, <4>1, SomeProcs, RowCounted
    <3>7. Cardinality(G \ Row(sem)) = g - r /\ r = (IF count < 0 THEN -count ELSE 0)
      BY <2>3, <3>2, <3>4, <3>6, RowCounted
    <3>8. count = n - g - f
      BY <3>4, <3>6
    <3>9. (IF count < 0 THEN 0 ELSE count) = n - (g - r) - f
      BY <3>7, <3>8
    <3>. QED
      BY <3>5, <3>6, <3>7, <3>9
  <2>4. unlinked => \E pool \in DOMAIN bptab : ~Known(bptab[pool].bpsem)
    BY <2>1, Drivers DEF PoolsInv, Known
  <2>5. \A p, q \in Procs : p # q => buffers[p] \cap buffers[q] = {}
    BY <2>1 DEF PoolsInv, BuffersKept
  <2>. QED
    BY <2>2, <2>3, <2>4, <2>5 DEF BuffersAccounted, Out
<1>. QED
  BY <1>1, ServicesInductive, PTL
===============================================================================
