------------------------------ MODULE RWLockProofs ------------------------------
(***************************************************************************)
(* The reader/writer locks keep their books, for any numbers of processes  *)
(* and locks: who waits where, who holds what, and the priorities that     *)
(* lock(), releaseall(), chprio() and kill() keep by hand along any chain  *)
(* of waits.                                                               *)
(***************************************************************************)
EXTENDS RWLock, ListProofs

-------------------------------------------------------------------------------
(***************************************************************************)
(* Queues.                                                                 *)
(***************************************************************************)
\* `rest' is what the first n of `queue' leave: at[i] is the place the ith had.
Leaves(rest, at, queue, gone, n) ==
  /\ rest \in Seq(Procs)
  /\ at \in [1..Len(rest) -> 1..n]
  /\ \A i \in 1..Len(rest) : rest[i] = queue[at[i]] /\ queue[at[i]] \notin gone
  /\ \A i, j \in 1..Len(rest) : i < j => at[i] < at[j]
  /\ \A k \in 1..n : queue[k] \notin gone => \E i \in 1..Len(rest) : at[i] = k

\* One more of the queue is looked at.
LEMMA LeavesOneMore ==
  ASSUME NEW queue \in Seq(Procs), NEW gone, NEW n \in 1..Len(queue),
         NEW rest, NEW at, Leaves(rest, at, queue, gone, n - 1)
  PROVE  \E new : Leaves(IF queue[n] \in gone THEN rest ELSE Append(rest, queue[n]),
                         new, queue, gone, n)
<1>0. rest \in Seq(Procs) /\ Len(rest) \in Nat /\ queue[n] \in Procs
  BY DEF Leaves
<1>1. CASE queue[n] \in gone
  <2>1. at \in [1..Len(rest) -> 1..n]
    BY DEF Leaves
  <2>2. ASSUME NEW k \in 1..n, queue[k] \notin gone
        PROVE  \E i \in 1..Len(rest) : at[i] = k
    <3>1. k \in 1..n - 1
      BY <1>1, <2>2
    <3>. QED
      BY <2>2, <3>1 DEF Leaves
  <2>3. Leaves(rest, at, queue, gone, n)
    BY <2>1, <2>2 DEF Leaves
  <2>. QED
    BY <1>1, <2>3
<1>2. CASE queue[n] \notin gone
  <2>. DEFINE more == Append(rest, queue[n])
              m == Len(rest) + 1
              new == [i \in 1..m |-> IF i = m THEN n ELSE at[i]]
  <2>1. more \in Seq(Procs) /\ Len(more) = m /\ m \in Nat
    BY <1>0
  <2>2. /\ \A i \in 1..m : more[i] = IF i = m THEN queue[n] ELSE rest[i]
        /\ \A i \in 1..m : i # m => i \in 1..Len(rest)
    BY <1>0
  <2>3. new \in [1..m -> 1..n]
    BY <2>2 DEF Leaves
  <2>4. ASSUME NEW i \in 1..m PROVE more[i] = queue[new[i]] /\ queue[new[i]] \notin gone
    BY <1>2, <2>2 DEF Leaves
  <2>5. ASSUME NEW i \in 1..m, NEW j \in 1..m, i < j PROVE new[i] < new[j]
    <3>1. i # m /\ i \in 1..Len(rest) /\ at[i] \in 1..n - 1 /\ new[i] = at[i]
      BY <1>0, <2>2, <2>5 DEF Leaves
    <3>2. CASE j = m
      BY <3>1, <3>2
    <3>3. CASE j # m
      <4>1. j \in 1..Len(rest) /\ new[j] = at[j]
        BY <2>2, <3>3
      <4>. QED
        BY <2>5, <3>1, <4>1 DEF Leaves
    <3>. QED
      BY <3>2, <3>3
  <2>6. ASSUME NEW k \in 1..n, queue[k] \notin gone PROVE \E i \in 1..m : new[i] = k
    <3>1. CASE k = n
      <4>1. m \in 1..m /\ new[m] = k
        BY <1>0, <3>1
      <4>. QED
        BY <4>1
    <3>2. CASE k # n
      <4>1. PICK i \in 1..Len(rest) : at[i] = k
        BY <2>6, <3>2 DEF Leaves
      <4>2. i \in 1..m /\ new[i] = k
        BY <1>0, <4>1
      <4>. QED
        BY <4>2
    <3>. QED
      BY <3>1, <3>2
  <2>. HIDE DEF more, new, m
  <2>7. Leaves(more, new, queue, gone, n)
    BY <2>1, <2>3, <2>4, <2>5, <2>6 DEF Leaves
  <2>. QED
    BY <1>2, <2>7 DEF more
<1>. QED
  BY <1>1, <1>2

-------------------------------------------------------------------------------
(***************************************************************************)
(* Loops: dequeue() of many, the search for the best lock, the rounds of   *)
(* priority_inherit() and the bound on them.                               *)
(***************************************************************************)
\* What the nth round makes of x.
LoopRound(loop, x, n) ==
  CASE loop.kind = "dequeue" -> IF loop.queue[n] \in loop.gone THEN x
                                ELSE Append(x, loop.queue[n])
    [] loop.kind = "best" -> IF /\ loop.T.held[loop.p][n - 1] # "no"
                                /\ x = NoLock \/ schedprio(loop.T, loop.p) > loop.T.lprio[x]
                             THEN n - 1 ELSE x
    [] loop.kind = "inherit" -> InheritRound(x)
    [] loop.kind = "most" -> 2 + Cardinality(Procs) * x

\* f[n] is what there is after n rounds.
Loop(f, loop, start, last) ==
  /\ f = [n \in 0..last |-> f[n]]
  /\ f[0] = start
  /\ \A n \in 1..last : f[n] = LoopRound(loop, f[n - 1], n)

\* Every loop can be carried through.
LEMMA LoopsExist ==
  ASSUME NEW loop, NEW start, NEW last \in Nat
  PROVE  \E f : Loop(f, loop, start, last)
<1>. DEFINE Upto(m) == \E f : Loop(f, loop, start, m)
<1>1. Upto(0)
  <2>. DEFINE f == [i \in 0..0 |-> start]
  <2>1. f = [i \in 0..0 |-> f[i]] /\ f[0] = start
        /\ \A i \in 1..0 : f[i] = LoopRound(loop, f[i - 1], i)
    OBVIOUS
  <2>. HIDE DEF f
  <2>. QED
    BY <2>1 DEF Loop
<1>2. ASSUME NEW m \in 1..last, Upto(m - 1) PROVE Upto(m)
  <2>1. PICK f : Loop(f, loop, start, m - 1)
    BY <1>2
  <2>2. PICK end : end = LoopRound(loop, f[m - 1], m)
    OBVIOUS
  <2>. DEFINE g == [i \in 0..m |-> IF i = m THEN end ELSE f[i]]
  <2>3. g = [i \in 0..m |-> g[i]] /\ g[0] = start
    BY <2>1 DEF Loop
  <2>4. ASSUME NEW i \in 1..m PROVE g[i] = LoopRound(loop, g[i - 1], i)
    <3>1. g[i - 1] = f[i - 1]
      OBVIOUS
    <3>2. CASE i = m
      BY <2>2, <3>1, <3>2
    <3>3. CASE i # m
      <4>1. i \in 1..m - 1 /\ g[i] = f[i]
        BY <3>3
      <4>. QED
        BY <2>1, <3>1, <4>1 DEF Loop
    <3>. QED
      BY <3>2, <3>3
  <2>. HIDE DEF g
  <2>. QED
    BY <2>3, <2>4 DEF Loop
<1>. HIDE DEF Upto
<1>3. PICK S : S = {m \in 0..last : Upto(m)}
  OBVIOUS
<1>4. 0 \in S /\ \A m \in 1..last : m - 1 \in S => m \in S
  BY <1>1, <1>2, <1>3
<1>5. last \in S
  BY <1>4, UpToTheLast
<1>. QED
  BY <1>3, <1>5 DEF Upto

\* Dequeued is the end of such a loop.
LEMMA DequeuedLoop ==
  ASSUME NEW queue \in Seq(Procs), NEW gone
  PROVE  \E f : /\ Loop(f, [kind |-> "dequeue", queue |-> queue, gone |-> gone], <<>>, Len(queue))
                /\ Dequeued(queue, gone) = f[Len(queue)]
<1>. DEFINE loop == [kind |-> "dequeue", queue |-> queue, gone |-> gone]
            last == Len(queue)
            rest == CHOOSE g : g = [n \in 0..last |->
                      IF n = 0 THEN <<>>
                      ELSE IF queue[n] \in gone THEN g[n - 1] ELSE Append(g[n - 1], queue[n])]
<1>0. last \in Nat
  OBVIOUS
<1>1. PICK f : Loop(f, loop, <<>>, last)
  BY <1>0, LoopsExist
<1>2. \A x, n : LoopRound(loop, x, n) = IF queue[n] \in gone THEN x ELSE Append(x, queue[n])
  BY DEF LoopRound
<1>3. Dequeued(queue, gone) = rest[last]
  BY DEF Dequeued
<1>. HIDE DEF loop, last
<1>4. f = [n \in 0..last |->
             IF n = 0 THEN <<>>
             ELSE IF queue[n] \in gone THEN f[n - 1] ELSE Append(f[n - 1], queue[n])]
  <2>1. f = [n \in 0..last |-> f[n]] /\ f[0] = <<>>
    BY <1>1 DEF Loop
  <2>2. ASSUME NEW n \in 0..last, n # 0
        PROVE  f[n] = IF queue[n] \in gone THEN f[n - 1] ELSE Append(f[n - 1], queue[n])
    <3>1. n \in 1..last
      BY <1>0, <2>2
    <3>2. f[n] = LoopRound(loop, f[n - 1], n)
      BY <1>1, <3>1 DEF Loop
    <3>. QED
      BY <1>2, <3>2, Zenon
  <2>. QED
    BY <2>1, <2>2, Zenon
<1>5. rest = [n \in 0..last |->
                IF n = 0 THEN <<>>
                ELSE IF queue[n] \in gone THEN rest[n - 1] ELSE Append(rest[n - 1], queue[n])]
  BY <1>4
<1>. HIDE DEF rest
<1>6. Loop(rest, loop, <<>>, last)
  <2>1. rest = [n \in 0..last |-> rest[n]] /\ rest[0] = <<>>
    BY <1>0, <1>5
  <2>2. ASSUME NEW n \in 1..last PROVE rest[n] = LoopRound(loop, rest[n - 1], n)
    <3>1. n \in 0..last /\ n # 0
      BY <1>0
    <3>2. rest[n] = IF queue[n] \in gone THEN rest[n - 1] ELSE Append(rest[n - 1], queue[n])
      BY <1>5, <3>1, Zenon
    <3>. QED
      BY <1>2, <3>2, Zenon
  <2>. QED
    BY <2>1, <2>2 DEF Loop
<1>. QED
  BY <1>3, <1>6 DEF loop, last

\* Those gone are taken out of a queue, and the others stay in their order.
LEMMA DequeuedLeaves ==
  ASSUME NEW queue \in Seq(Procs), NEW gone
  PROVE  \E at : Leaves(Dequeued(queue, gone), at, queue, gone, Len(queue))
<1>. DEFINE loop == [kind |-> "dequeue", queue |-> queue, gone |-> gone]
<1>1. PICK f : Loop(f, loop, <<>>, Len(queue)) /\ Dequeued(queue, gone) = f[Len(queue)]
  BY DequeuedLoop
<1>2. \A x, n : LoopRound(loop, x, n) = IF queue[n] \in gone THEN x ELSE Append(x, queue[n])
  BY DEF LoopRound
<1>. HIDE DEF loop
<1>3. PICK S : S = {n \in 0..Len(queue) : \E at : Leaves(f[n], at, queue, gone, n)}
  OBVIOUS
<1>4. 0 \in S
  <2>. DEFINE at == [i \in 1..0 |-> i]
  <2>1. f[0] = <<>> /\ Len(<<>>) = 0 /\ <<>> \in Seq(Procs)
    BY <1>1 DEF Loop
  <2>2. Leaves(f[0], at, queue, gone, 0)
    BY <2>1 DEF Leaves
  <2>. QED
    BY <1>3, <2>2
<1>5. ASSUME NEW n \in 1..Len(queue), n - 1 \in S PROVE n \in S
  <2>1. PICK at : Leaves(f[n - 1], at, queue, gone, n - 1)
    BY <1>3, <1>5
  <2>2. f[n] = IF queue[n] \in gone THEN f[n - 1] ELSE Append(f[n - 1], queue[n])
    BY <1>1, <1>2 DEF Loop
  <2>3. \E new : Leaves(f[n], new, queue, gone, n)
    BY <2>1, <2>2, LeavesOneMore
  <2>. QED
    BY <1>3, <2>3
<1>6. Len(queue) \in S
  BY <1>4, <1>5, UpToTheLast
<1>. QED
  BY <1>1, <1>3, <1>6

\* So a queue without those gone holds the others, in their order.
LEMMA DequeuedFacts ==
  ASSUME NEW queue \in Seq(Procs), NEW S, HoldsIn(Procs, queue, S), NEW gone,
         NEW rest, rest = Dequeued(queue, gone)
  PROVE  /\ rest \in Seq(Procs) /\ HoldsIn(Procs, rest, S \ gone)
         /\ \A i, j \in 1..Len(rest) : i < j =>
              \E a, b \in 1..Len(queue) : a < b /\ rest[i] = queue[a] /\ rest[j] = queue[b]
<1>1. PICK at : Leaves(rest, at, queue, gone, Len(queue))
  BY DequeuedLeaves
<1>2. /\ rest \in Seq(Procs) /\ Len(rest) \in Nat /\ Len(queue) \in Nat
      /\ \A i \in 1..Len(rest) : at[i] \in 1..Len(queue)
  BY <1>1 DEF Leaves
<1>3. \A i, j \in 1..Len(rest) : i < j =>
        \E a, b \in 1..Len(queue) : a < b /\ rest[i] = queue[a] /\ rest[j] = queue[b]
  BY <1>1, <1>2 DEF Leaves
<1>4. ASSUME NEW i \in 1..Len(rest), NEW j \in 1..Len(rest), rest[i] = rest[j] PROVE i = j
  <2>1. queue[at[i]] = queue[at[j]]
    BY <1>1, <1>4 DEF Leaves
  <2>2. at[i] = at[j]
    BY <1>2, <2>1 DEF HoldsIn
  <2>3. ~(i < j) /\ ~(j < i)
    BY <1>1, <1>2, <2>2 DEF Leaves
  <2>. QED
    BY <1>2, <2>3
<1>5. ASSUME NEW x \in Procs PROVE Contains(rest, x) <=> x \in S \ gone
  <2>1. ASSUME Contains(rest, x) PROVE x \in S \ gone
    <3>1. PICK i \in 1..Len(rest) : rest[i] = x
      BY <1>2, <2>1 DEF Contains
    <3>2. x = queue[at[i]] /\ x \notin gone /\ at[i] \in 1..Len(queue)
      BY <1>1, <1>2, <3>1 DEF Leaves
    <3>. QED
      BY <3>2 DEF HoldsIn, Contains
  <2>2. ASSUME x \in S \ gone PROVE Contains(rest, x)
    <3>1. PICK k \in 1..Len(queue) : queue[k] = x
      BY <2>2 DEF HoldsIn, Contains
    <3>2. PICK i \in 1..Len(rest) : at[i] = k
      BY <1>1, <2>2, <3>1 DEF Leaves
    <3>. QED
      BY <1>1, <3>1, <3>2 DEF Leaves, Contains
  <2>. QED
    BY <2>1, <2>2
<1>. QED
  BY <1>2, <1>3, <1>4, <1>5 DEF HoldsIn

\* `new' is `queue' with p in it at a place.
PutIn(new, queue, at, p) ==
  /\ Len(new) = Len(queue) + 1
  /\ \A i \in 1..Len(new) : new[i] = IF i < at THEN queue[i]
                                     ELSE IF i = at THEN p ELSE queue[i - 1]

\* lqueueinsert() puts one more in, behind the lower keys only.
LEMMA QueueInsertFacts ==
  ASSUME NEW queue \in Seq(Procs), NEW S, HoldsIn(Procs, queue, S),
         NEW p \in Procs, p \notin S, NEW key \in Nat, qkey \in [Procs -> Nat],
         NEW new, new = QueueInsert(queue, p, key)
  PROVE  /\ new \in Seq(Procs) /\ HoldsIn(Procs, new, S \cup {p})
         /\ \E at \in 1..Len(queue) + 1 :
              /\ PutIn(new, queue, at, p)
              /\ \A i \in 1..Len(queue) : i < at => qkey[queue[i]] < key
              /\ at <= Len(queue) => qkey[queue[at]] >= key
<1>. DEFINE stop == {i \in 1..Len(queue) : qkey[queue[i]] >= key} \cup {Len(queue) + 1}
            at == Min(stop)
<1>1. stop \in SUBSET Nat /\ stop # {} /\ stop \subseteq 1..Len(queue) + 1
  OBVIOUS
<1>2. at \in stop /\ \A i \in stop : at <= i
  <2>. HIDE DEF stop
  <2>. QED
    BY <1>1, MinIsLeast
<1>3. new = InsertAt(queue, at, p)
  BY DEF QueueInsert
<1>. HIDE DEF at
<1>4. at \in 1..Len(queue) + 1
  BY <1>1, <1>2
<1>5. new \in Seq(Procs) /\ HoldsIn(Procs, new, S \cup {p})
  BY <1>3, <1>4, InsertAtHoldsIn
<1>6. /\ Len(new) = Len(queue) + 1
      /\ \A i \in 1..Len(queue) + 1 : new[i] = IF i < at THEN queue[i]
                                               ELSE IF i = at THEN p ELSE queue[i - 1]
  <2>1. /\ Len(InsertAt(queue, at, p)) = Len(queue) + 1
        /\ \A i \in 1..Len(queue) + 1 :
             InsertAt(queue, at, p)[i] = IF i < at THEN queue[i]
                                         ELSE IF i = at THEN p ELSE queue[i - 1]
    BY <1>4, InsertAtProperties
  <2>. QED
    BY <1>3, <2>1
<1>7. ASSUME NEW i \in 1..Len(queue), i < at PROVE qkey[queue[i]] < key
  <2>1. i \notin stop /\ qkey[queue[i]] \in Nat
    BY <1>2, <1>4, <1>7
  <2>. QED
    BY <2>1
<1>8. at <= Len(queue) => qkey[queue[at]] >= key
  BY <1>2, <1>4
<1>9. PutIn(new, queue, at, p)
  BY <1>6 DEF PutIn
<1>. QED
  BY <1>4, <1>5, <1>7, <1>8, <1>9

-------------------------------------------------------------------------------
(***************************************************************************)
(* Priorities.                                                             *)
(***************************************************************************)
\* T is what priority_inherit() works on.
IsPrios(T) ==
  /\ T = [pprio |-> T.pprio, pinh |-> T.pinh, plock |-> T.plock, held |-> T.held,
          lprio |-> T.lprio, queue |-> T.queue, has |-> T.has]
  /\ T.pprio \in [Procs -> Nat] /\ T.pinh \in [Procs -> Nat]
  /\ T.plock \in [Procs -> Lock \cup {NoLock}]
  /\ T.held \in [Procs -> [Lock -> {"no", "yes", "DELETED"}]]
  /\ T.lprio \in [Lock -> Nat]
  /\ \A l \in Lock : T.queue[l] \in Seq(Procs)

\* A process has a priority.
LEMMA SchedprioType ==
  ASSUME NEW T, IsPrios(T), NEW p \in Procs
  PROVE  schedprio(T, p) \in Nat
BY DEF IsPrios, schedprio

\* m is the greatest priority among those on the queue.
Greatest(T, queue, m) ==
  /\ m \in Nat
  /\ \A i \in 1..Len(queue) : schedprio(T, queue[i]) <= m
  /\ m = 0 \/ \E i \in 1..Len(queue) : m = schedprio(T, queue[i])

\* There is one, and waiting_process_with_highest_priority() finds it.
LEMMA WaitingPrioIsGreatest ==
  ASSUME NEW T, IsPrios(T), NEW queue \in Seq(Procs)
  PROVE  Greatest(T, queue, WaitingPrio(T, queue))
<1>. DEFINE Upto(n) == \E m \in Nat :
              /\ \A i \in 1..n : schedprio(T, queue[i]) <= m
              /\ m = 0 \/ \E i \in 1..n : m = schedprio(T, queue[i])
<1>0. \A i \in 1..Len(queue) : schedprio(T, queue[i]) \in Nat
  BY SchedprioType
<1>1. Upto(0)
  OBVIOUS
<1>2. ASSUME NEW n \in 1..Len(queue), Upto(n - 1) PROVE Upto(n)
  <2>1. PICK m \in Nat : /\ \A i \in 1..n - 1 : schedprio(T, queue[i]) <= m
                         /\ m = 0 \/ \E i \in 1..n - 1 : m = schedprio(T, queue[i])
    BY <1>2
  <2>2. PICK k \in Nat : k = schedprio(T, queue[n])
    BY <1>0
  <2>3. CASE k <= m
    <3>1. \A i \in 1..n : i = n \/ i \in 1..n - 1
      OBVIOUS
    <3>2. \A i \in 1..n - 1 : i \in 1..n
      OBVIOUS
    <3>. QED
      BY <2>1, <2>2, <2>3, <3>1, <3>2
  <2>4. CASE k > m
    <3>1. ASSUME NEW i \in 1..n PROVE schedprio(T, queue[i]) <= k
      <4>1. schedprio(T, queue[i]) \in Nat
        BY <1>0
      <4>. QED
        BY <2>1, <2>2, <2>4, <4>1
    <3>. QED
      BY <2>2, <3>1
  <2>. QED
    BY <2>3, <2>4
<1>. HIDE DEF Upto
<1>3. PICK N : N = {n \in 0..Len(queue) : Upto(n)}
  OBVIOUS
<1>4. Len(queue) \in N
  <2>1. Len(queue) \in Nat /\ 0 \in N
    BY <1>1, <1>3
  <2>2. ASSUME NEW n \in 1..Len(queue), n - 1 \in N PROVE n \in N
    BY <1>2, <1>3, <2>2
  <2>. QED
    BY <2>1, <2>2, UpToTheLast
<1>5. PICK m \in Nat : /\ \A i \in 1..Len(queue) : schedprio(T, queue[i]) <= m
                       /\ m = 0 \/ \E i \in 1..Len(queue) : m = schedprio(T, queue[i])
  BY <1>3, <1>4 DEF Upto
<1>. DEFINE all == {schedprio(T, queue[i]) : i \in 1..Len(queue)} \cup {0}
<1>6. all \subseteq Nat /\ m \in all /\ \A x \in all : m >= x
  BY <1>0, <1>5
<1>7. WaitingPrio(T, queue) = Max(all)
  BY DEF WaitingPrio
<1>8. Max(all) \in all /\ \A x \in all : Max(all) >= x
  <2>. HIDE DEF all
  <2>. QED
    BY <1>6 DEF Max
<1>9. PICK w : w = Max(all)
  OBVIOUS
<1>10. w \in Nat /\ \A i \in 1..Len(queue) : schedprio(T, queue[i]) <= w
  BY <1>0, <1>6, <1>8, <1>9
<1>11. w = 0 \/ \E i \in 1..Len(queue) : w = schedprio(T, queue[i])
  BY <1>8, <1>9
<1>. QED
  BY <1>7, <1>9, <1>10, <1>11 DEF Greatest

\* It depends on who is on the queue, and on their priorities.
LEMMA GreatestIsOne ==
  ASSUME NEW T, IsPrios(T), NEW U, IsPrios(U), NEW q1 \in Seq(Procs), NEW q2 \in Seq(Procs),
         \A i \in 1..Len(q1) : /\ \E j \in 1..Len(q2) : q1[i] = q2[j]
                               /\ schedprio(T, q1[i]) = schedprio(U, q1[i]),
         \A j \in 1..Len(q2) : \E i \in 1..Len(q1) : q1[i] = q2[j],
         NEW m, Greatest(T, q1, m), NEW n, Greatest(U, q2, n)
  PROVE  m = n
<1>1. m \in Nat /\ n \in Nat
  BY DEF Greatest
<1>2. n <= m
  <2>1. CASE n = 0
    BY <1>1, <2>1
  <2>2. CASE n # 0
    <3>1. PICK j \in 1..Len(q2) : n = schedprio(U, q2[j])
      BY <2>2 DEF Greatest
    <3>2. PICK i \in 1..Len(q1) : q1[i] = q2[j]
      OBVIOUS
    <3>. QED
      BY <3>1, <3>2 DEF Greatest
  <2>. QED
    BY <2>1, <2>2
<1>3. m <= n
  <2>1. CASE m = 0
    BY <1>1, <2>1
  <2>2. CASE m # 0
    <3>1. PICK i \in 1..Len(q1) : m = schedprio(T, q1[i])
      BY <2>2 DEF Greatest
    <3>2. PICK j \in 1..Len(q2) : q1[i] = q2[j]
      OBVIOUS
    <3>. QED
      BY <3>1, <3>2 DEF Greatest
  <2>. QED
    BY <2>1, <2>2
<1>. QED
  BY <1>1, <1>2, <1>3

\* The search for the best lock is a loop.
LEMMA BestLockLoop ==
  ASSUME NEW T, NEW p
  PROVE  \E f : /\ Loop(f, [kind |-> "best", T |-> T, p |-> p], NoLock, NLOCKS)
                /\ BestLock(T, p) = f[NLOCKS]
<1>. DEFINE loop == [kind |-> "best", T |-> T, p |-> p]
            Better(x, n) == T.held[p][n - 1] # "no" /\ (x = NoLock \/ schedprio(T, p) > T.lprio[x])
            best == CHOOSE g : g = [n \in 0..NLOCKS |->
                      IF n = 0 THEN NoLock
                      ELSE LET sofar == g[n - 1]
                           IN  IF T.held[p][n - 1] # "no"
                                  /\ (sofar = NoLock \/ schedprio(T, p) > T.lprio[sofar])
                               THEN n - 1 ELSE sofar]
<1>0. NLOCKS \in Nat
  BY NLOCKSAssumption
<1>1. PICK f : Loop(f, loop, NoLock, NLOCKS)
  BY <1>0, LoopsExist
<1>2. \A x, n : LoopRound(loop, x, n) = IF Better(x, n) THEN n - 1 ELSE x
  BY DEF LoopRound
<1>3. BestLock(T, p) = best[NLOCKS]
  BY DEF BestLock
<1>. HIDE DEF loop
<1>4. f = [n \in 0..NLOCKS |->
             IF n = 0 THEN NoLock
             ELSE LET sofar == f[n - 1]
                  IN  IF T.held[p][n - 1] # "no"
                         /\ (sofar = NoLock \/ schedprio(T, p) > T.lprio[sofar])
                      THEN n - 1 ELSE sofar]
  <2>1. f = [n \in 0..NLOCKS |-> f[n]] /\ f[0] = NoLock
    BY <1>1 DEF Loop
  <2>2. ASSUME NEW n \in 0..NLOCKS, n # 0
        PROVE  f[n] = IF Better(f[n - 1], n) THEN n - 1 ELSE f[n - 1]
    <3>1. n \in 1..NLOCKS
      BY <1>0, <2>2
    <3>2. f[n] = LoopRound(loop, f[n - 1], n)
      BY <1>1, <3>1 DEF Loop
    <3>. HIDE DEF Better
    <3>. QED
      BY <1>2, <3>2, Zenon
  <2>. QED
    BY <2>1, <2>2, Zenon
<1>5. best = [n \in 0..NLOCKS |->
                IF n = 0 THEN NoLock
                ELSE LET sofar == best[n - 1]
                     IN  IF T.held[p][n - 1] # "no"
                            /\ (sofar = NoLock \/ schedprio(T, p) > T.lprio[sofar])
                         THEN n - 1 ELSE sofar]
  BY <1>4
<1>. HIDE DEF best
<1>6. Loop(best, loop, NoLock, NLOCKS)
  <2>1. best = [n \in 0..NLOCKS |-> best[n]] /\ best[0] = NoLock
    BY <1>0, <1>5
  <2>2. ASSUME NEW n \in 1..NLOCKS PROVE best[n] = LoopRound(loop, best[n - 1], n)
    <3>1. n \in 0..NLOCKS /\ n # 0
      BY <1>0
    <3>2. best[n] = IF Better(best[n - 1], n) THEN n - 1 ELSE best[n - 1]
      BY <1>5, <3>1, Zenon
    <3>. HIDE DEF Better
    <3>. QED
      BY <1>2, <3>2, Zenon
  <2>. QED
    BY <2>1, <2>2 DEF Loop
<1>. QED
  BY <1>3, <1>6 DEF loop

\* Who holds a lock has a best one.
LEMMA BestLockFound ==
  ASSUME NEW T, NEW p, ~HoldsNone(T, p)
  PROVE  BestLock(T, p) \in Lock
<1>. DEFINE loop == [kind |-> "best", T |-> T, p |-> p]
            Better(x, n) == T.held[p][n - 1] # "no" /\ (x = NoLock \/ schedprio(T, p) > T.lprio[x])
<1>1. PICK f : Loop(f, loop, NoLock, NLOCKS) /\ BestLock(T, p) = f[NLOCKS]
  BY BestLockLoop
<1>2. \A x, n : LoopRound(loop, x, n) = IF Better(x, n) THEN n - 1 ELSE x
  BY DEF LoopRound
<1>. HIDE DEF loop
<1>3. ASSUME NEW n \in 1..NLOCKS PROVE f[n] = IF Better(f[n - 1], n) THEN n - 1 ELSE f[n - 1]
  <2>1. f[n] = LoopRound(loop, f[n - 1], n)
    BY <1>1 DEF Loop
  <2>. HIDE DEF Better
  <2>. QED
    BY <1>2, <2>1, Zenon
<1>4. PICK S : S = {n \in 0..NLOCKS : \/ f[n] \in Lock
                                      \/ f[n] = NoLock /\ \A l \in 0..n - 1 : T.held[p][l] = "no"}
  OBVIOUS
<1>5. 0 \in S
  BY <1>1, <1>4, NLOCKSAssumption DEF Loop
<1>6. ASSUME NEW n \in 1..NLOCKS, n - 1 \in S PROVE n \in S
  <2>0. n - 1 \in Lock /\ n \in 0..NLOCKS /\ n - 1 \in 0..NLOCKS
    BY NLOCKSAssumption DEF Lock
  <2>1. CASE Better(f[n - 1], n)
    BY <1>3, <1>4, <2>0, <2>1
  <2>2. CASE ~Better(f[n - 1], n)
    <3>1. f[n] = f[n - 1]
      BY <1>3, <2>2
    <3>2. CASE f[n - 1] \in Lock
      BY <1>4, <2>0, <3>1, <3>2
    <3>3. CASE f[n - 1] = NoLock /\ \A l \in 0..n - 2 : T.held[p][l] = "no"
      <4>1. T.held[p][n - 1] = "no"
        BY <2>2, <3>3
      <4>2. \A l \in 0..n - 1 : T.held[p][l] = "no"
        BY <3>3, <4>1
      <4>. QED
        BY <1>4, <2>0, <3>1, <3>3, <4>2
    <3>4. (n - 1) - 1 = n - 2
      OBVIOUS
    <3>. QED
      BY <1>4, <1>6, <3>2, <3>3, <3>4
  <2>. QED
    BY <2>1, <2>2
<1>7. NLOCKS \in S
  BY <1>5, <1>6, UpToTheLast, NLOCKSAssumption
<1>. QED
  BY <1>1, <1>4, <1>7 DEF HoldsNone, Lock

\* What a process inherits.
LEMMA InheritedType ==
  ASSUME NEW T, IsPrios(T), NEW p \in Procs
  PROVE  Inherited(T, p) \in Nat /\ (HoldsNone(T, p) => Inherited(T, p) = 0)
<1>1. CASE HoldsNone(T, p)
  BY <1>1 DEF Inherited
<1>2. CASE ~HoldsNone(T, p)
  <2>1. T.lprio[BestLock(T, p)] \in Nat
    BY <1>2, BestLockFound DEF IsPrios
  <2>. QED
    BY <1>2, <2>1 DEF Inherited
<1>. QED
  BY <1>1, <1>2

-------------------------------------------------------------------------------
(***************************************************************************)
(* priority_inherit().                                                     *)
(***************************************************************************)
\* Whoever is on a queue waits for that lock, and the locks L have the priority
\* of their most urgent waiter.
Fits(T, L) ==
  /\ IsPrios(T)
  /\ \A l \in Lock : \A i \in 1..Len(T.queue[l]) : T.plock[T.queue[l][i]] = l
  /\ \A l \in L \cap Lock : Greatest(T, T.queue[l], T.lprio[l])

\* What priority_inherit() leaves alone.
SameWaits(U, T) ==
  U.pprio = T.pprio /\ U.plock = T.plock /\ U.held = T.held /\ U.queue = T.queue /\ U.has = T.has

\* Whoever holds nothing and inherits nothing still inherits nothing.
NothingNew(U, T) == \A q \in Procs : HoldsNone(T, q) /\ T.pinh[q] = 0 => U.pinh[q] = 0

\* A visit takes away what is inherited from no lock, and puts the priority of
\* the lock right that the process waits for.
LEMMA VisitedKeeps ==
  ASSUME NEW T, NEW L, Fits(T, L), NEW p \in Procs, NEW U, U = Visited(T, p)
  PROVE  /\ Fits(U, L) /\ SameWaits(U, T) /\ NothingNew(U, T)
         /\ HoldsNone(T, p) => U.pinh[p] = 0
<1>. DEFINE T1 == [T EXCEPT !.pinh[p] = Inherited(T, p)]
            l == T.plock[p]
            w == WaitingPrio(T1, T.queue[l])
<1>0. IsPrios(T) /\ l \in Lock \cup {NoLock}
  BY DEF Fits, IsPrios
<1>1. PICK h \in Nat : h = Inherited(T, p) /\ (HoldsNone(T, p) => h = 0)
  BY <1>0, InheritedType
<1>2. T1 = [pprio |-> T.pprio, pinh |-> [T.pinh EXCEPT ![p] = h], plock |-> T.plock,
            held |-> T.held, lprio |-> T.lprio, queue |-> T.queue, has |-> T.has]
  <2>1. T1 = [T EXCEPT !.pinh[p] = h]
    BY <1>1
  <2>. HIDE DEF T1, l
  <2>2. T = [pprio |-> T.pprio, pinh |-> T.pinh, plock |-> T.plock, held |-> T.held,
             lprio |-> T.lprio, queue |-> T.queue, has |-> T.has]
    BY <1>0, Zenon DEF IsPrios
  <2>. QED
    BY <2>1, <2>2
<1>3. U = IF l = NoLock THEN T1 ELSE [T1 EXCEPT !.lprio[l] = w]
  BY DEF Visited
<1>. HIDE DEF T1
<1>4. /\ T1.pprio = T.pprio /\ T1.pinh = [T.pinh EXCEPT ![p] = h] /\ T1.plock = T.plock
      /\ T1.held = T.held /\ T1.lprio = T.lprio /\ T1.queue = T.queue /\ T1.has = T.has
  BY <1>2
<1>5. IsPrios(T1)
  BY <1>0, <1>1, <1>2, <1>4 DEF IsPrios
<1>6. \A q \in Procs : q # p => schedprio(T1, q) = schedprio(T, q)
  BY <1>0, <1>4 DEF schedprio, IsPrios
<1>. HIDE DEF w, l
<1>7. ASSUME NEW k \in L \cap Lock, k # l PROVE Greatest(T1, T.queue[k], T.lprio[k])
  <2>1. \A i \in 1..Len(T.queue[k]) : T.queue[k][i] \in Procs /\ T.queue[k][i] # p
    BY <1>0, <1>7 DEF Fits, IsPrios, l
  <2>2. \A i \in 1..Len(T.queue[k]) :
          schedprio(T1, T.queue[k][i]) = schedprio(T, T.queue[k][i])
    BY <1>6, <2>1
  <2>3. Greatest(T, T.queue[k], T.lprio[k])
    BY DEF Fits
  <2>. QED
    BY <2>2, <2>3 DEF Greatest
<1>8. CASE l = NoLock
  <2>1. U = T1 /\ \A k \in Lock : k # l
    BY <1>3, <1>8 DEF Lock, NoLock
  <2>2. \A k \in L \cap Lock : Greatest(U, U.queue[k], U.lprio[k])
    BY <1>4, <1>7, <2>1
  <2>3. Fits(U, L)
    BY <1>4, <1>5, <2>1, <2>2 DEF Fits
  <2>4. SameWaits(U, T)
    BY <1>4, <2>1 DEF SameWaits
  <2>5. NothingNew(U, T) /\ (HoldsNone(T, p) => U.pinh[p] = 0)
    BY <1>0, <1>1, <1>4, <2>1 DEF NothingNew, IsPrios
  <2>. QED
    BY <2>3, <2>4, <2>5
<1>9. CASE l \in Lock
  <2>1. T.queue[l] \in Seq(Procs) /\ l # NoLock
    BY <1>0, <1>9 DEF IsPrios, Lock, NoLock
  <2>2. Greatest(T1, T.queue[l], w) /\ w \in Nat
    BY <1>5, <2>1, WaitingPrioIsGreatest DEF w, Greatest
  <2>3. U = [T1 EXCEPT !.lprio[l] = w]
    BY <1>3, <2>1
  <2>4. U = [pprio |-> T.pprio, pinh |-> T1.pinh, plock |-> T.plock, held |-> T.held,
             lprio |-> [T.lprio EXCEPT ![l] = w], queue |-> T.queue, has |-> T.has]
    BY <1>2, <1>4, <2>3
  <2>5. /\ U.pprio = T.pprio /\ U.pinh = T1.pinh /\ U.plock = T.plock
        /\ U.held = T.held /\ U.lprio = [T.lprio EXCEPT ![l] = w] /\ U.queue = T.queue /\ U.has = T.has
    BY <2>4
  <2>6. IsPrios(U)
    <3>1. U.lprio \in [Lock -> Nat] /\ U.pinh \in [Procs -> Nat]
      <4>1. T.lprio \in [Lock -> Nat] /\ T1.pinh \in [Procs -> Nat]
        BY <1>0, <1>5 DEF IsPrios
      <4>. QED
        BY <2>2, <2>5, <4>1
    <3>2. U = [pprio |-> U.pprio, pinh |-> U.pinh, plock |-> U.plock, held |-> U.held,
               lprio |-> U.lprio, queue |-> U.queue, has |-> U.has]
      BY <2>4, <2>5
    <3>. QED
      BY <1>0, <2>5, <3>1, <3>2 DEF IsPrios
  <2>7. \A queue, m : Greatest(T1, queue, m) => Greatest(U, queue, m)
    BY <1>4, <2>5 DEF Greatest, schedprio
  <2>8. ASSUME NEW k \in L \cap Lock PROVE Greatest(U, U.queue[k], U.lprio[k])
    <3>1. CASE k = l
      BY <1>0, <1>9, <2>2, <2>5, <2>7, <3>1 DEF IsPrios
    <3>2. CASE k # l
      <4>1. U.lprio[k] = T.lprio[k]
        BY <1>0, <2>5, <3>2 DEF IsPrios
      <4>. QED
        BY <1>7, <2>5, <2>7, <3>2, <4>1
    <3>. QED
      BY <3>1, <3>2
  <2>9. Fits(U, L)
    BY <2>5, <2>6, <2>8 DEF Fits
  <2>10. SameWaits(U, T)
    BY <2>5 DEF SameWaits
  <2>11. NothingNew(U, T) /\ (HoldsNone(T, p) => U.pinh[p] = 0)
    BY <1>0, <1>1, <1>4, <2>5 DEF NothingNew, IsPrios
  <2>. QED
    BY <2>9, <2>10, <2>11
<1>. QED
  BY <1>0, <1>8, <1>9

\* What has come of T so far, and the loops still open.
Reached(R, T, L) ==
  /\ R = [T |-> R.T, loops |-> R.loops]
  /\ R.loops \in Seq(SUBSET Procs)
  /\ Fits(R.T, L) /\ SameWaits(R.T, T) /\ NothingNew(R.T, T)

LEMMA InheritRoundKeeps ==
  ASSUME NEW T, NEW L, NEW R, Reached(R, T, L), NEW N, N = InheritRound(R)
  PROVE  /\ Reached(N, T, L)
         /\ \A p \in Procs : \/ HoldsNone(T, p) /\ R.loops = <<{p}>>
                             \/ HoldsNone(T, p) /\ R.T.pinh[p] = 0
                             => N.T.pinh[p] = 0
<1>. DEFINE todo == Head(R.loops)
            p == Min(todo)
<1>1. CASE R.loops = <<>>
  <2>1. N = R /\ \A q : <<>> # <<{q}>>
    BY <1>1 DEF InheritRound
  <2>. QED
    BY <1>1, <2>1
<1>2. CASE R.loops # <<>> /\ todo = {}
  <2>1. N = [R EXCEPT !.loops = Tail(R.loops)] /\ Tail(R.loops) \in Seq(SUBSET Procs)
    BY <1>2 DEF InheritRound, Reached
  <2>2. N = [T |-> R.T, loops |-> Tail(R.loops)]
    BY <2>1 DEF Reached
  <2>3. \A q : R.loops # <<{q}>>
    BY <1>2
  <2>. QED
    BY <2>1, <2>2, <2>3 DEF Reached
<1>3. CASE R.loops # <<>> /\ todo # {}
  <2>1. todo \in SUBSET Procs /\ Tail(R.loops) \in Seq(SUBSET Procs)
    BY <1>3 DEF Reached
  <2>2. p \in todo
    <3>1. todo \in SUBSET Nat
      BY <2>1, ProcsAssumption
    <3>. HIDE DEF todo
    <3>. QED
      BY <1>3, <3>1, MinIsLeast
  <2>3. p \in Procs
    BY <2>1, <2>2
  <2>. DEFINE U == Visited(R.T, p)
              loops == <<Beyond(R.T, p), todo \ {p}>> \o Tail(R.loops)
  <2>4. N = [T |-> U, loops |-> loops]
    BY <1>3 DEF InheritRound
  <2>. HIDE DEF U, p, todo
  <2>5. /\ Fits(U, L) /\ SameWaits(U, R.T) /\ NothingNew(U, R.T)
        /\ HoldsNone(R.T, p) => U.pinh[p] = 0
    BY <2>3, VisitedKeeps DEF Reached, U
  <2>6. loops \in Seq(SUBSET Procs)
    <3>1. Beyond(R.T, p) \in SUBSET Procs /\ todo \ {p} \in SUBSET Procs
      BY <2>1 DEF Beyond
    <3>. QED
      BY <2>1, <3>1
  <2>7. SameWaits(U, T) /\ \A q : HoldsNone(R.T, q) <=> HoldsNone(T, q)
    BY <2>5 DEF Reached, SameWaits, HoldsNone
  <2>8. NothingNew(U, T)
    BY <2>5, <2>7 DEF Reached, NothingNew
  <2>9. Reached(N, T, L)
    BY <2>4, <2>5, <2>6, <2>7, <2>8 DEF Reached
  <2>10. ASSUME NEW q \in Procs, HoldsNone(T, q), R.loops = <<{q}>> \/ R.T.pinh[q] = 0
         PROVE  U.pinh[q] = 0
    <3>1. CASE R.T.pinh[q] = 0
      BY <2>5, <2>7, <2>10, <3>1 DEF NothingNew
    <3>2. CASE R.loops = <<{q}>>
      <4>1. todo = {q}
        BY <3>2 DEF todo
      <4>. QED
        BY <2>2, <2>5, <2>7, <2>10, <4>1
    <3>. QED
      BY <2>10, <3>1, <3>2
  <2>. QED
    BY <2>4, <2>9, <2>10
<1>. QED
  BY <1>1, <1>2, <1>3

\* The bound on the rounds: most[n] for a visit with n locks above.
MostIs(most) ==
  /\ most[0] = 2 /\ Rounds = most[NLOCKS] + 1
  /\ \A n \in 1..NLOCKS : most[n] = 2 + Cardinality(Procs) * most[n - 1]
  /\ \A n \in 0..NLOCKS : most[n] \in Nat /\ most[n] >= 2

LEMMA RoundsAreMost == \E most : MostIs(most)
<1>. DEFINE most == CHOOSE g : g = [n \in 0..NLOCKS |->
                      IF n = 0 THEN 2 ELSE 2 + Cardinality(Procs) * g[n - 1]]
            loop == [kind |-> "most"]
<1>0. NLOCKS \in Nat /\ Cardinality(Procs) \in Nat
  BY NLOCKSAssumption, ProcsAssumption, FS_CardinalityType
<1>1. Rounds = most[NLOCKS] + 1
  BY DEF Rounds
<1>2. PICK f : Loop(f, loop, 2, NLOCKS)
  BY <1>0, LoopsExist
<1>3. \A x, n : LoopRound(loop, x, n) = 2 + Cardinality(Procs) * x
  BY DEF LoopRound
<1>. HIDE DEF loop
<1>4. f = [n \in 0..NLOCKS |-> IF n = 0 THEN 2 ELSE 2 + Cardinality(Procs) * f[n - 1]]
  <2>1. f = [n \in 0..NLOCKS |-> f[n]] /\ f[0] = 2
    BY <1>2 DEF Loop
  <2>2. ASSUME NEW n \in 0..NLOCKS, n # 0 PROVE f[n] = 2 + Cardinality(Procs) * f[n - 1]
    <3>1. n \in 1..NLOCKS
      BY <1>0, <2>2
    <3>. QED
      BY <1>2, <1>3, <3>1 DEF Loop
  <2>. QED
    BY <2>1, <2>2, Zenon
<1>5. most = [n \in 0..NLOCKS |-> IF n = 0 THEN 2 ELSE 2 + Cardinality(Procs) * most[n - 1]]
  BY <1>4
<1>. HIDE DEF most
<1>6. most[0] = 2
  BY <1>0, <1>5
<1>7. \A n \in 1..NLOCKS : most[n] = 2 + Cardinality(Procs) * most[n - 1]
  <2>1. ASSUME NEW n \in 1..NLOCKS PROVE most[n] = 2 + Cardinality(Procs) * most[n - 1]
    <3>1. n \in 0..NLOCKS /\ n # 0
      BY <1>0
    <3>. QED
      BY <1>5, <3>1, Zenon
  <2>. QED
    BY <2>1
<1>8. PICK S : S = {n \in 0..NLOCKS : most[n] \in Nat /\ most[n] >= 2}
  OBVIOUS
<1>9. 0 \in S
  BY <1>0, <1>6, <1>8
<1>10. ASSUME NEW n \in 1..NLOCKS, n - 1 \in S PROVE n \in S
  <2>1. \A c, x \in Nat : 2 + c * x \in Nat /\ 2 + c * x >= 2
    OBVIOUS
  <2>2. most[n - 1] \in Nat /\ n \in 0..NLOCKS
    BY <1>0, <1>8, <1>10
  <2>. QED
    BY <1>0, <1>7, <1>8, <2>1, <2>2
<1>11. ASSUME NEW n \in 0..NLOCKS PROVE n \in S
  <2>1. n \in Nat /\ \A m \in 1..n : m \in 1..NLOCKS
    BY <1>0
  <2>2. \A m \in 1..n : m - 1 \in S => m \in S
    BY <1>10, <2>1
  <2>. QED
    BY <1>9, <2>1, <2>2, UpToTheLast
<1>. QED
  BY <1>1, <1>6, <1>7, <1>8, <1>11 DEF MostIs

\* It is a number.
LEMMA RoundsType == Rounds \in Nat /\ Rounds >= 1
<1>1. PICK most : MostIs(most)
  BY RoundsAreMost
<1>2. NLOCKS \in 0..NLOCKS
  BY NLOCKSAssumption
<1>3. most[NLOCKS] \in Nat /\ Rounds = most[NLOCKS] + 1
  BY <1>1, <1>2 DEF MostIs
<1>. QED
  BY <1>3

\* LastRound is the end of a loop, which is not at its beginning.
LEMMA LastRoundLoop ==
  ASSUME NEW T, NEW todo
  PROVE  \E f : \E n \in 1..Rounds :
           /\ Loop(f, [kind |-> "inherit"], [T |-> T, loops |-> <<todo>>], Rounds)
           /\ LastRound(T, todo) = f[n] /\ (f[n].loops = <<>> \/ n = Rounds)
<1>. DEFINE loop == [kind |-> "inherit"]
            start == [T |-> T, loops |-> <<todo>>]
            after == CHOOSE g : g = [n \in 0..Rounds |->
                       IF n = 0 THEN [T |-> T, loops |-> <<todo>>] ELSE InheritRound(g[n - 1])]
            done == CHOOSE n \in 0..Rounds : after[n].loops = <<>> \/ n = Rounds
<1>0. Rounds \in Nat /\ Rounds >= 1
  BY RoundsType
<1>1. PICK f : Loop(f, loop, start, Rounds)
  BY <1>0, LoopsExist
<1>2. \A x, n : LoopRound(loop, x, n) = InheritRound(x)
  BY DEF LoopRound
<1>3. LastRound(T, todo) = after[done]
  BY DEF LastRound
<1>. HIDE DEF loop
<1>4. f = [n \in 0..Rounds |->
             IF n = 0 THEN [T |-> T, loops |-> <<todo>>] ELSE InheritRound(f[n - 1])]
  <2>1. f = [n \in 0..Rounds |-> f[n]] /\ f[0] = [T |-> T, loops |-> <<todo>>]
    BY <1>1 DEF Loop
  <2>2. ASSUME NEW n \in 0..Rounds, n # 0 PROVE f[n] = InheritRound(f[n - 1])
    <3>1. n \in 1..Rounds
      BY <1>0, <2>2
    <3>. QED
      BY <1>1, <1>2, <3>1 DEF Loop
  <2>. QED
    BY <2>1, <2>2, Zenon
<1>5. after = [n \in 0..Rounds |->
                 IF n = 0 THEN [T |-> T, loops |-> <<todo>>] ELSE InheritRound(after[n - 1])]
  BY <1>4
<1>. HIDE DEF after
<1>6. Loop(after, loop, start, Rounds)
  <2>1. after = [n \in 0..Rounds |-> after[n]] /\ after[0] = start
    BY <1>0, <1>5
  <2>2. ASSUME NEW n \in 1..Rounds PROVE after[n] = LoopRound(loop, after[n - 1], n)
    <3>1. n \in 0..Rounds /\ n # 0
      BY <1>0
    <3>2. after[n] = InheritRound(after[n - 1])
      BY <1>5, <3>1, Zenon
    <3>. QED
      BY <1>2, <3>2
  <2>. QED
    BY <2>1, <2>2 DEF Loop
<1>7. done \in 0..Rounds /\ (after[done].loops = <<>> \/ done = Rounds)
  <2>1. \E n \in 0..Rounds : after[n].loops = <<>> \/ n = Rounds
    BY <1>0
  <2>. QED
    BY <2>1
<1>. HIDE DEF done
<1>8. done \in 1..Rounds
  <2>1. after[0].loops # <<>>
    <3>1. after[0] = start
      BY <1>6 DEF Loop
    <3>2. start.loops = <<todo>> /\ <<todo>> # <<>>
      OBVIOUS
    <3>. QED
      BY <3>1, <3>2
  <2>. QED
    BY <1>0, <1>7, <2>1
<1>. QED
  BY <1>3, <1>6, <1>7, <1>8 DEF loop

\* priority_inherit() keeps the priorities of locks right, and leaves nothing
\* inherited where nothing is held.
LEMMA PriorityInheritKeeps ==
  ASSUME NEW T, NEW L, Fits(T, L), NEW todo \in SUBSET Procs,
         NEW U, U = PriorityInherit(T, todo)
  PROVE  /\ Fits(U, L) /\ SameWaits(U, T) /\ NothingNew(U, T)
         /\ \A p \in Procs : todo = {p} /\ HoldsNone(T, p) => U.pinh[p] = 0
<1>. DEFINE start == [T |-> T, loops |-> <<todo>>]
            loop == [kind |-> "inherit"]
            None(p) == todo = {p} /\ HoldsNone(T, p)
<1>0. Rounds \in Nat /\ Rounds >= 1
  BY RoundsType
<1>0a. PICK f : \E n \in 1..Rounds : Loop(f, loop, start, Rounds) /\ U = f[n].T
  BY LastRoundLoop DEF PriorityInherit
<1>1. PICK last \in 1..Rounds : Loop(f, loop, start, Rounds) /\ U = f[last].T
  BY <1>0a
<1>2. ASSUME NEW n \in 1..Rounds PROVE f[n] = InheritRound(f[n - 1])
  BY <1>1 DEF Loop, LoopRound
<1>3. Reached(start, T, L) /\ f[0] = start
  BY <1>1 DEF Reached, SameWaits, NothingNew, Loop
<1>4. PICK S : S = {n \in 0..last : /\ Reached(f[n], T, L)
                                    /\ n # 0 => \A p \in Procs : None(p) => f[n].T.pinh[p] = 0}
  OBVIOUS
<1>5. 0 \in S
  BY <1>1, <1>3, <1>4
<1>6. ASSUME NEW n \in 1..last, n - 1 \in S PROVE n \in S
  <2>0. n \in 1..Rounds /\ n # 0 /\ n \in 0..last
    BY <1>0, <1>1
  <2>1. Reached(f[n - 1], T, L) /\ f[n] = InheritRound(f[n - 1])
    BY <1>2, <1>4, <1>6, <2>0
  <2>2. /\ Reached(f[n], T, L)
        /\ \A p \in Procs : \/ HoldsNone(T, p) /\ f[n - 1].loops = <<{p}>>
                            \/ HoldsNone(T, p) /\ f[n - 1].T.pinh[p] = 0
                            => f[n].T.pinh[p] = 0
    BY <2>1, InheritRoundKeeps
  <2>3. ASSUME NEW p \in Procs, None(p) PROVE f[n].T.pinh[p] = 0
    <3>1. CASE n = 1
      <4>1. f[n - 1].loops = <<{p}>>
        BY <1>3, <2>3, <3>1
      <4>. QED
        BY <2>2, <2>3, <4>1
    <3>2. CASE n # 1
      <4>1. n - 1 # 0
        BY <3>2
      <4>2. f[n - 1].T.pinh[p] = 0
        BY <1>4, <1>6, <2>3, <4>1
      <4>. QED
        BY <2>2, <2>3, <4>2
    <3>. QED
      BY <3>1, <3>2
  <2>. QED
    BY <1>4, <2>0, <2>2, <2>3
<1>7. last \in S /\ last # 0
  <2>1. last \in Nat /\ last # 0
    BY <1>1
  <2>. QED
    BY <1>5, <1>6, <2>1, UpToTheLast
<1>. QED
  BY <1>1, <1>4, <1>7 DEF Reached

-------------------------------------------------------------------------------
(***************************************************************************)
(* The invariant.                                                          *)
(***************************************************************************)
Waiting(p) == pstate[p] = "PRWAIT"
WaitersOf(l) == {p \in Procs : Waiting(p) /\ plock[p] = l}

\* Each queue has exactly those who wait for its lock.
QueuesRight == \A l \in Lock : HoldsIn(Procs, lqueue[l], WaitersOf(l))

\* Who waits asked for a lock that it does not hold.
WaitersReal ==
  \A p \in Procs : Waiting(p) =>
    /\ plock[p] \in Lock /\ ~lock_acquired[plock[p]][p]
    /\ qkey[p] \in LockPrios /\ qlocktype[p] \in {"READ", "WRITE"}

TimesPast == \A p \in Procs : qlockwaittime[p] <= now

\* Nobody holds a free lock.
FreeUnheld == \A l \in Lock : lstate[l] = "LFREE" => \A p \in Procs : ~lock_acquired[l][p]

\* A deleted lock that somebody still waits for: ldelete() never gets to its end.
DeletingForEver ==
  \A l \in Lock : lstate[l] = "LFREE" /\ lqueue[l] # <<>> =>
    inkernel # Nobody /\ releasing[inkernel] = <<>>

\* A releaseall() has its end before it.
EndsAhead == \A p \in Procs : releasing[p] # <<>> => releasing[p][Len(releasing[p])] = End

LocksInv ==
  /\ TypeOK
  /\ QueuesRight /\ WaitersReal /\ TimesPast /\ FreeUnheld /\ DeletingForEver /\ EndsAhead
  /\ HoldersAgree
  /\ LprioIsHighestWaiter
  /\ PriorityGivenBack
  /\ LockQueueInOrder

\* What the model assumes of its constants, for the provers.
LEMMA Constants ==
  /\ NLOCKS \in Nat \ {0} /\ Lock = 0..NLOCKS - 1
  /\ Procs \subseteq Nat \ {0} /\ IsFiniteSet(Procs)
  /\ NewPrios \subseteq Nat \ {0} /\ LockPrios \subseteq Nat
  /\ MaxTime \in Nat /\ MaxCalls \in Nat
BY ProcsAssumption, NLOCKSAssumption, PriosAssumption, BoundsAssumption DEF Lock

LEMMA InitLocksInv == Init => LocksInv
<1>. SUFFICES ASSUME Init PROVE LocksInv
  OBVIOUS
<1>1. TypeOK
  BY PriosAssumption, Constants DEF Init, TypeOK, End, NoLock, Nobody
<1>2. \A l \in Lock : lqueue[l] = <<>> /\ WaitersOf(l) = {} /\ Len(<<>>) = 0
  BY DEF Init, WaitersOf, Waiting
<1>3. QueuesRight
  BY <1>2 DEF QueuesRight, HoldsIn, Contains
<1>4. WaitersReal /\ TimesPast /\ FreeUnheld /\ DeletingForEver /\ EndsAhead /\ HoldersAgree
  BY <1>2 DEF Init, WaitersReal, Waiting, TimesPast, FreeUnheld, DeletingForEver, EndsAhead,
              HoldersAgree
<1>5. LprioIsHighestWaiter /\ PriorityGivenBack
  BY DEF Init, LprioIsHighestWaiter, PriorityGivenBack
<1>6. LockQueueInOrder
  BY <1>2 DEF LockQueueInOrder
<1>. QED
  BY <1>1, <1>3, <1>4, <1>5, <1>6 DEF LocksInv

\* The clock goes on.
LEMMA ElapseKeeps ==
  ASSUME LocksInv, Elapse
  PROVE  LocksInv'
<1>. USE DEF Elapse, procVars, lockVars, queueVars
<1>1. TypeOK'
  <2>1. now' \in 0..MaxTime
    BY Constants DEF LocksInv, TypeOK
  <2>. QED
    BY <2>1 DEF LocksInv, TypeOK
<1>2. QueuesRight' /\ WaitersReal' /\ FreeUnheld' /\ DeletingForEver' /\ EndsAhead'
  BY DEF LocksInv, QueuesRight, WaitersOf, WaitersReal, Waiting, FreeUnheld, DeletingForEver, EndsAhead
<1>3. TimesPast'
  BY DEF LocksInv, TypeOK, TimesPast
<1>4. HoldersAgree' /\ LockQueueInOrder' /\ PriorityGivenBack'
  BY DEF LocksInv, HoldersAgree, LockQueueInOrder, PriorityGivenBack, Live
<1>5. LprioIsHighestWaiter'
  <2>1. Prios' = Prios
    BY DEF Prios
  <2>. QED
    BY <2>1 DEF LocksInv, LprioIsHighestWaiter
<1>. QED
  BY <1>1, <1>2, <1>3, <1>4, <1>5 DEF LocksInv

\* A call changes nothing.
LEMMA StutterKeeps ==
  ASSUME LocksInv, UNCHANGED vars
  PROVE  LocksInv'
<1>. USE DEF vars, procVars, lockVars, queueVars
<1>1. TypeOK'
  BY DEF LocksInv, TypeOK
<1>2. /\ QueuesRight' /\ WaitersReal' /\ FreeUnheld' /\ DeletingForEver' /\ EndsAhead'
      /\ TimesPast'
  BY DEF LocksInv, QueuesRight, WaitersOf, WaitersReal, Waiting, FreeUnheld, DeletingForEver,
         EndsAhead, TimesPast
<1>3. HoldersAgree' /\ LockQueueInOrder' /\ PriorityGivenBack'
  BY DEF LocksInv, HoldersAgree, LockQueueInOrder, PriorityGivenBack, Live
<1>4. LprioIsHighestWaiter'
  <2>1. Prios' = Prios
    BY DEF Prios
  <2>. QED
    BY <2>1 DEF LocksInv, LprioIsHighestWaiter
<1>. QED
  BY <1>1, <1>2, <1>3, <1>4 DEF LocksInv

\* lcreate(): nobody holds the lock it takes, and nobody waits for it.
LEMMA LcreateKeeps ==
  ASSUME LocksInv, NEW p \in Procs, Lcreate(p)
  PROVE  LocksInv'
<1>. PICK l \in Lock :
       /\ lstate[l] = "LFREE"
       /\ nextlock' = IF l = 0 THEN NLOCKS - 1 ELSE l - 1
       /\ lstate' = [lstate EXCEPT ![l] = "LUSED"]
       /\ l_active_readers' = [l_active_readers EXCEPT ![l] = 0]
       /\ lprio' = [lprio EXCEPT ![l] = 0]
       /\ lcnt' = [lcnt EXCEPT ![l] = 1]
       /\ lock_acquired' = [lock_acquired EXCEPT ![l] = [r \in Procs |-> FALSE]]
  BY DEF Lcreate
<1>. /\ Idle
     /\ UNCHANGED <<procVars, ltype, lock_deleted, queueVars, now, releasing, inkernel,
                    semcnt, calls, asked>>
  BY DEF Lcreate, Calling
<1>. USE DEF procVars, queueVars
<1>1. TypeOK'
  <2>1. nextlock' \in Lock
    BY NLOCKSAssumption DEF Lock
  <2>2. lstate' \in [Lock -> {"LFREE", "LUSED"}] /\ lprio' \in [Lock -> Nat]
    BY DEF LocksInv, TypeOK
  <2>3. l_active_readers' \in [Lock -> Int] /\ lcnt' \in [Lock -> Nat]
    BY DEF LocksInv, TypeOK
  <2>4. lock_acquired' \in [Lock -> [Procs -> BOOLEAN]]
    BY DEF LocksInv, TypeOK
  <2>. QED
    BY <2>1, <2>2, <2>3, <2>4 DEF LocksInv, TypeOK
<1>2. lqueue[l] = <<>> /\ lock_acquired[l] = [r \in Procs |-> FALSE]
  <2>1. lqueue[l] = <<>>
    BY DEF LocksInv, DeletingForEver, Idle
  <2>2. lock_acquired[l] \in [Procs -> BOOLEAN] /\ \A r \in Procs : ~lock_acquired[l][r]
    BY DEF LocksInv, TypeOK, FreeUnheld
  <2>. QED
    BY <2>1, <2>2
<1>3. lock_acquired' = lock_acquired
  BY <1>2 DEF LocksInv, TypeOK
<1>. HIDE DEF procVars, queueVars
<1>. UNCHANGED <<pstate, pprio, pinh, plock, plocksacquired, lqueue, qkey, qlocktype, qlockwaittime>>
  BY DEF procVars, queueVars
<1>4. QueuesRight' /\ WaitersReal' /\ EndsAhead' /\ TimesPast'
  BY <1>3 DEF LocksInv, QueuesRight, WaitersOf, WaitersReal, Waiting, EndsAhead, TimesPast
<1>5. FreeUnheld' /\ DeletingForEver'
  BY <1>3 DEF LocksInv, TypeOK, FreeUnheld, DeletingForEver
<1>6. HoldersAgree' /\ LockQueueInOrder' /\ PriorityGivenBack'
  BY <1>3 DEF LocksInv, HoldersAgree, LockQueueInOrder, PriorityGivenBack, Live
<1>7. LprioIsHighestWaiter'
  <2>1. \A q : WaitingPrio(Prios', q) = WaitingPrio(Prios, q)
    BY DEF Prios, WaitingPrio, schedprio
  <2>2. WaitingPrio(Prios, <<>>) = 0
    BY DEF WaitingPrio, Max
  <2>3. ASSUME NEW k \in Lock, lstate'[k] = "LUSED"
        PROVE  lprio'[k] = WaitingPrio(Prios', lqueue'[k])
    BY <1>2, <2>1, <2>2, <2>3 DEF LocksInv, TypeOK, LprioIsHighestWaiter
  <2>. QED
    BY <2>3 DEF LprioIsHighestWaiter
<1>. QED
  BY <1>1, <1>4, <1>5, <1>6, <1>7 DEF LocksInv

\* releaseall() begins.
LEMMA ReleaseallKeeps ==
  ASSUME LocksInv, NEW p \in Procs, Releaseall(p)
  PROVE  LocksInv'
<1>0. /\ releasing[p] = <<>> /\ inkernel' = p /\ Idle
      /\ UNCHANGED <<procVars, lockVars, queueVars, nextlock, now, semcnt, calls, asked>>
  BY DEF Releaseall, Calling
<1>1. PICK n \in 1..NLOCKS : \E held \in [1..n -> {l \in Lock : lock_acquired[l][p]}] :
        releasing' = [releasing EXCEPT ![p] = Append(held, End)]
  BY DEF Releaseall
<1>2. PICK held \in [1..n -> {l \in Lock : lock_acquired[l][p]}] :
        releasing' = [releasing EXCEPT ![p] = Append(held, End)]
  BY <1>1
<1>. DEFINE list == Append(held, End)
<1>3. held \in Seq(Lock \cup {End}) /\ n \in Nat /\ Len(held) = n
  BY NLOCKSAssumption
<1>4. list \in Seq(Lock \cup {End}) /\ list # <<>> /\ list[Len(list)] = End
  BY <1>3
<1>5. releasing' = [releasing EXCEPT ![p] = list]
  BY <1>2
<1>. HIDE DEF list
<1>. USE DEF procVars, lockVars, queueVars
<1>6. \A q \in Procs : releasing'[q] = IF q = p THEN list ELSE releasing[q]
  BY <1>5 DEF LocksInv, TypeOK
<1>7. TypeOK'
  <2>1. releasing' \in [Procs -> Seq(Lock \cup {End})]
    BY <1>4, <1>5 DEF LocksInv, TypeOK
  <2>2. inkernel' \in Procs \cup {Nobody}
    BY <1>0
  <2>. QED
    BY <1>0, <2>1, <2>2 DEF LocksInv, TypeOK
<1>8. QueuesRight' /\ WaitersReal' /\ FreeUnheld' /\ TimesPast'
  BY <1>0 DEF LocksInv, QueuesRight, WaitersOf, WaitersReal, Waiting, FreeUnheld, TimesPast
<1>9. EndsAhead' /\ DeletingForEver'
  BY <1>0, <1>4, <1>6 DEF LocksInv, EndsAhead, DeletingForEver, Idle
<1>10. HoldersAgree' /\ LockQueueInOrder' /\ PriorityGivenBack'
  BY <1>0, <1>4, <1>6 DEF LocksInv, HoldersAgree, LockQueueInOrder, PriorityGivenBack, Live
<1>11. LprioIsHighestWaiter'
  <2>1. Prios' = Prios
    BY <1>0 DEF Prios
  <2>. QED
    BY <1>0, <2>1 DEF LocksInv, LprioIsHighestWaiter
<1>. QED
  BY <1>7, <1>8, <1>9, <1>10, <1>11 DEF LocksInv

-------------------------------------------------------------------------------
(***************************************************************************)
(* lock().                                                                 *)
(***************************************************************************)
\* A process is given a lock: it waits for none, and both tables are told.
LEMMA AcquireFacts ==
  ASSUME TypeOK, HoldersAgree, NEW l \in Lock, NEW p \in Procs, Acquire(l, p)
  PROVE  /\ lock_acquired' \in [Lock -> [Procs -> BOOLEAN]]
         /\ plocksacquired' \in [Procs -> [Lock -> {"no", "yes", "DELETED"}]]
         /\ HoldersAgree'
         /\ \A k \in Lock, q \in Procs :
              /\ lock_acquired'[k][q] <=> lock_acquired[k][q] \/ (k = l /\ q = p)
              /\ plocksacquired'[q][k] = IF k = l /\ q = p THEN "yes" ELSE plocksacquired[q][k]
<1>1. /\ lock_acquired \in [Lock -> [Procs -> BOOLEAN]]
      /\ plocksacquired \in [Procs -> [Lock -> {"no", "yes", "DELETED"}]]
  BY DEF TypeOK
<1>2. /\ lock_acquired' = [lock_acquired EXCEPT ![l][p] = TRUE]
      /\ plocksacquired' = [plocksacquired EXCEPT ![p][l] = "yes"]
  BY DEF Acquire
<1>3. \A k \in Lock, q \in Procs :
        lock_acquired'[k][q] = IF k = l /\ q = p THEN TRUE ELSE lock_acquired[k][q]
  BY <1>1, <1>2
<1>4. \A k \in Lock, q \in Procs :
        plocksacquired'[q][k] = IF k = l /\ q = p THEN "yes" ELSE plocksacquired[q][k]
  BY <1>1, <1>2
<1>5. lock_acquired' \in [Lock -> [Procs -> BOOLEAN]]
  BY <1>1, <1>2
<1>6. plocksacquired' \in [Procs -> [Lock -> {"no", "yes", "DELETED"}]]
  BY <1>1, <1>2
<1>7. HoldersAgree'
  <2>1. ASSUME NEW k \in Lock, NEW q \in Procs
        PROVE  lock_acquired'[k][q] <=> plocksacquired'[q][k] = "yes"
    <3>1. CASE k = l /\ q = p
      <4>1. lock_acquired'[k][q] = TRUE /\ plocksacquired'[q][k] = "yes"
        BY <1>3, <1>4, <3>1, Zenon
      <4>. QED
        BY <4>1
    <3>2. CASE ~(k = l /\ q = p)
      <4>1. lock_acquired'[k][q] = lock_acquired[k][q]
        BY <1>3, <3>2, Zenon
      <4>2. plocksacquired'[q][k] = plocksacquired[q][k]
        BY <1>4, <3>2, Zenon
      <4>. QED
        BY <4>1, <4>2, Zenon DEF HoldersAgree
    <3>. QED
      BY <3>1, <3>2
  <2>. QED
    BY <2>1 DEF HoldersAgree
<1>. QED
  BY <1>3, <1>4, <1>5, <1>6, <1>7

\* Who gets a lock at once, as the first or with other readers.
LEMMA LockAtOnceKeeps ==
  ASSUME LocksInv, NEW l \in Lock, NEW type \in {"READ", "WRITE"}, NEW priority \in LockPrios,
         NEW p \in Procs, LockCall(l, type, priority, p),
         LockFirst(l, type, p) \/ LockShared(l, type, priority, p)
  PROVE  LocksInv'
<1>1. /\ Idle /\ pstate[p] = "RUNNABLE" /\ releasing[p] = <<>> /\ lstate[l] # "LFREE"
      /\ calls < MaxCalls /\ calls' = calls + 1
      /\ pprevlock' = [pprevlock EXCEPT ![p] = @ \cup {l}]
      /\ UNCHANGED <<pprio, lstate, lock_deleted, nextlock, now, releasing, inkernel, semcnt>>
  BY DEF LockCall, Calling, CountCall, Refused
<1>2. /\ Acquire(l, p)
      /\ asked' = [asked EXCEPT ![l][p] = type]
      /\ UNCHANGED <<pstate, plock, pinh, pwaitret, lprio, lqueue, qkey, qlocktype, qlockwaittime>>
  BY DEF LockFirst, LockShared, queueVars
<1>3. /\ lcnt' \in [Lock -> Nat] /\ ltype' \in [Lock -> {"unset", "READ", "WRITE"}]
      /\ l_active_readers' \in [Lock -> Int]
  <2>1. CASE LockFirst(l, type, p)
    <3>1. lcnt[l] - 1 \in Nat
      BY <2>1, SMTT(30), ZenonT(30) DEF LocksInv, TypeOK, LockFirst
    <3>2. lcnt' \in [Lock -> Nat]
      BY <2>1, <3>1 DEF LocksInv, TypeOK, LockFirst
    <3>3. ltype' \in [Lock -> {"unset", "READ", "WRITE"}] /\ l_active_readers' \in [Lock -> Int]
      BY <2>1, SMTT(30), ZenonT(30) DEF LocksInv, TypeOK, LockFirst
    <3>. QED
      BY <3>2, <3>3
  <2>2. CASE LockShared(l, type, priority, p)
    BY <2>2, SMTT(30), ZenonT(30) DEF LocksInv, TypeOK, LockShared
  <2>. QED
    BY <2>1, <2>2
<1>4. TypeOK /\ HoldersAgree
  BY DEF LocksInv
<1>5. /\ lock_acquired' \in [Lock -> [Procs -> BOOLEAN]]
      /\ plocksacquired' \in [Procs -> [Lock -> {"no", "yes", "DELETED"}]]
      /\ HoldersAgree'
      /\ \A k \in Lock, q \in Procs :
           /\ lock_acquired'[k][q] <=> lock_acquired[k][q] \/ (k = l /\ q = p)
           /\ plocksacquired'[q][k] = IF k = l /\ q = p THEN "yes" ELSE plocksacquired[q][k]
  BY <1>2, <1>4, AcquireFacts
<1>6. TypeOK'
  <2>1. calls' \in 0..MaxCalls
    BY <1>1, <1>4, BoundsAssumption DEF TypeOK
  <2>2. pprevlock' \in [Procs -> SUBSET Lock]
    BY <1>1, <1>4 DEF TypeOK
  <2>3. asked' \in [Lock -> [Procs -> {"unset", "READ", "WRITE"}]]
    BY <1>2, <1>4 DEF TypeOK
  <2>. QED
    BY <1>1, <1>2, <1>3, <1>4, <1>5, <2>1, <2>2, <2>3 DEF TypeOK
<1>7. QueuesRight' /\ TimesPast' /\ EndsAhead' /\ DeletingForEver' /\ LockQueueInOrder'
  <2>1. QueuesRight'
    BY <1>2 DEF LocksInv, QueuesRight, WaitersOf, Waiting
  <2>2. TimesPast' /\ EndsAhead' /\ DeletingForEver'
    BY <1>1, <1>2 DEF LocksInv, TimesPast, EndsAhead, DeletingForEver
  <2>3. LockQueueInOrder'
    BY <1>2 DEF LocksInv, LockQueueInOrder
  <2>. QED
    BY <2>1, <2>2, <2>3
<1>8. WaitersReal'
  <2>1. ASSUME NEW q \in Procs, Waiting(q)'
        PROVE  /\ plock'[q] \in Lock /\ ~lock_acquired'[plock'[q]][q]
               /\ qkey'[q] \in LockPrios /\ qlocktype'[q] \in {"READ", "WRITE"}
    <3>1. Waiting(q) /\ q # p
      BY <1>1, <1>2, <2>1 DEF Waiting
    <3>. QED
      BY <1>2, <1>5, <3>1 DEF LocksInv, WaitersReal
  <2>. QED
    BY <2>1 DEF WaitersReal
<1>9. FreeUnheld'
  BY <1>1, <1>5 DEF LocksInv, FreeUnheld
<1>10. LprioIsHighestWaiter'
  <2>1. \A q : WaitingPrio(Prios', q) = WaitingPrio(Prios, q)
    BY <1>1, <1>2 DEF Prios, WaitingPrio, schedprio
  <2>. QED
    BY <1>1, <1>2, <2>1 DEF LocksInv, LprioIsHighestWaiter
<1>11. PriorityGivenBack'
  <2>1. ASSUME NEW q \in Procs, Live(q)', releasing'[q] = <<>>,
               \A k \in Lock : plocksacquired'[q][k] = "no"
        PROVE  pinh'[q] = 0
    <3>1. \A k \in Lock : plocksacquired[q][k] = "no"
      <4>1. \A k \in Lock : plocksacquired'[q][k] = plocksacquired[q][k]
        BY <1>5, <2>1
      <4>. QED
        BY <2>1, <4>1
    <3>. QED
      BY <1>1, <1>2, <2>1, <3>1 DEF LocksInv, PriorityGivenBack, Live
  <2>. QED
    BY <2>1 DEF PriorityGivenBack
<1>. QED
  BY <1>5, <1>6, <1>7, <1>8, <1>9, <1>10, <1>11 DEF LocksInv

Used == {l \in Lock : lstate[l] = "LUSED"}

\* Who is on a queue waits for that lock.
LEMMA QueuedWaits ==
  ASSUME TypeOK, QueuesRight, NEW l \in Lock, NEW i \in 1..Len(lqueue[l])
  PROVE  lqueue[l][i] \in Procs /\ Waiting(lqueue[l][i]) /\ plock[lqueue[l][i]] = l
<1>1. lqueue[l] \in Seq(Procs)
  BY DEF TypeOK
<1>2. lqueue[l][i] \in Procs /\ Contains(lqueue[l], lqueue[l][i])
  BY <1>1 DEF Contains
<1>. QED
  BY <1>2 DEF QueuesRight, HoldsIn, WaitersOf

\* The priorities fit, as the invariant says.
LEMMA PriosFit ==
  ASSUME LocksInv
  PROVE  IsPrios(Prios) /\ Fits(Prios, Used)
<1>1. IsPrios(Prios)
  BY DEF LocksInv, TypeOK, IsPrios, Prios
<1>2. ASSUME NEW l \in Lock, NEW i \in 1..Len(Prios.queue[l])
      PROVE  Prios.plock[Prios.queue[l][i]] = l
  BY QueuedWaits DEF LocksInv, Prios
<1>3. ASSUME NEW l \in Used \cap Lock PROVE Greatest(Prios, Prios.queue[l], Prios.lprio[l])
  <2>1. lqueue[l] \in Seq(Procs) /\ lprio[l] = WaitingPrio(Prios, lqueue[l])
    BY DEF LocksInv, TypeOK, LprioIsHighestWaiter, Used
  <2>2. Greatest(Prios, lqueue[l], lprio[l])
    BY <1>1, <2>1, WaitingPrioIsGreatest
  <2>. QED
    BY <2>2 DEF Prios
<1>. QED
  BY <1>1, <1>2, <1>3 DEF Fits

\* Where the priorities fit, that of a lock is what a search of its queue finds.
LEMMA FitsLprio ==
  ASSUME NEW T, NEW L, Fits(T, L), NEW l \in L \cap Lock
  PROVE  T.lprio[l] = WaitingPrio(T, T.queue[l])
<1>1. IsPrios(T) /\ T.queue[l] \in Seq(Procs) /\ Greatest(T, T.queue[l], T.lprio[l])
  BY DEF Fits, IsPrios
<1>2. Greatest(T, T.queue[l], WaitingPrio(T, T.queue[l]))
  BY <1>1, WaitingPrioIsGreatest
<1>. QED
  BY <1>1, <1>2, GreatestIsOne

\* One more waits, and the lock has the priority that is then the greatest.
LEMMA GreatestWithOneMore ==
  ASSUME NEW T, IsPrios(T), NEW queue \in Seq(Procs), NEW p \in Procs, NEW m \in Nat,
         Greatest(T, queue, m), NEW at \in 1..Len(queue) + 1,
         NEW new \in Seq(Procs), PutIn(new, queue, at, p)
  PROVE  Greatest(T, new, IF schedprio(T, p) > m THEN schedprio(T, p) ELSE m)
<1>. USE DEF PutIn
<1>1. PICK own \in Nat : own = schedprio(T, p)
  BY SchedprioType
<1>2. PICK g \in Nat : g = IF own > m THEN own ELSE m
  OBVIOUS
<1>3. ASSUME NEW i \in 1..Len(new) PROVE schedprio(T, new[i]) <= g
  <2>1. CASE i = at
    BY <1>1, <1>2, <2>1
  <2>2. CASE i < at
    <3>1. i \in 1..Len(queue) /\ new[i] = queue[i] /\ queue[i] \in Procs
      BY <2>2
    <3>2. schedprio(T, queue[i]) <= m /\ schedprio(T, queue[i]) \in Nat
      BY <3>1, SchedprioType DEF Greatest
    <3>. QED
      BY <1>2, <3>1, <3>2
  <2>3. CASE i > at
    <3>1. i - 1 \in 1..Len(queue) /\ new[i] = queue[i - 1] /\ queue[i - 1] \in Procs
      BY <2>3
    <3>2. schedprio(T, queue[i - 1]) <= m /\ schedprio(T, queue[i - 1]) \in Nat
      BY <3>1, SchedprioType DEF Greatest
    <3>. QED
      BY <1>2, <3>1, <3>2
  <2>. QED
    BY <2>1, <2>2, <2>3
<1>4. g = 0 \/ \E i \in 1..Len(new) : g = schedprio(T, new[i])
  <2>1. CASE own > m
    <3>1. at \in 1..Len(new) /\ new[at] = p
      OBVIOUS
    <3>. QED
      BY <1>1, <1>2, <2>1, <3>1
  <2>2. CASE ~(own > m) /\ m # 0
    <3>1. PICK k \in 1..Len(queue) : m = schedprio(T, queue[k])
      BY <2>2 DEF Greatest
    <3>2. CASE k < at
      <4>1. k \in 1..Len(new) /\ new[k] = queue[k]
        BY <3>2
      <4>. QED
        BY <1>2, <2>2, <3>1, <4>1
    <3>3. CASE k >= at
      <4>1. k + 1 \in 1..Len(new) /\ new[k + 1] = queue[(k + 1) - 1] /\ (k + 1) - 1 = k
        BY <3>3
      <4>. QED
        BY <1>2, <2>2, <3>1, <4>1
    <3>. QED
      BY <3>2, <3>3
  <2>3. CASE ~(own > m) /\ m = 0
    BY <1>2, <2>3
  <2>. QED
    BY <2>1, <2>2, <2>3
<1>. QED
  BY <1>1, <1>2, <1>3, <1>4 DEF Greatest

\* A queue in the order of the keys, and for equal keys of the times.
InLine(queue, keys, times) ==
  \A i, j \in 1..Len(queue) : i < j =>
    \/ keys[queue[i]] < keys[queue[j]]
    \/ keys[queue[i]] = keys[queue[j]] /\ times[queue[i]] >= times[queue[j]]

\* The new waiter stands where its lock priority says.
LEMMA InsertedInOrder ==
  ASSUME NEW queue \in Seq(Procs), NEW keys \in [Procs -> Nat], NEW times \in [Procs -> Nat],
         InLine(queue, keys, times),
         NEW p \in Procs, \A i \in 1..Len(queue) : queue[i] # p,
         NEW key \in Nat, NEW time \in Nat, \A q \in Procs : times[q] <= time,
         NEW at \in 1..Len(queue) + 1,
         \A i \in 1..Len(queue) : i < at => keys[queue[i]] < key,
         at <= Len(queue) => keys[queue[at]] >= key,
         NEW new, PutIn(new, queue, at, p)
  PROVE  InLine(new, [keys EXCEPT ![p] = key], [times EXCEPT ![p] = time])
<1>. DEFINE Old(k) == IF k < at THEN k ELSE k - 1
            keys1 == [keys EXCEPT ![p] = key]
            times1 == [times EXCEPT ![p] = time]
<1>0. Len(new) = Len(queue) + 1 /\ Len(queue) \in Nat
  BY DEF PutIn
<1>1. ASSUME NEW k \in 1..Len(new), k # at
      PROVE  /\ Old(k) \in 1..Len(queue) /\ queue[Old(k)] \in Procs
             /\ keys1[new[k]] = keys[queue[Old(k)]] /\ times1[new[k]] = times[queue[Old(k)]]
  <2>1. Old(k) \in 1..Len(queue)
    BY <1>0, <1>1
  <2>2. new[k] = queue[Old(k)]
    BY <1>1 DEF PutIn
  <2>. HIDE DEF Old
  <2>3. queue[Old(k)] \in Procs /\ queue[Old(k)] # p
    BY <2>1
  <2>. QED
    BY <2>1, <2>2, <2>3
<1>2. new[at] = p /\ keys1[p] = key /\ times1[p] = time
  BY <1>0 DEF PutIn
<1>. HIDE DEF keys1, times1
<1>3. ASSUME NEW i \in 1..Len(new), NEW j \in 1..Len(new), i < j
      PROVE  \/ keys1[new[i]] < keys1[new[j]]
             \/ keys1[new[i]] = keys1[new[j]] /\ times1[new[i]] >= times1[new[j]]
  <2>1. CASE i # at /\ j # at
    <3>1. Old(i) < Old(j)
      BY <1>3, <2>1
    <3>. HIDE DEF Old
    <3>2. /\ Old(i) \in 1..Len(queue) /\ Old(j) \in 1..Len(queue)
          /\ keys1[new[i]] = keys[queue[Old(i)]] /\ times1[new[i]] = times[queue[Old(i)]]
          /\ keys1[new[j]] = keys[queue[Old(j)]] /\ times1[new[j]] = times[queue[Old(j)]]
      BY <1>1, <2>1
    <3>3. \/ keys[queue[Old(i)]] < keys[queue[Old(j)]]
          \/ /\ keys[queue[Old(i)]] = keys[queue[Old(j)]]
             /\ times[queue[Old(i)]] >= times[queue[Old(j)]]
      BY <3>1, <3>2 DEF InLine
    <3>. QED
      BY <3>2, <3>3
  <2>2. CASE j = at
    <3>1. i \in 1..Len(queue) /\ i < at /\ i # at
      BY <1>0, <1>3, <2>2
    <3>2. keys1[new[i]] = keys[queue[i]]
      BY <1>1, <3>1
    <3>. QED
      BY <1>2, <2>2, <3>1, <3>2
  <2>3. CASE i = at
    <3>1. /\ j # at /\ Old(j) = j - 1 /\ j - 1 \in 1..Len(queue) /\ at <= j - 1
          /\ at \in 1..Len(queue) /\ at <= Len(queue)
      BY <1>0, <1>3, <2>3
    <3>2. keys1[new[j]] = keys[queue[j - 1]] /\ times1[new[j]] = times[queue[j - 1]]
      BY <1>1, <3>1
    <3>3. queue[j - 1] \in Procs /\ queue[at] \in Procs
      BY <3>1
    <3>. PICK k \in Nat : k = keys[queue[j - 1]]
      BY <3>3
    <3>. PICK h \in Nat : h = keys[queue[at]]
      BY <3>3
    <3>4. h >= key
      BY <3>1
    <3>5. k >= h
      <4>1. CASE at = j - 1
        BY <4>1
      <4>2. CASE at # j - 1
        <5>1. at < j - 1
          BY <3>1, <4>2
        <5>2. h < k \/ h = k
          BY <3>1, <5>1 DEF InLine
        <5>3. \A x, y \in Nat : x < y \/ x = y => y >= x
          OBVIOUS
        <5>. QED
          BY <5>2, <5>3
      <4>. QED
        BY <4>1, <4>2
    <3>6. keys1[new[i]] = key /\ times1[new[i]] = time /\ keys1[new[j]] = k
      BY <1>2, <2>3, <3>2
    <3>7. times1[new[i]] >= times1[new[j]]
      BY <3>2, <3>3, <3>6
    <3>8. key < k \/ key = k
      <4>1. \A x, y, z \in Nat : y >= x /\ z >= y => x < z \/ x = z
        OBVIOUS
      <4>. QED
        BY <3>4, <3>5, <4>1
    <3>9. CASE key < k
      BY <3>6, <3>9, ZenonT(30)
    <3>10. CASE key = k
      BY <3>6, <3>7, <3>10, ZenonT(30)
    <3>. QED
      BY <3>8, <3>9, <3>10
  <2>. QED
    BY <2>1, <2>2, <2>3
<1>. QED
  BY <1>3 DEF InLine, keys1, times1

\* The keys and times of the queues are numbers.
LEMMA KeysTyped ==
  ASSUME TypeOK
  PROVE  qkey \in [Procs -> Nat] /\ qlockwaittime \in [Procs -> Nat] /\ now \in Nat
<1>1. LockPrios \cup {0} \subseteq Nat /\ 0..MaxTime \subseteq Nat
  BY Constants
<1>2. /\ qkey \in [Procs -> LockPrios \cup {0}] /\ qlockwaittime \in [Procs -> 0..MaxTime]
      /\ now \in 0..MaxTime
  BY DEF TypeOK
<1>. QED
  BY <1>1, <1>2

\* Who has to wait.
LEMMA LockWaitKeeps ==
  ASSUME LocksInv, NEW l \in Lock, NEW type \in {"READ", "WRITE"}, NEW priority \in LockPrios,
         NEW p \in Procs, LockCall(l, type, priority, p), LockWait(l, type, priority, p)
  PROVE  LocksInv'
<1>. DEFINE own == schedprio(Prios, p)
            g == IF own > lprio[l] THEN own ELSE lprio[l]
            new == QueueInsert(lqueue[l], p, priority)
            T == [Prios EXCEPT !.plock = plock', !.queue = lqueue',
                               !.lprio[l] = IF own > @ THEN own ELSE @]
            U == InheritAll(T, l)
<1>1. /\ Idle /\ pstate[p] = "RUNNABLE" /\ releasing[p] = <<>> /\ lstate[l] = "LUSED"
      /\ calls < MaxCalls /\ calls' = calls + 1 /\ ~lock_acquired[l][p]
      /\ pprevlock' = [pprevlock EXCEPT ![p] = @ \cup {l}]
      /\ UNCHANGED <<pprio, lstate, lock_deleted, nextlock, now, releasing, inkernel, semcnt>>
  <2>1. InOrder(p, l) /\ lstate[l] # "LFREE"
    BY DEF LockCall, Refused
  <2>2. ~lock_acquired[l][p]
    BY <2>1 DEF InOrder, Lock
  <2>. QED
    BY <2>1, <2>2 DEF LockCall, Calling, CountCall, LocksInv, TypeOK
<1>2. /\ pstate' = [pstate EXCEPT ![p] = "PRWAIT"]
      /\ plock' = [plock EXCEPT ![p] = l]
      /\ lqueue' = [lqueue EXCEPT ![l] = new]
      /\ qkey' = [qkey EXCEPT ![p] = priority]
      /\ qlocktype' = [qlocktype EXCEPT ![p] = type]
      /\ qlockwaittime' = [qlockwaittime EXCEPT ![p] = now]
      /\ pwaitret' = [pwaitret EXCEPT ![p] = "OK"]
      /\ pinh' = U.pinh /\ lprio' = U.lprio
      /\ UNCHANGED <<plocksacquired, lock_acquired, ltype, lcnt, l_active_readers, asked>>
  BY DEF LockWait, SetPrios
<1>. HIDE DEF U
<1>3. TypeOK /\ priority \in Nat /\ IsPrios(Prios) /\ Fits(Prios, Used)
  BY PriosAssumption, PriosFit DEF LocksInv
<1>4. own \in Nat
  BY <1>3, SchedprioType
<1>. HIDE DEF own
<1>5. lqueue[l] \in Seq(Procs) /\ HoldsIn(Procs, lqueue[l], WaitersOf(l)) /\ p \notin WaitersOf(l)
  BY <1>1, <1>3 DEF TypeOK, LocksInv, QueuesRight, WaitersOf, Waiting
<1>6. qkey \in [Procs -> Nat] /\ qlockwaittime \in [Procs -> Nat] /\ now \in Nat
  BY <1>3, KeysTyped
<1>7. /\ new \in Seq(Procs) /\ HoldsIn(Procs, new, WaitersOf(l) \cup {p})
      /\ \E at \in 1..Len(lqueue[l]) + 1 :
           /\ PutIn(new, lqueue[l], at, p)
           /\ \A i \in 1..Len(lqueue[l]) : i < at => qkey[lqueue[l][i]] < priority
           /\ at <= Len(lqueue[l]) => qkey[lqueue[l][at]] >= priority
  <2>. HIDE DEF new
  <2>1. new = QueueInsert(lqueue[l], p, priority)
    BY DEF new
  <2>. QED
    BY <1>3, <1>5, <1>6, <2>1, QueueInsertFacts
<1>8. PICK at \in 1..Len(lqueue[l]) + 1 :
        /\ PutIn(new, lqueue[l], at, p)
        /\ \A i \in 1..Len(lqueue[l]) : i < at => qkey[lqueue[l][i]] < priority
        /\ at <= Len(lqueue[l]) => qkey[lqueue[l][at]] >= priority
  BY <1>7
<1>. HIDE DEF new
<1>9. T = [pprio |-> pprio, pinh |-> pinh, plock |-> plock', held |-> plocksacquired,
           lprio |-> [lprio EXCEPT ![l] = g], queue |-> lqueue', has |-> lock_acquired]
  <2>1. Prios = [pprio |-> pprio, pinh |-> pinh, plock |-> plock, held |-> plocksacquired,
                 lprio |-> lprio, queue |-> lqueue, has |-> lock_acquired]
    BY DEF Prios
  <2>2. T = [Prios EXCEPT !.plock = plock', !.queue = lqueue', !.lprio[l] = g]
    BY <1>3, <2>1
  <2>. HIDE DEF T, g
  <2>. QED
    BY <2>1, <2>2
<1>. HIDE DEF T, g
<1>10. /\ T.pprio = pprio /\ T.pinh = pinh /\ T.plock = plock' /\ T.held = plocksacquired
       /\ T.lprio = [lprio EXCEPT ![l] = g] /\ T.queue = lqueue' /\ T.has = lock_acquired
  BY <1>9
<1>11. g \in Nat
  BY <1>3, <1>4 DEF g, TypeOK
<1>12. /\ lqueue' \in [Lock -> Seq(Procs)]
       /\ plock' \in [Procs -> Lock \cup {NoLock}]
       /\ T.lprio \in [Lock -> Nat]
  <2>1. /\ lqueue \in [Lock -> Seq(Procs)] /\ plock \in [Procs -> Lock \cup {NoLock}]
        /\ lprio \in [Lock -> Nat]
    BY <1>3 DEF TypeOK
  <2>2. lqueue' = [lqueue EXCEPT ![l] = new] /\ new \in Seq(Procs)
    BY <1>2, <1>7
  <2>3. plock' = [plock EXCEPT ![p] = l]
    BY <1>2
  <2>4. lqueue' \in [Lock -> Seq(Procs)]
    BY <2>1, <2>2
  <2>. QED
    BY <1>10, <1>11, <2>1, <2>3, <2>4
<1>13. IsPrios(T)
  <2>1. T = [pprio |-> T.pprio, pinh |-> T.pinh, plock |-> T.plock, held |-> T.held,
             lprio |-> T.lprio, queue |-> T.queue, has |-> T.has]
    BY <1>9, <1>10
  <2>2. /\ pprio \in [Procs -> Nat] /\ pinh \in [Procs -> Nat]
        /\ plocksacquired \in [Procs -> [Lock -> {"no", "yes", "DELETED"}]]
    BY <1>3 DEF TypeOK
  <2>3. \A k \in Lock : T.queue[k] \in Seq(Procs)
    BY <1>10, <1>12
  <2>. QED
    BY <1>10, <1>12, <2>1, <2>2, <2>3, Zenon DEF IsPrios
<1>14. \A q : schedprio(T, q) = schedprio(Prios, q)
  BY <1>10 DEF schedprio, Prios
<1>15. QueuesRight' /\ \A k \in Lock : \A i \in 1..Len(lqueue'[k]) : plock'[lqueue'[k][i]] = k
  <2>1. ASSUME NEW k \in Lock PROVE HoldsIn(Procs, lqueue'[k], WaitersOf(k)')
    <3>1. CASE k = l
      <4>1. WaitersOf(l)' = WaitersOf(l) \cup {p} /\ lqueue'[l] = new
        BY <1>2, <1>3 DEF TypeOK, WaitersOf, Waiting
      <4>. QED
        BY <1>7, <3>1, <4>1
    <3>2. CASE k # l
      <4>1. WaitersOf(k)' = WaitersOf(k) /\ lqueue'[k] = lqueue[k]
        BY <1>1, <1>2, <1>3, <3>2 DEF TypeOK, WaitersOf, Waiting
      <4>. QED
        BY <4>1 DEF LocksInv, QueuesRight
    <3>. QED
      BY <3>1, <3>2
  <2>2. ASSUME NEW k \in Lock, NEW i \in 1..Len(lqueue'[k]) PROVE plock'[lqueue'[k][i]] = k
    <3>1. lqueue'[k][i] \in Procs /\ Contains(lqueue'[k], lqueue'[k][i])
      BY <1>12 DEF Contains
    <3>. QED
      BY <2>1, <3>1 DEF HoldsIn, WaitersOf
  <2>. QED
    BY <2>1, <2>2 DEF QueuesRight
<1>16. Fits(T, Used)
  <2>1. ASSUME NEW k \in Used \cap Lock PROVE Greatest(T, T.queue[k], T.lprio[k])
    <3>0. Greatest(Prios, lqueue[k], lprio[k])
      BY <1>3 DEF Fits, Prios
    <3>1. CASE k = l
      <4>1. T.queue[k] = new /\ T.lprio[k] = g
        BY <1>2, <1>3, <1>10, <3>1 DEF TypeOK
      <4>2. lprio[l] \in Nat /\ new \in Seq(Procs)
        BY <1>3, <1>7 DEF TypeOK
      <4>3. Greatest(Prios, new, g)
        BY <1>3, <1>5, <1>8, <3>0, <3>1, <4>2, GreatestWithOneMore DEF g, own
      <4>. QED
        BY <1>14, <4>1, <4>3 DEF Greatest
    <3>2. CASE k # l
      <4>1. T.queue[k] = lqueue[k] /\ T.lprio[k] = lprio[k]
        BY <1>2, <1>3, <1>10, <3>2 DEF TypeOK
      <4>. QED
        BY <1>14, <3>0, <4>1 DEF Greatest
    <3>. QED
      BY <3>1, <3>2
  <2>. QED
    BY <1>10, <1>13, <1>15, <2>1 DEF Fits
<1>17. Fits(U, Used) /\ SameWaits(U, T) /\ NothingNew(U, T)
  <2>1. U = PriorityInherit(T, {h \in Procs : T.has[l][h]})
    BY DEF U, InheritAll
  <2>. QED
    BY <1>16, <2>1, PriorityInheritKeeps
<1>18. IsPrios(U) /\ Prios' = U
  BY <1>1, <1>2, <1>10, <1>17 DEF Fits, IsPrios, SameWaits, Prios
<1>19. LprioIsHighestWaiter'
  <2>1. ASSUME NEW k \in Lock, lstate'[k] = "LUSED"
        PROVE  lprio'[k] = WaitingPrio(Prios', lqueue'[k])
    <3>1. k \in Used \cap Lock
      BY <1>1, <2>1 DEF Used
    <3>2. U.lprio[k] = WaitingPrio(U, U.queue[k])
      BY <1>17, <3>1, FitsLprio
    <3>. QED
      BY <1>2, <1>10, <1>17, <1>18, <3>2 DEF SameWaits
  <2>. QED
    BY <2>1 DEF LprioIsHighestWaiter
<1>20. PriorityGivenBack'
  <2>1. ASSUME NEW q \in Procs, Live(q)', releasing'[q] = <<>>,
               \A k \in Lock : plocksacquired'[q][k] = "no"
        PROVE  pinh'[q] = 0
    <3>1. Live(q)
      BY <1>1, <1>2, <1>3, <2>1 DEF Live, TypeOK
    <3>2. pinh[q] = 0
      BY <1>1, <1>2, <2>1, <3>1 DEF LocksInv, PriorityGivenBack
    <3>3. HoldsNone(T, q) /\ T.pinh[q] = 0
      BY <1>2, <1>10, <2>1, <3>2 DEF HoldsNone
    <3>. QED
      BY <1>2, <1>17, <3>3 DEF NothingNew
  <2>. QED
    BY <2>1 DEF PriorityGivenBack
<1>21. TypeOK'
  <2>1. calls' \in 0..MaxCalls
    BY <1>1, <1>3, BoundsAssumption DEF TypeOK
  <2>2. /\ pprevlock' \in [Procs -> SUBSET Lock]
        /\ pstate' \in [Procs -> {"RUNNABLE", "PRWAIT", "PRFREE"}]
        /\ pwaitret' \in [Procs -> {"unset", "OK", "DELETED"}]
    BY <1>1, <1>2, <1>3 DEF TypeOK
  <2>3. /\ qkey' \in [Procs -> LockPrios \cup {0}]
        /\ qlocktype' \in [Procs -> {"unset", "READ", "WRITE"}]
        /\ qlockwaittime' \in [Procs -> 0..MaxTime]
    BY <1>2, <1>3 DEF TypeOK
  <2>4. pinh' \in [Procs -> Nat] /\ lprio' \in [Lock -> Nat]
    BY <1>2, <1>18 DEF IsPrios
  <2>. QED
    BY <1>1, <1>2, <1>3, <1>12, <2>1, <2>2, <2>3, <2>4 DEF TypeOK
<1>22. WaitersReal' /\ TimesPast'
  <2>1. ASSUME NEW q \in Procs, Waiting(q)'
        PROVE  /\ plock'[q] \in Lock /\ ~lock_acquired'[plock'[q]][q]
               /\ qkey'[q] \in LockPrios /\ qlocktype'[q] \in {"READ", "WRITE"}
    <3>1. CASE q = p
      BY <1>1, <1>2, <1>3, <3>1 DEF TypeOK
    <3>2. CASE q # p
      <4>1. /\ Waiting(q) /\ plock'[q] = plock[q] /\ qkey'[q] = qkey[q]
            /\ qlocktype'[q] = qlocktype[q]
        BY <1>2, <1>3, <2>1, <3>2 DEF TypeOK, Waiting
      <4>. QED
        BY <1>2, <4>1 DEF LocksInv, WaitersReal
    <3>. QED
      BY <3>1, <3>2
  <2>2. ASSUME NEW q \in Procs PROVE qlockwaittime'[q] <= now'
    BY <1>1, <1>2, <1>3, <1>6 DEF TypeOK, LocksInv, TimesPast
  <2>. QED
    BY <2>1, <2>2 DEF WaitersReal, TimesPast
<1>23. FreeUnheld' /\ DeletingForEver' /\ EndsAhead' /\ HoldersAgree'
  <2>1. FreeUnheld' /\ EndsAhead' /\ HoldersAgree'
    BY <1>1, <1>2 DEF LocksInv, FreeUnheld, EndsAhead, HoldersAgree
  <2>2. ASSUME NEW k \in Lock, lstate'[k] = "LFREE", lqueue'[k] # <<>>
        PROVE  inkernel' # Nobody /\ releasing'[inkernel'] = <<>>
    <3>1. k # l /\ lqueue'[k] = lqueue[k]
      BY <1>1, <1>2, <1>3, <2>2 DEF TypeOK
    <3>. QED
      BY <1>1, <2>2, <3>1 DEF LocksInv, DeletingForEver
  <2>. QED
    BY <2>1, <2>2 DEF DeletingForEver
<1>24. LockQueueInOrder'
  <2>1. ASSUME NEW k \in Lock PROVE InLine(lqueue'[k], qkey', qlockwaittime')
    <3>1. InLine(lqueue[k], qkey, qlockwaittime)
      BY DEF LocksInv, LockQueueInOrder, InLine
    <3>2. \A i \in 1..Len(lqueue[k]) : lqueue[k][i] \in Procs /\ lqueue[k][i] # p
      BY <1>1, QueuedWaits DEF LocksInv, Waiting
    <3>3. CASE k = l
      <4>1. lqueue'[k] = new
        BY <1>2, <1>3, <3>3 DEF TypeOK
      <4>2. \A q \in Procs : qlockwaittime[q] <= now
        BY DEF LocksInv, TimesPast
      <4>3. InLine(new, [qkey EXCEPT ![p] = priority], [qlockwaittime EXCEPT ![p] = now])
        BY <1>3, <1>5, <1>6, <1>8, <3>1, <3>2, <3>3, <4>2, InsertedInOrder
      <4>. QED
        BY <1>2, <4>1, <4>3
    <3>4. CASE k # l
      <4>1. lqueue'[k] = lqueue[k]
        BY <1>2, <1>3, <3>4 DEF TypeOK
      <4>2. \A i \in 1..Len(lqueue[k]) : /\ qkey'[lqueue[k][i]] = qkey[lqueue[k][i]]
                                         /\ qlockwaittime'[lqueue[k][i]] = qlockwaittime[lqueue[k][i]]
        BY <1>2, <1>6, <3>2
      <4>. QED
        BY <3>1, <4>1, <4>2 DEF InLine
    <3>. QED
      BY <3>3, <3>4
  <2>. QED
    BY <2>1 DEF LockQueueInOrder, InLine
<1>. QED
  BY <1>15, <1>19, <1>20, <1>21, <1>22, <1>23, <1>24 DEF LocksInv

-------------------------------------------------------------------------------
(***************************************************************************)
(* releaseall().                                                           *)
(***************************************************************************)
\* The greatest of some places of a queue.
LEMMA MaxIsGreatest ==
  ASSUME NEW n \in Nat, NEW S \in SUBSET (1..n), S # {}
  PROVE  Max(S) \in S /\ \A y \in S : y <= Max(S)
<1>. DEFINE R == {n - s : s \in S}
<1>1. R \in SUBSET Nat /\ R # {}
  <2>1. \A s \in S : n - s \in Nat
    OBVIOUS
  <2>2. PICK s \in S : TRUE
    OBVIOUS
  <2>3. n - s \in R
    BY <2>2
  <2>. QED
    BY <2>1, <2>3
<1>2. Min(R) \in R /\ \A y \in R : Min(R) <= y
  <2>. HIDE DEF R
  <2>. QED
    BY <1>1, MinIsLeast
<1>3. PICK m \in S : Min(R) = n - m
  BY <1>2
<1>4. ASSUME NEW y \in S PROVE m >= y
  <2>1. n - m <= n - y
    BY <1>2, <1>3
  <2>. QED
    BY <2>1
<1>5. \E x \in S : \A y \in S : x >= y
  BY <1>4
<1>6. Max(S) \in S /\ \A y \in S : Max(S) >= y
  BY <1>5 DEF Max
<1>. QED
  BY <1>6

\* The last waiter of a type has the highest lock priority of that type.
LEMMA BestWaiterFacts ==
  ASSUME LocksInv, NEW l \in Lock, NEW type, NEW b, b = BestWaiter(l, type)
  PROVE  \/ b = EMPTY /\ \A q \in WaitersOf(l) : qlocktype[q] # type
         \/ /\ b \in WaitersOf(l) /\ qlocktype[b] = type
            /\ \A q \in WaitersOf(l) : qlocktype[q] = type => qkey[q] <= qkey[b]
<1>. DEFINE those == {i \in 1..Len(lqueue[l]) : qlocktype[lqueue[l][i]] = type}
<1>1. lqueue[l] \in Seq(Procs) /\ qkey \in [Procs -> Nat]
  BY KeysTyped DEF LocksInv, TypeOK
<1>2. ASSUME NEW q \in WaitersOf(l) PROVE \E i \in 1..Len(lqueue[l]) : lqueue[l][i] = q
  BY <1>1 DEF LocksInv, QueuesRight, HoldsIn, Contains, WaitersOf
<1>3. CASE those = {}
  <2>1. b = EMPTY
    BY <1>3 DEF BestWaiter
  <2>2. ASSUME NEW q \in WaitersOf(l) PROVE qlocktype[q] # type
    BY <1>2, <1>3
  <2>. QED
    BY <2>1, <2>2
<1>4. CASE those # {}
  <2>1. b = lqueue[l][Max(those)]
    BY <1>4 DEF BestWaiter
  <2>2. those \in SUBSET (1..Len(lqueue[l])) /\ Len(lqueue[l]) \in Nat
    BY <1>1
  <2>3. Max(those) \in those /\ \A i \in those : i <= Max(those)
    <3>. HIDE DEF those
    <3>. QED
      BY <1>4, <2>2, MaxIsGreatest
  <2>. DEFINE m == Max(those)
  <2>4. m \in 1..Len(lqueue[l]) /\ qlocktype[b] = type /\ \A i \in those : i <= m
    BY <2>1, <2>3
  <2>5. b = lqueue[l][m]
    BY <2>1
  <2>. HIDE DEF m
  <2>6. b \in WaitersOf(l)
    BY <2>4, <2>5, QueuedWaits DEF LocksInv, WaitersOf
  <2>7. ASSUME NEW q \in WaitersOf(l), qlocktype[q] = type PROVE qkey[q] <= qkey[b]
    <3>1. PICK i \in 1..Len(lqueue[l]) : lqueue[l][i] = q
      BY <1>2
    <3>2. i <= m /\ i \in Nat /\ m \in Nat
      BY <2>4, <2>7, <3>1
    <3>3. qkey[q] \in Nat /\ qkey[b] \in Nat
      BY <1>1, <2>6 DEF WaitersOf
    <3>4. CASE i = m
      BY <2>5, <3>1, <3>3, <3>4
    <3>5. CASE i < m
      <4>1. qkey[q] < qkey[b] \/ qkey[q] = qkey[b]
        BY <2>4, <2>5, <3>1, <3>5 DEF LocksInv, LockQueueInOrder
      <4>. QED
        BY <3>3, <4>1
    <3>. QED
      BY <3>2, <3>4, <3>5
  <2>. QED
    BY <2>4, <2>6, <2>7
<1>. QED
  BY <1>3, <1>4

\* release_lock() gives a lock to some of those waiting for it, and to none while
\* one with a higher lock priority stays.
LEMMA HandedFacts ==
  ASSUME LocksInv, NEW l \in Lock
  PROVE  /\ Handed(l) \subseteq WaitersOf(l)
         /\ \A q \in Handed(l), x \in WaitersOf(l) \ Handed(l) : qkey[x] <= qkey[q]
<1>. DEFINE r == BestWaiter(l, "READ")
            w == BestWaiter(l, "WRITE")
<1>1. qkey \in [Procs -> Nat] /\ LockPrios \subseteq Nat /\ EMPTY \notin Procs
      /\ StrayKey \in Int /\ \A k \in LockPrios : StrayKey < k
  BY KeysTyped, Constants, StrayAssumption DEF LocksInv, EMPTY
<1>2. \A q \in WaitersOf(l) : /\ q \in Procs /\ qkey[q] \in Nat /\ StrayKey < qkey[q]
                              /\ Key(q) = qkey[q] /\ q # EMPTY
                              /\ qlocktype[q] = "READ" \/ qlocktype[q] = "WRITE"
  BY <1>1 DEF LocksInv, WaitersReal, WaitersOf, Key
<1>3. Key(EMPTY) = StrayKey
  BY DEF Key
<1>4. \/ r = EMPTY /\ \A q \in WaitersOf(l) : qlocktype[q] # "READ"
      \/ /\ r \in WaitersOf(l) /\ qlocktype[r] = "READ"
         /\ \A q \in WaitersOf(l) : qlocktype[q] = "READ" => qkey[q] <= qkey[r]
  BY BestWaiterFacts
<1>5. \/ w = EMPTY /\ \A q \in WaitersOf(l) : qlocktype[q] # "WRITE"
      \/ /\ w \in WaitersOf(l) /\ qlocktype[w] = "WRITE"
         /\ \A q \in WaitersOf(l) : qlocktype[q] = "WRITE" => qkey[q] <= qkey[w]
  BY BestWaiterFacts
<1>6. ToSet(lqueue[l]) = WaitersOf(l)
  <2>1. lqueue[l] \in Seq(Procs)
    BY DEF LocksInv, TypeOK
  <2>2. \A x \in Procs : Contains(lqueue[l], x) <=> x \in WaitersOf(l)
    BY DEF LocksInv, QueuesRight, HoldsIn
  <2>. QED
    BY <2>1, <2>2 DEF Contains, ToSet, WaitersOf
<1>7. Key(r) \in Int /\ Key(w) \in Int
  BY <1>1, <1>2, <1>3, <1>4, <1>5
<1>8. Handed(l) = CASE Key(r) > Key(w) ->
                         {q \in WaitersOf(l) : qlocktype[q] = "READ" /\ qkey[q] > Key(w)}
                    [] Key(r) < Key(w) -> {w}
                    [] Key(r) = Key(w) -> IF r # EMPTY /\ WriterBreaksTie(r, w) THEN {w}
                                          ELSE {r} \ {EMPTY}
  BY <1>6 DEF Handed
<1>. HIDE DEF r, w
<1>9. CASE Key(r) > Key(w)
  <2>1. Handed(l) = {q \in WaitersOf(l) : qlocktype[q] = "READ" /\ qkey[q] > Key(w)}
    BY <1>7, <1>8, <1>9
  <2>2. ASSUME NEW q \in Handed(l), NEW x \in WaitersOf(l) \ Handed(l) PROVE qkey[x] <= qkey[q]
    <3>1. qkey[q] > Key(w) /\ q \in WaitersOf(l)
      BY <2>1, <2>2
    <3>2. qkey[x] <= Key(w)
      <4>1. CASE qlocktype[x] = "WRITE"
        BY <1>2, <1>5, <2>2, <4>1
      <4>2. CASE qlocktype[x] # "WRITE"
        BY <1>2, <1>7, <2>1, <2>2, <4>2
      <4>. QED
        BY <4>1, <4>2
    <3>. QED
      BY <1>2, <1>7, <2>2, <3>1, <3>2
  <2>. QED
    BY <2>1, <2>2
<1>10. CASE Key(r) < Key(w)
  <2>1. Handed(l) = {w}
    BY <1>7, <1>8, <1>10
  <2>2. w \in WaitersOf(l)
    BY <1>2, <1>3, <1>4, <1>5, <1>7, <1>10
  <2>3. ASSUME NEW x \in WaitersOf(l) PROVE qkey[x] <= qkey[w]
    <3>1. CASE qlocktype[x] = "WRITE"
      BY <1>2, <1>5, <2>2, <2>3, <3>1
    <3>2. CASE qlocktype[x] = "READ"
      <4>1. r \in WaitersOf(l) /\ qkey[x] <= qkey[r]
        BY <1>4, <2>3, <3>2
      <4>. QED
        BY <1>2, <1>10, <2>2, <2>3, <4>1
    <3>. QED
      BY <1>2, <2>3, <3>1, <3>2
  <2>. QED
    BY <2>1, <2>2, <2>3
<1>11. CASE Key(r) = Key(w)
  <2>1. Handed(l) = IF r # EMPTY /\ WriterBreaksTie(r, w) THEN {w} ELSE {r} \ {EMPTY}
    BY <1>7, <1>8, <1>11
  <2>2. r = EMPTY <=> w = EMPTY
    BY <1>2, <1>3, <1>4, <1>5, <1>11
  <2>3. CASE r = EMPTY
    BY <2>1, <2>3
  <2>4. CASE r # EMPTY
    <3>1. r \in WaitersOf(l) /\ w \in WaitersOf(l) /\ qkey[r] = qkey[w]
      BY <1>2, <1>4, <1>5, <1>11, <2>2, <2>4
    <3>2. \A x \in WaitersOf(l) : qkey[x] <= qkey[r]
      BY <1>2, <1>4, <1>5, <2>2, <2>4, <3>1
    <3>3. Handed(l) = {r} \/ Handed(l) = {w}
      BY <2>1, <2>4
    <3>. QED
      BY <3>1, <3>2, <3>3
  <2>. QED
    BY <2>3, <2>4
<1>. QED
  BY <1>7, <1>9, <1>10, <1>11

\* Those on a queue that are the same have the same greatest priority.
LEMMA GreatestOfTheSame ==
  ASSUME NEW T, IsPrios(T), NEW S, NEW q1 \in Seq(Procs), HoldsIn(Procs, q1, S),
         NEW q2 \in Seq(Procs), HoldsIn(Procs, q2, S), NEW m, Greatest(T, q1, m)
  PROVE  WaitingPrio(T, q2) = m
<1>1. ASSUME NEW i \in 1..Len(q1) PROVE \E j \in 1..Len(q2) : q1[i] = q2[j]
  <2>1. q1[i] \in Procs /\ Contains(q1, q1[i])
    BY DEF Contains
  <2>2. Contains(q2, q1[i])
    BY <2>1 DEF HoldsIn
  <2>. QED
    BY <2>2 DEF Contains
<1>2. ASSUME NEW j \in 1..Len(q2) PROVE \E i \in 1..Len(q1) : q1[i] = q2[j]
  <2>1. q2[j] \in Procs /\ Contains(q2, q2[j])
    BY DEF Contains
  <2>2. Contains(q1, q2[j])
    BY <2>1 DEF HoldsIn
  <2>. QED
    BY <2>2 DEF Contains
<1>3. Greatest(T, q2, WaitingPrio(T, q2))
  BY WaitingPrioIsGreatest
<1>. QED
  BY <1>1, <1>2, <1>3, GreatestIsOne

\* A queue that some have left is still in line.
LEMMA LeftInLine ==
  ASSUME NEW queue \in Seq(Procs), NEW S, HoldsIn(Procs, queue, S), NEW gone,
         NEW keys, NEW times, InLine(queue, keys, times)
  PROVE  InLine(Dequeued(queue, gone), keys, times)
<1>. DEFINE rest == Dequeued(queue, gone)
<1>1. rest = Dequeued(queue, gone)
  OBVIOUS
<1>. HIDE DEF rest
<1>2. /\ rest \in Seq(Procs) /\ HoldsIn(Procs, rest, S \ gone)
      /\ \A i, j \in 1..Len(rest) : i < j =>
           \E a, b \in 1..Len(queue) : a < b /\ rest[i] = queue[a] /\ rest[j] = queue[b]
  BY <1>1, DequeuedFacts
<1>3. ASSUME NEW i \in 1..Len(rest), NEW j \in 1..Len(rest), i < j
      PROVE  \/ keys[rest[i]] < keys[rest[j]]
             \/ keys[rest[i]] = keys[rest[j]] /\ times[rest[i]] >= times[rest[j]]
  <2>1. PICK a \in 1..Len(queue), b \in 1..Len(queue) :
           a < b /\ rest[i] = queue[a] /\ rest[j] = queue[b]
    BY <1>2, <1>3
  <2>. QED
    BY <2>1 DEF InLine
<1>. QED
  BY <1>1, <1>3 DEF InLine

\* Until a releaseall() comes to its end, that is still ahead of it.
LEMMA EndStaysAhead ==
  ASSUME LocksInv, NEW p \in Procs, releasing[p] # <<>>, Head(releasing[p]) # End
  PROVE  /\ Head(releasing[p]) \in Lock
         /\ Tail(releasing[p]) \in Seq(Lock \cup {End}) /\ Tail(releasing[p]) # <<>>
         /\ Tail(releasing[p])[Len(Tail(releasing[p]))] = End
<1>. PICK s : s = releasing[p]
  OBVIOUS
<1>1. s \in Seq(Lock \cup {End}) /\ s # <<>> /\ Head(s) # End /\ s[Len(s)] = End
  BY DEF LocksInv, TypeOK, EndsAhead
<1>2. Len(s) \in Nat /\ Len(s) > 1 /\ Head(s) = s[1] /\ s[1] \in Lock \cup {End}
  <2>1. Len(s) \in Nat /\ Len(s) # 0
    BY <1>1
  <2>2. Head(s) = s[1] /\ s[1] \in Lock \cup {End}
    BY <1>1, <2>1
  <2>3. Len(s) # 1
    BY <1>1, <2>2
  <2>4. \A n \in Nat : n # 0 /\ n # 1 => n > 1
    OBVIOUS
  <2>5. Len(s) > 1
    BY <2>1, <2>3, <2>4
  <2>. QED
    BY <2>1, <2>2, <2>5
<1>3. /\ Tail(s) \in Seq(Lock \cup {End}) /\ Len(Tail(s)) = Len(s) - 1
      /\ \A i \in 1..Len(s) - 1 : Tail(s)[i] = s[i + 1]
  BY <1>1
<1>4. Tail(s)[Len(Tail(s))] = End
  <2>1. Len(s) - 1 \in 1..Len(s) - 1 /\ Len(s) - 1 + 1 = Len(s)
    BY <1>2
  <2>2. Tail(s)[Len(s) - 1] = s[Len(s) - 1 + 1]
    BY <1>3, <2>1
  <2>. QED
    BY <1>1, <1>3, <2>1, <2>2
<1>5. Tail(s) # <<>>
  <2>1. \A n \in Nat : n > 1 => n - 1 # 0
    OBVIOUS
  <2>2. Len(s) - 1 # 0
    BY <1>2, <2>1
  <2>3. Len(Tail(s)) # 0
    BY <1>3, <2>2
  <2>. QED
    BY <2>3
<1>. QED
  BY <1>1, <1>2, <1>3, <1>4, <1>5

\* A step of releaseall() that finds the lock held, whoever gets it.
LEMMA GiveBackKeeps ==
  ASSUME LocksInv, NEW p \in Procs, Releasing(p), NEW l \in Lock, l = Head(releasing[p]),
         lstate[l] = "LUSED", NEW to \in SUBSET WaitersOf(l), NEW readers \in Int, NEW freed \in BOOLEAN,
         GiveBack(l, p, to, readers, freed), inkernel' \in {Nobody, p},
         releasing' = [releasing EXCEPT ![p] = Tail(@)],
         UNCHANGED <<pprio, pinh, pprevlock, pwaitret, lstate, lock_deleted,
                     qkey, qlocktype, qlockwaittime, nextlock, now, semcnt, calls>>
  PROVE  LocksInv'
<1>. DEFINE rest == Dequeued(lqueue[l], to)
<1>1. /\ lock_acquired' = [lock_acquired EXCEPT ![l] = [q \in Procs |-> q \in to \/ (@[q] /\ q # p)]]
      /\ plocksacquired' = [q \in Procs |->
            [plocksacquired[q] EXCEPT ![l] = IF q \in to THEN "yes" ELSE IF q = p THEN "no" ELSE @]]
      /\ l_active_readers' = [l_active_readers EXCEPT ![l] = readers + Cardinality(to)]
      /\ lcnt' = [lcnt EXCEPT ![l] = IF freed THEN @ + 1 ELSE @]
      /\ ltype' = [ltype EXCEPT ![l] = IF to = {} THEN @ ELSE RecordedType]
      /\ lqueue' = [lqueue EXCEPT ![l] = rest]
      /\ lprio' = [lprio EXCEPT ![l] = IF to = {} THEN @ ELSE WaitingPrio(Prios, rest)]
      /\ pstate' = [q \in Procs |-> IF q \in to THEN "RUNNABLE" ELSE pstate[q]]
      /\ plock' = [q \in Procs |-> IF q \in to THEN NoLock ELSE plock[q]]
      /\ asked' = [asked EXCEPT ![l] = [q \in Procs |-> IF q \in to THEN qlocktype[q] ELSE @[q]]]
  BY DEF GiveBack, Woken
<1>2. TypeOK /\ IsPrios(Prios) /\ Fits(Prios, Used) /\ l \in Used \cap Lock
  BY PriosFit DEF LocksInv, Used
<1>3. /\ inkernel \in {Nobody, p} /\ pstate[p] = "RUNNABLE" /\ releasing[p] # <<>>
      /\ releasing[p] \in Seq(Lock \cup {End}) /\ Head(releasing[p]) # End
      /\ p \notin to
  BY <1>2 DEF Releasing, TypeOK, Lock, End, NoLock, WaitersOf, Waiting
<1>4. /\ Tail(releasing[p]) \in Seq(Lock \cup {End}) /\ Tail(releasing[p]) # <<>>
      /\ Tail(releasing[p])[Len(Tail(releasing[p]))] = End
  BY <1>3, EndStaysAhead
<1>5. lqueue[l] \in Seq(Procs) /\ HoldsIn(Procs, lqueue[l], WaitersOf(l))
  BY <1>2 DEF LocksInv, TypeOK, QueuesRight
<1>6. rest \in Seq(Procs) /\ HoldsIn(Procs, rest, WaitersOf(l) \ to)
  BY <1>5, DequeuedFacts
<1>. HIDE DEF rest
<1>7. \A q \in Procs : releasing'[q] = IF q = p THEN Tail(releasing[p]) ELSE releasing[q]
  BY <1>2 DEF TypeOK
<1>8. \A k \in Lock : /\ lqueue'[k] = IF k = l THEN rest ELSE lqueue[k]
                      /\ k # l => lprio'[k] = lprio[k]
  BY <1>1, <1>2 DEF TypeOK
<1>9. ASSUME NEW k \in Lock PROVE WaitersOf(k)' = WaitersOf(k) \ to
  <2>1. \A q \in Procs : q \in WaitersOf(k)' <=> q \in WaitersOf(k) /\ q \notin to
    BY <1>1, <1>2 DEF WaitersOf, Waiting, TypeOK, Lock, NoLock
  <2>. QED
    BY <2>1 DEF WaitersOf
<1>10. QueuesRight'
  <2>1. ASSUME NEW k \in Lock, k # l PROVE WaitersOf(k)' = WaitersOf(k)
    <3>1. \A q \in to : q \notin WaitersOf(k)
      BY <2>1 DEF WaitersOf
    <3>. QED
      BY <1>9, <3>1
  <2>. QED
    BY <1>6, <1>8, <1>9, <2>1 DEF LocksInv, QueuesRight
<1>11. /\ lock_acquired' \in [Lock -> [Procs -> BOOLEAN]]
       /\ \A k \in Lock, q \in Procs :
            lock_acquired'[k][q] <=> IF k = l THEN q \in to \/ (lock_acquired[l][q] /\ q # p)
                                     ELSE lock_acquired[k][q]
  BY <1>1, <1>2 DEF TypeOK
<1>12. /\ plocksacquired' \in [Procs -> [Lock -> {"no", "yes", "DELETED"}]]
       /\ \A k \in Lock, q \in Procs :
            plocksacquired'[q][k] = IF k = l /\ q \in to THEN "yes"
                                    ELSE IF k = l /\ q = p THEN "no" ELSE plocksacquired[q][k]
  <2>. PICK pl : pl = plocksacquired
    OBVIOUS
  <2>1. pl \in [Procs -> [Lock -> {"no", "yes", "DELETED"}]]
    BY <1>2 DEF TypeOK
  <2>2. plocksacquired' = [q \in Procs |->
            [pl[q] EXCEPT ![l] = IF q \in to THEN "yes" ELSE IF q = p THEN "no" ELSE pl[q][l]]]
    BY <1>1
  <2>3. ASSUME NEW q \in Procs
        PROVE  /\ plocksacquired'[q] \in [Lock -> {"no", "yes", "DELETED"}]
               /\ \A k \in Lock : plocksacquired'[q][k] =
                    IF k = l /\ q \in to THEN "yes" ELSE IF k = l /\ q = p THEN "no" ELSE pl[q][k]
    <3>1. plocksacquired'[q] =
            [pl[q] EXCEPT ![l] = IF q \in to THEN "yes" ELSE IF q = p THEN "no" ELSE pl[q][l]]
      BY <2>2
    <3>2. pl[q] \in [Lock -> {"no", "yes", "DELETED"}]
      BY <2>1
    <3>. QED
      BY <3>1, <3>2
  <2>4. plocksacquired' \in [Procs -> [Lock -> {"no", "yes", "DELETED"}]]
    BY <2>2, <2>3
  <2>. QED
    BY <2>3, <2>4
<1>13. HoldersAgree'
  <2>1. ASSUME NEW k \in Lock, NEW q \in Procs
        PROVE  lock_acquired'[k][q] <=> plocksacquired'[q][k] = "yes"
    <3>0. lock_acquired[k][q] <=> plocksacquired[q][k] = "yes"
      BY DEF LocksInv, HoldersAgree
    <3>1. CASE k = l /\ q \in to
      BY <1>11, <1>12, <3>1, Zenon
    <3>2. CASE k = l /\ q \notin to /\ q = p
      <4>1. plocksacquired'[q][k] = "no"
        BY <1>12, <3>2
      <4>2. ~lock_acquired'[k][q]
        BY <1>11, <3>2, Zenon
      <4>. QED
        BY <4>1, <4>2
    <3>3. CASE k = l /\ q \notin to /\ q # p
      <4>1. plocksacquired'[q][k] = plocksacquired[q][k]
        BY <1>12, <3>3
      <4>2. lock_acquired'[k][q] <=> lock_acquired[k][q]
        BY <1>11, <3>3, Zenon
      <4>. QED
        BY <3>0, <4>1, <4>2, Zenon
    <3>4. CASE k # l
      <4>1. plocksacquired'[q][k] = plocksacquired[q][k]
        BY <1>12, <3>4
      <4>2. lock_acquired'[k][q] <=> lock_acquired[k][q]
        BY <1>11, <3>4, Zenon
      <4>. QED
        BY <3>0, <4>1, <4>2, Zenon
    <3>. QED
      BY <3>1, <3>2, <3>3, <3>4
  <2>. QED
    BY <2>1 DEF HoldersAgree
<1>14. \A q : WaitingPrio(Prios', q) = WaitingPrio(Prios, q)
  BY DEF Prios, WaitingPrio, schedprio
<1>15. lprio'[l] = WaitingPrio(Prios, rest) /\ lprio'[l] \in Nat
  <2>1. Greatest(Prios, lqueue[l], lprio[l])
    BY <1>2 DEF Fits, Prios
  <2>2. WaitingPrio(Prios, rest) \in Nat
    BY <1>2, <1>6, WaitingPrioIsGreatest DEF Greatest
  <2>3. CASE to = {}
    <3>1. HoldsIn(Procs, rest, WaitersOf(l)) /\ lprio'[l] = lprio[l]
      BY <1>1, <1>2, <1>6, <2>3 DEF TypeOK
    <3>. QED
      BY <1>2, <1>5, <1>6, <2>1, <2>2, <3>1, GreatestOfTheSame
  <2>4. CASE to # {}
    BY <1>1, <1>2, <2>2, <2>4 DEF TypeOK
  <2>. QED
    BY <2>3, <2>4
<1>16. LprioIsHighestWaiter'
  <2>1. ASSUME NEW k \in Lock, lstate'[k] = "LUSED"
        PROVE  lprio'[k] = WaitingPrio(Prios', lqueue'[k])
    <3>1. CASE k = l
      BY <1>8, <1>14, <1>15, <3>1
    <3>2. CASE k # l
      BY <1>8, <1>14, <2>1, <3>2 DEF LocksInv, LprioIsHighestWaiter
    <3>. QED
      BY <3>1, <3>2
  <2>. QED
    BY <2>1 DEF LprioIsHighestWaiter
<1>17. PriorityGivenBack'
  <2>1. ASSUME NEW q \in Procs, Live(q)', releasing'[q] = <<>>,
               \A k \in Lock : plocksacquired'[q][k] = "no"
        PROVE  pinh'[q] = 0
    <3>1. q # p /\ releasing[q] = <<>>
      BY <1>4, <1>7, <2>1
    <3>2. q \notin to
      BY <1>12, <2>1
    <3>3. \A k \in Lock : plocksacquired[q][k] = "no"
      BY <1>12, <2>1, <3>1, <3>2
    <3>4. Live(q)
      BY <1>1, <2>1, <3>2 DEF Live
    <3>. QED
      BY <3>1, <3>3, <3>4 DEF LocksInv, PriorityGivenBack
  <2>. QED
    BY <2>1 DEF PriorityGivenBack
<1>18. WaitersReal' /\ TimesPast'
  <2>1. ASSUME NEW q \in Procs, Waiting(q)'
        PROVE  /\ plock'[q] \in Lock /\ ~lock_acquired'[plock'[q]][q]
               /\ qkey'[q] \in LockPrios /\ qlocktype'[q] \in {"READ", "WRITE"}
    <3>1. q \notin to /\ Waiting(q) /\ plock'[q] = plock[q]
      BY <1>1, <2>1 DEF Waiting
    <3>2. /\ plock[q] \in Lock /\ ~lock_acquired[plock[q]][q]
          /\ qkey[q] \in LockPrios /\ qlocktype[q] \in {"READ", "WRITE"}
      BY <3>1 DEF LocksInv, WaitersReal
    <3>3. ~lock_acquired'[plock[q]][q]
      BY <1>11, <3>1, <3>2
    <3>. QED
      BY <3>1, <3>2, <3>3
  <2>2. TimesPast'
    BY DEF LocksInv, TimesPast
  <2>. QED
    BY <2>1, <2>2 DEF WaitersReal
<1>19. FreeUnheld'
  <2>1. ASSUME NEW k \in Lock, lstate'[k] = "LFREE", NEW q \in Procs PROVE ~lock_acquired'[k][q]
    <3>1. k # l /\ ~lock_acquired[k][q]
      BY <2>1 DEF LocksInv, FreeUnheld
    <3>. QED
      BY <1>11, <3>1
  <2>. QED
    BY <2>1 DEF FreeUnheld
<1>20. DeletingForEver'
  <2>1. ASSUME NEW k \in Lock, lstate'[k] = "LFREE", lqueue'[k] # <<>> PROVE FALSE
    <3>1. k # l /\ lqueue[k] # <<>>
      BY <1>8, <2>1
    <3>2. inkernel # Nobody /\ releasing[inkernel] = <<>>
      BY <2>1, <3>1 DEF LocksInv, DeletingForEver
    <3>. QED
      BY <1>3, <3>2
  <2>. QED
    BY <2>1 DEF DeletingForEver
<1>21. EndsAhead'
  BY <1>4, <1>7 DEF LocksInv, EndsAhead
<1>22. LockQueueInOrder'
  <2>1. ASSUME NEW k \in Lock PROVE InLine(lqueue'[k], qkey', qlockwaittime')
    <3>1. InLine(lqueue[k], qkey, qlockwaittime)
      BY DEF LocksInv, LockQueueInOrder, InLine
    <3>2. CASE k = l
      BY <1>5, <1>8, <3>1, <3>2, LeftInLine DEF rest
    <3>3. CASE k # l
      BY <1>8, <3>1, <3>3
    <3>. QED
      BY <3>2, <3>3
  <2>. QED
    BY <2>1 DEF LockQueueInOrder, InLine
<1>23. TypeOK'
  <2>1. /\ pstate' \in [Procs -> {"RUNNABLE", "PRWAIT", "PRFREE"}]
        /\ plock' \in [Procs -> Lock \cup {NoLock}]
    BY <1>1, <1>2 DEF TypeOK
  <2>2. Cardinality(to) \in Nat
    <3>1. to \in SUBSET Procs
      BY DEF WaitersOf
    <3>2. IsFiniteSet(to)
      BY <3>1, ProcsAssumption, FS_Subset
    <3>. QED
      BY <3>2, FS_CardinalityType
  <2>3. l_active_readers' \in [Lock -> Int]
    <3>1. readers + Cardinality(to) \in Int
      BY <2>2
    <3>. QED
      BY <1>1, <1>2, <3>1 DEF TypeOK
  <2>4. lcnt' \in [Lock -> Nat]
    <3>1. lcnt \in [Lock -> Nat]
      BY <1>2 DEF TypeOK
    <3>. QED
      BY <1>1, <3>1
  <2>5. ltype' \in [Lock -> {"unset", "READ", "WRITE"}]
    <3>1. ltype \in [Lock -> {"unset", "READ", "WRITE"}]
      BY <1>2 DEF TypeOK
    <3>. QED
      BY <1>1, <3>1 DEF RecordedType
  <2>6. lqueue' \in [Lock -> Seq(Procs)]
    BY <1>1, <1>2, <1>6 DEF TypeOK
  <2>7. lprio' \in [Lock -> Nat]
    <3>1. lprio \in [Lock -> Nat] /\ lprio' = [lprio EXCEPT ![l] = lprio'[l]]
      BY <1>1, <1>2 DEF TypeOK
    <3>. QED
      BY <1>15, <3>1
  <2>8. asked' \in [Lock -> [Procs -> {"unset", "READ", "WRITE"}]]
    <3>1. /\ asked \in [Lock -> [Procs -> {"unset", "READ", "WRITE"}]]
          /\ qlocktype \in [Procs -> {"unset", "READ", "WRITE"}]
      BY <1>2 DEF TypeOK
    <3>2. [q \in Procs |-> IF q \in to THEN qlocktype[q] ELSE asked[l][q]]
            \in [Procs -> {"unset", "READ", "WRITE"}]
      BY <3>1
    <3>. QED
      BY <1>1, <3>1, <3>2
  <2>9. releasing' \in [Procs -> Seq(Lock \cup {End})] /\ inkernel' \in Procs \cup {Nobody}
    BY <1>2, <1>4 DEF TypeOK
  <2>. QED
    BY <1>2, <1>11, <1>12, <2>1, <2>3, <2>4, <2>5, <2>6, <2>7, <2>8, <2>9 DEF TypeOK
<1>. QED
  BY <1>10, <1>13, <1>16, <1>17, <1>18, <1>19, <1>20, <1>21, <1>22, <1>23 DEF LocksInv

\* What a step that leaves the queues alone, and who waits and who holds, keeps.
LEMMA QueuesLeftAlone ==
  ASSUME LocksInv, UNCHANGED <<pstate, plock, plocksacquired, lstate, lock_acquired, lqueue,
                               qkey, qlocktype, qlockwaittime, now>>
  PROVE  /\ QueuesRight' /\ WaitersReal' /\ TimesPast' /\ FreeUnheld' /\ HoldersAgree'
         /\ LockQueueInOrder'
<1>1. QueuesRight' /\ WaitersReal'
  BY DEF LocksInv, QueuesRight, WaitersReal, WaitersOf, Waiting
<1>2. FreeUnheld' /\ TimesPast'
  BY DEF LocksInv, FreeUnheld, TimesPast
<1>3. HoldersAgree' /\ LockQueueInOrder'
  BY DEF LocksInv, HoldersAgree, LockQueueInOrder
<1>. QED
  BY <1>1, <1>2, <1>3

\* A step of releaseall().
LEMMA ReleaseLockKeeps ==
  ASSUME LocksInv, NEW p \in Procs, ReleaseLock(p)
  PROVE  LocksInv'
<1>. PICK l : l = Head(releasing[p])
  OBVIOUS
<1>. DEFINE readers == IF ltype[l] = "READ" THEN l_active_readers[l] - 1 ELSE l_active_readers[l]
            freed == ltype[l] = "WRITE" \/ (ltype[l] = "READ" /\ readers = 0)
            to == IF freed THEN Handed(l) ELSE {}
<1>1. /\ Releasing(p) /\ l # End /\ releasing[p] # <<>>
      /\ releasing' = [releasing EXCEPT ![p] = Tail(@)]
      /\ UNCHANGED <<pprio, pinh, pprevlock, pwaitret, lstate, lock_deleted,
                     qkey, qlocktype, qlockwaittime, nextlock, now, semcnt, calls>>
  BY DEF ReleaseLock, Releasing
<1>2. l \in Lock
  BY <1>1, EndStaysAhead
<1>3. CASE lstate[l] = "LUSED" /\ lock_acquired[l][p]
  <2>1. GiveBack(l, p, to, readers, freed) /\ inkernel' \in {Nobody, p}
    BY <1>3 DEF ReleaseLock
  <2>2. to \in SUBSET WaitersOf(l)
    BY <1>2, HandedFacts
  <2>3. readers \in Int /\ freed \in BOOLEAN
    <3>1. l_active_readers[l] \in Int
      BY <1>2 DEF LocksInv, TypeOK
    <3>. QED
      BY <3>1
  <2>. HIDE DEF readers, freed, to
  <2>. QED
    BY <1>1, <1>2, <1>3, <2>1, <2>2, <2>3, GiveBackKeeps
<1>4. CASE ~(lstate[l] = "LUSED" /\ lock_acquired[l][p])
  <2>1. /\ inkernel' = p
        /\ UNCHANGED <<lock_acquired, plocksacquired, l_active_readers, lcnt, ltype,
                       lqueue, lprio, pstate, plock, asked>>
    BY <1>4 DEF ReleaseLock
  <2>2. TypeOK /\ releasing \in [Procs -> Seq(Lock \cup {End})] /\ inkernel \in {Nobody, p}
    BY <1>1 DEF LocksInv, TypeOK, Releasing
  <2>3. /\ Tail(releasing[p]) \in Seq(Lock \cup {End}) /\ Tail(releasing[p]) # <<>>
        /\ Tail(releasing[p])[Len(Tail(releasing[p]))] = End
    BY <1>1, EndStaysAhead
  <2>4. \A q \in Procs : releasing'[q] = IF q = p THEN Tail(releasing[p]) ELSE releasing[q]
    BY <1>1, <2>2
  <2>5. releasing' \in [Procs -> Seq(Lock \cup {End})]
    BY <1>1, <2>2, <2>3
  <2>6. TypeOK'
    BY <1>1, <2>1, <2>2, <2>5 DEF TypeOK
  <2>7. EndsAhead'
    BY <2>3, <2>4 DEF LocksInv, EndsAhead
  <2>8. QueuesRight' /\ WaitersReal' /\ TimesPast' /\ FreeUnheld' /\ HoldersAgree' /\ LockQueueInOrder'
    BY <1>1, <2>1, QueuesLeftAlone
  <2>9. LprioIsHighestWaiter'
    <3>1. Prios' = Prios
      BY <1>1, <2>1 DEF Prios
    <3>. QED
      BY <1>1, <2>1, <3>1 DEF LocksInv, LprioIsHighestWaiter, WaitingPrio, schedprio
  <2>10. PriorityGivenBack'
    <3>1. \A q \in Procs : releasing'[q] = <<>> => releasing[q] = <<>>
      BY <2>3, <2>4
    <3>. QED
      BY <1>1, <2>1, <3>1 DEF LocksInv, PriorityGivenBack, Live
  <2>11. DeletingForEver'
    <3>1. ASSUME NEW k \in Lock, lstate'[k] = "LFREE", lqueue'[k] # <<>> PROVE FALSE
      <4>1. inkernel # Nobody /\ releasing[inkernel] = <<>>
        BY <1>1, <2>1, <3>1 DEF LocksInv, DeletingForEver
      <4>. QED
        BY <1>1, <2>2, <4>1
    <3>. QED
      BY <3>1 DEF DeletingForEver
  <2>. QED
    BY <2>6, <2>7, <2>8, <2>9, <2>10, <2>11 DEF LocksInv
<1>. QED
  BY <1>3, <1>4

\* When a step changes no more than priorities, the queues are as right as before.
LEMMA PriorityChangesKeep ==
  ASSUME LocksInv, IsPrios(Prios'), Fits(Prios', Used),
         UNCHANGED <<pstate, plock, plocksacquired, pprevlock, pwaitret, lstate, ltype,
                     lock_acquired, lock_deleted, l_active_readers, lcnt, queueVars,
                     nextlock, now, semcnt, asked>>
  PROVE  /\ QueuesRight' /\ WaitersReal' /\ TimesPast' /\ FreeUnheld' /\ HoldersAgree'
         /\ LockQueueInOrder' /\ LprioIsHighestWaiter'
         /\ pinh' \in [Procs -> Nat] /\ lprio' \in [Lock -> Nat]
<1>1. QueuesRight' /\ WaitersReal' /\ TimesPast' /\ FreeUnheld' /\ HoldersAgree' /\ LockQueueInOrder'
  BY QueuesLeftAlone DEF queueVars
<1>2. LprioIsHighestWaiter'
  <2>1. ASSUME NEW k \in Lock, lstate'[k] = "LUSED"
        PROVE  lprio'[k] = WaitingPrio(Prios', lqueue'[k])
    <3>1. k \in Used \cap Lock
      BY <2>1 DEF Used
    <3>2. Prios'.lprio[k] = WaitingPrio(Prios', Prios'.queue[k])
      BY <3>1, FitsLprio
    <3>. QED
      BY <3>2 DEF Prios
  <2>. QED
    BY <2>1 DEF LprioIsHighestWaiter
<1>3. pinh' \in [Procs -> Nat] /\ lprio' \in [Lock -> Nat]
  BY DEF IsPrios, Prios
<1>. QED
  BY <1>1, <1>2, <1>3

\* The end of a releaseall(), or the whole of one that has nothing to release.
LEMMA InheritAndReturnKeeps ==
  ASSUME LocksInv, NEW p \in Procs, InheritAndReturn(p), Idle \/ Releasing(p)
  PROVE  LocksInv'
<1>. PICK U : U = PriorityInherit(Prios, {p})
  OBVIOUS
<1>1. /\ pinh' = U.pinh /\ lprio' = U.lprio /\ releasing' = [releasing EXCEPT ![p] = <<>>]
      /\ inkernel' = Nobody
      /\ UNCHANGED <<pstate, pprio, plock, plocksacquired, pprevlock, pwaitret,
                     lstate, ltype, lock_acquired, lock_deleted, l_active_readers, lcnt,
                     queueVars, nextlock, now, semcnt, calls, asked>>
  BY DEF InheritAndReturn, SetPrios
<1>2. TypeOK /\ IsPrios(Prios) /\ Fits(Prios, Used)
  BY PriosFit DEF LocksInv
<1>3. /\ Fits(U, Used) /\ SameWaits(U, Prios) /\ NothingNew(U, Prios)
      /\ \A q \in Procs : {p} = {q} /\ HoldsNone(Prios, q) => U.pinh[q] = 0
  BY <1>2, PriorityInheritKeeps
<1>4. Prios' = U
  <2>1. U = [pprio |-> U.pprio, pinh |-> U.pinh, plock |-> U.plock, held |-> U.held,
             lprio |-> U.lprio, queue |-> U.queue, has |-> U.has]
    BY <1>3 DEF Fits, IsPrios
  <2>2. /\ U.pprio = pprio /\ U.plock = plock /\ U.held = plocksacquired
        /\ U.queue = lqueue /\ U.has = lock_acquired
    BY <1>3 DEF SameWaits, Prios
  <2>. QED
    BY <1>1, <2>1, <2>2 DEF Prios, queueVars
<1>5. /\ QueuesRight' /\ WaitersReal' /\ TimesPast' /\ FreeUnheld' /\ HoldersAgree'
      /\ LockQueueInOrder' /\ LprioIsHighestWaiter'
      /\ pinh' \in [Procs -> Nat] /\ lprio' \in [Lock -> Nat]
  <2>1. IsPrios(Prios') /\ Fits(Prios', Used)
    BY <1>3, <1>4 DEF Fits
  <2>. QED
    BY <1>1, <2>1, PriorityChangesKeep
<1>6. \A q \in Procs : releasing'[q] = IF q = p THEN <<>> ELSE releasing[q]
  BY <1>1, <1>2 DEF TypeOK
<1>7. PriorityGivenBack'
  <2>1. ASSUME NEW q \in Procs, Live(q)', releasing'[q] = <<>>,
               \A k \in Lock : plocksacquired'[q][k] = "no"
        PROVE  pinh'[q] = 0
    <3>1. HoldsNone(Prios, q)
      BY <1>1, <2>1 DEF HoldsNone, Prios
    <3>2. CASE q = p
      BY <1>1, <1>3, <3>1, <3>2
    <3>3. CASE q # p
      <4>1. releasing[q] = <<>> /\ Live(q) /\ \A k \in Lock : plocksacquired[q][k] = "no"
        BY <1>1, <1>6, <2>1, <3>3 DEF Live
      <4>2. pinh[q] = 0
        BY <4>1 DEF LocksInv, PriorityGivenBack
      <4>3. U.pinh[q] = 0
        BY <1>3, <3>1, <4>2 DEF NothingNew, Prios
      <4>. QED
        BY <1>1, <4>3
    <3>. QED
      BY <3>2, <3>3
  <2>. QED
    BY <2>1 DEF PriorityGivenBack
<1>8. DeletingForEver'
  <2>1. ASSUME NEW k \in Lock, lstate'[k] = "LFREE", lqueue'[k] # <<>> PROVE FALSE
    <3>1. inkernel # Nobody /\ releasing[inkernel] = <<>>
      BY <1>1, <2>1 DEF LocksInv, DeletingForEver, queueVars
    <3>2. Idle \/ (inkernel \in {Nobody, p} /\ releasing[p] # <<>>)
      BY DEF Releasing
    <3>. QED
      BY <3>1, <3>2 DEF Idle
  <2>. QED
    BY <2>1 DEF DeletingForEver
<1>9. EndsAhead'
  BY <1>6 DEF LocksInv, EndsAhead
<1>10. TypeOK'
  <2>1. releasing' \in [Procs -> Seq(Lock \cup {End})]
    BY <1>1, <1>2 DEF TypeOK
  <2>. QED
    BY <1>1, <1>2, <1>5, <2>1 DEF TypeOK, queueVars
<1>. QED
  BY <1>5, <1>7, <1>8, <1>9, <1>10 DEF LocksInv

(***************************************************************************)
(* chprio(), kill() and ldelete().                                         *)
(***************************************************************************)
\* Looking through the waiters of a lock again makes up for whatever had
\* happened to their priorities, or to that of the lock.
LEMMA RequeuedFits ==
  ASSUME NEW T, NEW L, NEW l \in Lock, Fits(T, L \ {l}), NEW U, U = Requeued(T, l)
  PROVE  Fits(U, L) /\ SameWaits(U, T) /\ NothingNew(U, T)
<1>. DEFINE g == WaitingPrio(T, T.queue[l])
            T2 == [T EXCEPT !.lprio[l] = g]
<1>1. /\ T = [pprio |-> T.pprio, pinh |-> T.pinh, plock |-> T.plock, held |-> T.held,
              lprio |-> T.lprio, queue |-> T.queue, has |-> T.has]
      /\ IsPrios(T) /\ T.queue[l] \in Seq(Procs) /\ T.lprio \in [Lock -> Nat]
  BY DEF Fits, IsPrios
<1>2. Greatest(T, T.queue[l], g)
  BY <1>1, WaitingPrioIsGreatest
<1>3. U = InheritAll(T2, l)
  BY DEF Requeued
<1>. HIDE DEF g
<1>4. T2 = [pprio |-> T.pprio, pinh |-> T.pinh, plock |-> T.plock, held |-> T.held,
            lprio |-> [T.lprio EXCEPT ![l] = g], queue |-> T.queue, has |-> T.has]
  BY <1>1
<1>. HIDE DEF T2
<1>5. /\ SameWaits(T2, T) /\ T2.pinh = T.pinh /\ T2.lprio = [T.lprio EXCEPT ![l] = g]
  BY <1>4 DEF SameWaits
<1>6. IsPrios(T2)
  <2>1. T2 = [pprio |-> T2.pprio, pinh |-> T2.pinh, plock |-> T2.plock, held |-> T2.held,
              lprio |-> T2.lprio, queue |-> T2.queue, has |-> T2.has]
    BY <1>4, <1>5 DEF SameWaits
  <2>2. T2.lprio \in [Lock -> Nat]
    BY <1>1, <1>2, <1>5 DEF Greatest
  <2>3. /\ T2.pprio \in [Procs -> Nat] /\ T2.pinh \in [Procs -> Nat]
        /\ T2.plock \in [Procs -> Lock \cup {NoLock}]
        /\ T2.held \in [Procs -> [Lock -> {"no", "yes", "DELETED"}]]
        /\ \A k \in Lock : T2.queue[k] \in Seq(Procs)
    BY <1>1, <1>5 DEF IsPrios, SameWaits
  <2>. QED
    BY <2>1, <2>2, <2>3, Zenon DEF IsPrios
<1>7. \A q : schedprio(T2, q) = schedprio(T, q)
  BY <1>5 DEF schedprio, SameWaits
<1>8. Fits(T2, L)
  <2>1. ASSUME NEW k \in L \cap Lock PROVE Greatest(T2, T2.queue[k], T2.lprio[k])
    <3>1. CASE k = l
      <4>1. T2.queue[k] = T.queue[l] /\ T2.lprio[k] = g
        BY <1>1, <1>5, <3>1 DEF SameWaits
      <4>. QED
        BY <1>2, <1>7, <4>1 DEF Greatest
    <3>2. CASE k # l
      <4>1. T2.queue[k] = T.queue[k] /\ T2.lprio[k] = T.lprio[k]
        BY <1>1, <1>5, <3>2 DEF SameWaits
      <4>2. Greatest(T, T.queue[k], T.lprio[k])
        BY <3>2 DEF Fits
      <4>. QED
        BY <1>7, <4>1, <4>2 DEF Greatest
    <3>. QED
      BY <3>1, <3>2
  <2>2. \A k \in Lock : \A i \in 1..Len(T2.queue[k]) : T2.plock[T2.queue[k][i]] = k
    BY <1>5 DEF Fits, SameWaits
  <2>. QED
    BY <1>6, <2>1, <2>2 DEF Fits
<1>9. Fits(U, L) /\ SameWaits(U, T2) /\ NothingNew(U, T2)
  <2>1. U = PriorityInherit(T2, {h \in Procs : T2.has[l][h]})
    BY <1>3 DEF InheritAll
  <2>. QED
    BY <1>8, <2>1, PriorityInheritKeeps
<1>10. SameWaits(U, T)
  BY <1>5, <1>9 DEF SameWaits
<1>11. NothingNew(U, T)
  <2>1. ASSUME NEW q \in Procs, HoldsNone(T, q), T.pinh[q] = 0 PROVE U.pinh[q] = 0
    <3>1. HoldsNone(T2, q) /\ T2.pinh[q] = 0
      BY <1>5, <2>1 DEF HoldsNone, SameWaits
    <3>. QED
      BY <1>9, <3>1 DEF NothingNew
  <2>. QED
    BY <2>1 DEF NothingNew
<1>. QED
  BY <1>9, <1>10, <1>11

\* chprio(), of a process that waits and of any other.
LEMMA ChprioKeeps ==
  ASSUME LocksInv, NEW p \in Procs, NEW target \in Procs, NEW newprio \in NewPrios,
         Chprio(p, target, newprio)
  PROVE  LocksInv'
<1>. DEFINE inh == IF pinh[target] # 0 THEN newprio ELSE pinh[target]
            T == [Prios EXCEPT !.pprio[target] = newprio,
                               !.pinh[target] = IF @ # 0 THEN newprio ELSE @]
            U == IF Waiting(target) THEN Requeued(T, plock[target]) ELSE T
<1>1. /\ Idle /\ calls < MaxCalls /\ calls' = calls + 1
      /\ pprio' = [pprio EXCEPT ![target] = newprio]
      /\ pinh' = U.pinh /\ lprio' = U.lprio
      /\ UNCHANGED <<pstate, plock, plocksacquired, pprevlock, pwaitret,
                     lstate, ltype, lock_acquired, lock_deleted, l_active_readers, lcnt,
                     queueVars, nextlock, now, releasing, inkernel, semcnt, asked>>
  BY DEF Chprio, Calling, CountCall, SetPrios, Waiting
<1>. HIDE DEF U
<1>2. TypeOK /\ IsPrios(Prios) /\ Fits(Prios, Used) /\ newprio \in Nat \ {0}
  BY PriosAssumption, PriosFit DEF LocksInv
<1>3. T = [pprio |-> [pprio EXCEPT ![target] = newprio], pinh |-> [pinh EXCEPT ![target] = inh],
           plock |-> plock, held |-> plocksacquired, lprio |-> lprio, queue |-> lqueue,
           has |-> lock_acquired]
  <2>1. Prios = [pprio |-> pprio, pinh |-> pinh, plock |-> plock, held |-> plocksacquired,
                 lprio |-> lprio, queue |-> lqueue, has |-> lock_acquired]
    BY DEF Prios
  <2>2. T = [Prios EXCEPT !.pprio[target] = newprio, !.pinh[target] = inh]
    BY <1>2, <2>1
  <2>. HIDE DEF T, inh
  <2>. QED
    BY <2>1, <2>2
<1>. HIDE DEF T
<1>4. /\ T.pprio = [pprio EXCEPT ![target] = newprio] /\ T.pinh = [pinh EXCEPT ![target] = inh]
      /\ T.plock = plock /\ T.held = plocksacquired
      /\ T.lprio = lprio /\ T.queue = lqueue /\ T.has = lock_acquired
  BY <1>3
<1>5. inh \in Nat /\ (pinh[target] = 0 => inh = 0)
  BY <1>2 DEF TypeOK
<1>. HIDE DEF inh
<1>6. IsPrios(T)
  <2>1. T = [pprio |-> T.pprio, pinh |-> T.pinh, plock |-> T.plock, held |-> T.held,
             lprio |-> T.lprio, queue |-> T.queue, has |-> T.has]
    BY <1>3, <1>4
  <2>2. T.pprio \in [Procs -> Nat]
    BY <1>2, <1>4 DEF TypeOK
  <2>3. T.pinh \in [Procs -> Nat]
    BY <1>2, <1>4, <1>5 DEF TypeOK
  <2>4. /\ T.plock \in [Procs -> Lock \cup {NoLock}]
        /\ T.held \in [Procs -> [Lock -> {"no", "yes", "DELETED"}]]
        /\ T.lprio \in [Lock -> Nat]
        /\ \A k \in Lock : T.queue[k] \in Seq(Procs)
    BY <1>2, <1>4 DEF TypeOK
  <2>. QED
    BY <2>1, <2>2, <2>3, <2>4, Zenon DEF IsPrios
<1>7. \A q \in Procs : q # target => schedprio(T, q) = schedprio(Prios, q)
  BY <1>2, <1>4 DEF schedprio, Prios, TypeOK
<1>8. Fits(T, IF Waiting(target) THEN Used \ {plock[target]} ELSE Used)
  <2>1. ASSUME NEW k \in Used \cap Lock, Waiting(target) => k # plock[target]
        PROVE  Greatest(T, T.queue[k], T.lprio[k])
    <3>1. Greatest(Prios, lqueue[k], lprio[k])
      BY <1>2 DEF Fits, Prios
    <3>2. \A i \in 1..Len(lqueue[k]) : lqueue[k][i] \in Procs /\ lqueue[k][i] # target
      BY <2>1, QueuedWaits DEF LocksInv
    <3>3. \A i \in 1..Len(lqueue[k]) : schedprio(T, lqueue[k][i]) = schedprio(Prios, lqueue[k][i])
      BY <1>7, <3>2
    <3>. QED
      BY <1>4, <3>1, <3>3 DEF Greatest
  <2>2. \A k \in Lock : \A i \in 1..Len(T.queue[k]) : T.plock[T.queue[k][i]] = k
    BY <1>4, QueuedWaits DEF LocksInv
  <2>. QED
    BY <1>6, <2>1, <2>2 DEF Fits
<1>9. Fits(U, Used) /\ SameWaits(U, T) /\ NothingNew(U, T)
  <2>1. CASE Waiting(target)
    <3>1. plock[target] \in Lock
      BY <2>1 DEF LocksInv, WaitersReal
    <3>2. U = Requeued(T, plock[target]) /\ Fits(T, Used \ {plock[target]})
      BY <1>8, <2>1 DEF U
    <3>. QED
      BY <3>1, <3>2, RequeuedFits
  <2>2. CASE ~Waiting(target)
    <3>1. U = T /\ Fits(T, Used)
      BY <1>8, <2>2 DEF U
    <3>. QED
      BY <3>1 DEF SameWaits, NothingNew
  <2>. QED
    BY <2>1, <2>2
<1>10. Prios' = U /\ IsPrios(U)
  <2>1. /\ IsPrios(U)
        /\ U = [pprio |-> U.pprio, pinh |-> U.pinh, plock |-> U.plock, held |-> U.held,
                lprio |-> U.lprio, queue |-> U.queue, has |-> U.has]
    BY <1>9 DEF Fits, IsPrios
  <2>2. /\ U.pprio = pprio' /\ U.plock = plock /\ U.held = plocksacquired
        /\ U.queue = lqueue /\ U.has = lock_acquired
    BY <1>1, <1>4, <1>9 DEF SameWaits
  <2>. QED
    BY <1>1, <2>1, <2>2 DEF Prios, queueVars
<1>11. /\ QueuesRight' /\ WaitersReal' /\ TimesPast' /\ FreeUnheld' /\ HoldersAgree'
       /\ LockQueueInOrder' /\ LprioIsHighestWaiter'
       /\ pinh' \in [Procs -> Nat] /\ lprio' \in [Lock -> Nat]
  BY <1>1, <1>9, <1>10, PriorityChangesKeep
<1>12. PriorityGivenBack'
  <2>1. ASSUME NEW q \in Procs, Live(q)', releasing'[q] = <<>>,
               \A k \in Lock : plocksacquired'[q][k] = "no"
        PROVE  pinh'[q] = 0
    <3>1. pinh[q] = 0
      BY <1>1, <2>1 DEF LocksInv, PriorityGivenBack, Live
    <3>2. HoldsNone(T, q)
      BY <1>1, <1>4, <2>1 DEF HoldsNone
    <3>3. T.pinh[q] = 0
      BY <1>2, <1>4, <1>5, <3>1 DEF TypeOK
    <3>. QED
      BY <1>1, <1>9, <3>2, <3>3 DEF NothingNew
  <2>. QED
    BY <2>1 DEF PriorityGivenBack
<1>13. DeletingForEver' /\ EndsAhead'
  BY <1>1 DEF LocksInv, DeletingForEver, EndsAhead, queueVars
<1>14. TypeOK'
  <2>1. calls' \in 0..MaxCalls
    BY <1>1, <1>2, BoundsAssumption DEF TypeOK
  <2>2. pprio' \in [Procs -> Nat \ {0}]
    BY <1>1, <1>2 DEF TypeOK
  <2>. QED
    BY <1>1, <1>2, <1>11, <2>1, <2>2 DEF TypeOK, queueVars
<1>. QED
  BY <1>11, <1>12, <1>13, <1>14 DEF LocksInv

\* What one process has of a lock is one thing in both tables.
LEMMA TablesAgree ==
  ASSUME NEW acquired, NEW field, acquired <=> field = "yes",
         NEW acquired2, NEW field2,
         field2 = IF acquired THEN "DELETED" ELSE field, ~acquired2
  PROVE  acquired2 <=> field2 = "yes"
<1>1. CASE acquired
  <2>1. field2 = "DELETED"
    BY <1>1
  <2>. QED
    BY <2>1
<1>2. CASE ~acquired
  <2>1. field2 = field
    BY <1>2
  <2>. QED
    BY <1>2, <2>1, Zenon
<1>. QED
  BY <1>1, <1>2

\* ldelete(): its first waiter leaves, and it is not finished with the others.
LEMMA LdeleteKeeps ==
  ASSUME LocksInv, NEW p \in Procs, NEW l \in Lock, Ldelete(p, l)
  PROVE  LocksInv'
<1>. DEFINE first == Head(lqueue[l])
            gone == IF lqueue[l] = <<>> THEN {} ELSE {first}
            rest == IF lqueue[l] = <<>> THEN lqueue[l] ELSE Tail(lqueue[l])
<1>1. /\ Idle /\ releasing[p] = <<>> /\ calls < MaxCalls /\ calls' = calls + 1 /\ lstate[l] = "LUSED"
      /\ lstate' = [lstate EXCEPT ![l] = "LFREE"]
      /\ lock_deleted' = [lock_deleted EXCEPT ![l] = TRUE]
      /\ lock_acquired' = [lock_acquired EXCEPT ![l] = [q \in Procs |-> FALSE]]
      /\ plocksacquired' = [q \in Procs |->
            [plocksacquired[q] EXCEPT ![l] = IF lock_acquired[l][q] THEN "DELETED" ELSE @]]
      /\ UNCHANGED <<pprio, pinh, plock, pprevlock, ltype, lprio, l_active_readers, lcnt,
                     qkey, qlocktype, qlockwaittime, nextlock, now, releasing, semcnt, asked>>
  BY DEF Ldelete, Calling, CountCall
<1>2. IF lqueue[l] = <<>> THEN UNCHANGED <<lqueue, pwaitret, pstate, inkernel>>
      ELSE /\ lqueue' = [lqueue EXCEPT ![l] = Tail(@)]
           /\ pwaitret' = [pwaitret EXCEPT ![first] = "DELETED"]
           /\ pstate' = [pstate EXCEPT ![first] = "RUNNABLE"]
           /\ inkernel' = p
  BY DEF Ldelete
<1>3. TypeOK
  BY DEF LocksInv
<1>4. lqueue[l] \in Seq(Procs) /\ HoldsIn(Procs, lqueue[l], WaitersOf(l))
  BY <1>3 DEF LocksInv, TypeOK, QueuesRight
<1>5. /\ lqueue[l] # <<>> => first \in WaitersOf(l) /\ first \in Procs
      /\ rest \in Seq(Procs) /\ HoldsIn(Procs, rest, WaitersOf(l) \ gone)
  <2>1. CASE lqueue[l] = <<>>
    BY <1>4, <2>1
  <2>2. CASE lqueue[l] # <<>>
    <3>1. 1 \in 1..Len(lqueue[l]) /\ first = lqueue[l][1]
      BY <1>4, <2>2
    <3>2. first \in Procs /\ Contains(lqueue[l], first)
      BY <1>4, <3>1 DEF Contains
    <3>3. first \in WaitersOf(l)
      BY <1>4, <3>2 DEF HoldsIn
    <3>4. Tail(lqueue[l]) \in Seq(Procs) /\ HoldsIn(Procs, Tail(lqueue[l]), WaitersOf(l) \ {first})
      BY <1>4, <2>2, TailHoldsIn
    <3>. QED
      BY <2>2, <3>2, <3>3, <3>4
  <2>. QED
    BY <2>1, <2>2
<1>6. /\ \A k \in Lock : lqueue'[k] = IF k = l THEN rest ELSE lqueue[k]
      /\ lqueue' \in [Lock -> Seq(Procs)]
  <2>1. lqueue \in [Lock -> Seq(Procs)]
    BY <1>3 DEF TypeOK
  <2>2. lqueue' = [lqueue EXCEPT ![l] = rest]
    BY <1>2, <2>1
  <2>. QED
    BY <1>5, <2>1, <2>2
<1>7. \A q \in Procs : pstate'[q] = IF q \in gone THEN "RUNNABLE" ELSE pstate[q]
  BY <1>2, <1>3 DEF TypeOK
<1>8. gone \subseteq WaitersOf(l)
  BY <1>5
<1>9. DeletingForEver'
  <2>1. ASSUME NEW k \in Lock, lstate'[k] = "LFREE", lqueue'[k] # <<>>
        PROVE  inkernel' # Nobody /\ releasing'[inkernel'] = <<>>
    <3>1. CASE k = l
      <4>1. lqueue[l] # <<>>
        BY <1>6, <2>1, <3>1
      <4>2. inkernel' = p /\ p # Nobody
        BY <1>2, <4>1, ProcsAssumption DEF Nobody
      <4>. QED
        BY <1>1, <4>2
    <3>2. CASE k # l
      <4>1. lstate[k] = "LFREE" /\ lqueue[k] # <<>>
        BY <1>1, <1>3, <1>6, <2>1, <3>2 DEF TypeOK
      <4>. QED
        BY <1>1, <4>1 DEF LocksInv, DeletingForEver, Idle
    <3>. QED
      BY <3>1, <3>2
  <2>. QED
    BY <2>1 DEF DeletingForEver
<1>10. LockQueueInOrder'
  <2>1. ASSUME NEW k \in Lock PROVE InLine(lqueue'[k], qkey', qlockwaittime')
    <3>1. InLine(lqueue[k], qkey, qlockwaittime)
      BY DEF LocksInv, LockQueueInOrder, InLine
    <3>2. CASE k = l /\ lqueue[l] # <<>>
      <4>1. lqueue'[k] = Tail(lqueue[l])
        BY <1>6, <3>2
      <4>2. /\ Len(Tail(lqueue[l])) = Len(lqueue[l]) - 1 /\ Len(lqueue[l]) \in Nat
            /\ \A i \in 1..Len(lqueue[l]) - 1 : Tail(lqueue[l])[i] = lqueue[l][i + 1]
        BY <1>4, <3>2
      <4>3. \A i, j \in 1..Len(lqueue[l]) - 1 : i < j =>
              /\ i + 1 \in 1..Len(lqueue[l]) /\ j + 1 \in 1..Len(lqueue[l]) /\ i + 1 < j + 1
        BY <4>2
      <4>. QED
        BY <1>1, <3>1, <3>2, <4>1, <4>2, <4>3 DEF InLine
    <3>3. CASE k # l \/ lqueue[l] = <<>>
      <4>1. lqueue'[k] = lqueue[k]
        BY <1>6, <3>3
      <4>. QED
        BY <1>1, <3>1, <4>1
    <3>. QED
      BY <3>2, <3>3
  <2>. QED
    BY <2>1 DEF LockQueueInOrder, InLine
<1>11. TypeOK'
  <2>1. /\ calls' \in 0..MaxCalls /\ inkernel' \in Procs \cup {Nobody}
    BY <1>1, <1>2, <1>3, BoundsAssumption, SMTT(30), ZenonT(30) DEF TypeOK
  <2>2. /\ pstate' \in [Procs -> {"RUNNABLE", "PRWAIT", "PRFREE"}]
        /\ pwaitret' \in [Procs -> {"unset", "OK", "DELETED"}]
    BY <1>2, <1>3 DEF TypeOK
  <2>3. /\ lstate' \in [Lock -> {"LFREE", "LUSED"}] /\ lock_deleted' \in [Lock -> BOOLEAN]
        /\ lock_acquired' \in [Lock -> [Procs -> BOOLEAN]]
    BY <1>1, <1>3 DEF TypeOK
  <2>4. plocksacquired' \in [Procs -> [Lock -> {"no", "yes", "DELETED"}]]
    BY <1>1, <1>3, SMTT(30), ZenonT(30) DEF TypeOK
  <2>. QED
    BY <1>1, <1>3, <1>6, <2>1, <2>2, <2>3, <2>4 DEF TypeOK
<1>. HIDE DEF first, gone, rest
<1>12. ASSUME NEW k \in Lock PROVE WaitersOf(k)' = WaitersOf(k) \ gone
  <2>1. \A q \in Procs : q \in WaitersOf(k)' <=> q \in WaitersOf(k) /\ q \notin gone
    BY <1>1, <1>7 DEF WaitersOf, Waiting
  <2>. QED
    BY <2>1 DEF WaitersOf
<1>13. QueuesRight'
  <2>1. ASSUME NEW k \in Lock, k # l PROVE WaitersOf(k)' = WaitersOf(k)
    <3>1. \A q \in gone : q \notin WaitersOf(k)
      BY <1>8, <2>1 DEF WaitersOf
    <3>. QED
      BY <1>12, <3>1
  <2>. QED
    BY <1>5, <1>6, <1>12, <2>1 DEF LocksInv, QueuesRight
<1>14. \A k \in Lock, q \in Procs :
         /\ lock_acquired'[k][q] <=> k # l /\ lock_acquired[k][q]
         /\ plocksacquired'[q][k] = IF k = l /\ lock_acquired[k][q] THEN "DELETED"
                                    ELSE plocksacquired[q][k]
  <2>1. ASSUME NEW k \in Lock, NEW q \in Procs
        PROVE  lock_acquired'[k][q] <=> k # l /\ lock_acquired[k][q]
    BY <1>1, <1>3 DEF TypeOK
  <2>2. ASSUME NEW k \in Lock, NEW q \in Procs
        PROVE  plocksacquired'[q][k] = IF k = l /\ lock_acquired[k][q] THEN "DELETED"
                                       ELSE plocksacquired[q][k]
    BY <1>1, <1>3 DEF TypeOK
  <2>. QED
    BY <2>1, <2>2
<1>15. HoldersAgree'
  <2>1. ASSUME NEW k \in Lock, NEW q \in Procs
        PROVE  lock_acquired'[k][q] <=> plocksacquired'[q][k] = "yes"
    <3>1. lock_acquired[k][q] <=> plocksacquired[q][k] = "yes"
      BY DEF LocksInv, HoldersAgree
    <3>2. CASE k = l
      <4>1. plocksacquired'[q][k] = IF lock_acquired[k][q] THEN "DELETED" ELSE plocksacquired[q][k]
        BY <1>14, <3>2
      <4>2. ~lock_acquired'[k][q]
        BY <1>14, <3>2, Zenon
      <4>. QED
        BY <3>1, <4>1, <4>2, TablesAgree
    <3>3. CASE k # l
      <4>1. plocksacquired'[q][k] = plocksacquired[q][k]
        BY <1>14, <3>3
      <4>2. lock_acquired'[k][q] <=> lock_acquired[k][q]
        BY <1>14, <3>3, Zenon
      <4>. QED
        BY <3>1, <4>1, <4>2, Zenon
    <3>. QED
      BY <3>2, <3>3
  <2>. QED
    BY <2>1 DEF HoldersAgree
<1>16. FreeUnheld'
  <2>1. ASSUME NEW k \in Lock, lstate'[k] = "LFREE", NEW q \in Procs PROVE ~lock_acquired'[k][q]
    <3>1. CASE k = l
      BY <1>14, <3>1, Zenon
    <3>2. CASE k # l
      <4>1. lstate[k] = "LFREE"
        BY <1>1, <1>3, <2>1, <3>2 DEF TypeOK
      <4>2. ~lock_acquired[k][q]
        BY <4>1 DEF LocksInv, FreeUnheld
      <4>. QED
        BY <1>14, <4>2, Zenon
    <3>. QED
      BY <3>1, <3>2
  <2>. QED
    BY <2>1 DEF FreeUnheld
<1>17. LprioIsHighestWaiter'
  <2>1. \A q : WaitingPrio(Prios', q) = WaitingPrio(Prios, q)
    BY <1>1 DEF Prios, WaitingPrio, schedprio
  <2>2. ASSUME NEW k \in Lock, lstate'[k] = "LUSED"
        PROVE  lprio'[k] = WaitingPrio(Prios', lqueue'[k])
    <3>1. k # l /\ lstate[k] = "LUSED"
      BY <1>1, <1>3, <2>2 DEF TypeOK
    <3>. QED
      BY <1>1, <1>6, <2>1, <3>1 DEF LocksInv, LprioIsHighestWaiter
  <2>. QED
    BY <2>2 DEF LprioIsHighestWaiter
<1>18. PriorityGivenBack'
  <2>1. ASSUME NEW q \in Procs, Live(q)', releasing'[q] = <<>>,
               \A k \in Lock : plocksacquired'[q][k] = "no"
        PROVE  pinh'[q] = 0
    <3>1. \A k \in Lock : plocksacquired[q][k] = "no"
      BY <1>14, <2>1
    <3>2. Live(q)
      BY <1>7, <1>8, <2>1 DEF Live, WaitersOf, Waiting
    <3>. QED
      BY <1>1, <2>1, <3>1, <3>2 DEF LocksInv, PriorityGivenBack
  <2>. QED
    BY <2>1 DEF PriorityGivenBack
<1>19. WaitersReal' /\ TimesPast' /\ EndsAhead'
  <2>1. ASSUME NEW q \in Procs, Waiting(q)'
        PROVE  /\ plock'[q] \in Lock /\ ~lock_acquired'[plock'[q]][q]
               /\ qkey'[q] \in LockPrios /\ qlocktype'[q] \in {"READ", "WRITE"}
    <3>1. Waiting(q) /\ plock'[q] = plock[q]
      BY <1>1, <1>7, <2>1 DEF Waiting
    <3>2. /\ plock[q] \in Lock /\ ~lock_acquired[plock[q]][q]
          /\ qkey[q] \in LockPrios /\ qlocktype[q] \in {"READ", "WRITE"}
      BY <3>1 DEF LocksInv, WaitersReal
    <3>3. ~lock_acquired'[plock[q]][q]
      BY <1>14, <3>2, Zenon
    <3>. QED
      BY <1>1, <3>1, <3>2, <3>3
  <2>2. TimesPast' /\ EndsAhead'
    BY <1>1 DEF LocksInv, TimesPast, EndsAhead
  <2>. QED
    BY <2>1, <2>2 DEF WaitersReal
<1>. QED
  BY <1>9, <1>10, <1>11, <1>13, <1>15, <1>16, <1>17, <1>18, <1>19 DEF LocksInv

\* A queue that one less urgent than the most urgent has left.
LEMMA GreatestWithoutOne ==
  ASSUME NEW T, NEW U, \A q : schedprio(U, q) = schedprio(T, q),
         NEW S, NEW queue \in Seq(Procs), HoldsIn(Procs, queue, S),
         NEW victim, NEW rest \in Seq(Procs), HoldsIn(Procs, rest, S \ {victim}),
         NEW m, Greatest(T, queue, m), schedprio(T, victim) # m
  PROVE  Greatest(U, rest, m)
<1>1. ASSUME NEW i \in 1..Len(rest) PROVE schedprio(U, rest[i]) <= m
  <2>1. rest[i] \in Procs /\ Contains(rest, rest[i])
    BY DEF Contains
  <2>2. Contains(queue, rest[i])
    BY <2>1 DEF HoldsIn
  <2>. QED
    BY <2>2 DEF Contains, Greatest
<1>2. ASSUME m # 0 PROVE \E i \in 1..Len(rest) : m = schedprio(U, rest[i])
  <2>1. PICK j \in 1..Len(queue) : m = schedprio(T, queue[j])
    BY <1>2 DEF Greatest
  <2>2. queue[j] # victim /\ queue[j] \in Procs /\ Contains(queue, queue[j])
    BY <2>1 DEF Contains
  <2>3. Contains(rest, queue[j])
    BY <2>2 DEF HoldsIn
  <2>. QED
    BY <2>1, <2>3 DEF Contains
<1>. QED
  BY <1>1, <1>2 DEF Greatest

\* kill(), of a process that waits and of any other.
LEMMA KillKeeps ==
  ASSUME LocksInv, NEW p \in Procs, NEW victim \in Procs, Kill(p, victim)
  PROVE  LocksInv'
<1>. DEFINE l == plock[victim]
            rest == Dequeued(lqueue[l], {victim})
            Q == IF Waiting(victim) THEN [lqueue EXCEPT ![l] = rest] ELSE lqueue
            W == [Prios EXCEPT !.queue = Q]
            again == Waiting(victim) /\ schedprio(Prios, victim) = lprio[l]
            U == IF again THEN Requeued(W, l) ELSE W
<1>1. /\ Idle /\ calls < MaxCalls /\ calls' = calls + 1
      /\ pstate' = [pstate EXCEPT ![victim] = "PRFREE"]
      /\ releasing' = [releasing EXCEPT ![victim] = <<>>]
      /\ UNCHANGED <<pprio, plock, plocksacquired, pprevlock, pwaitret,
                     lstate, ltype, lock_acquired, lock_deleted, l_active_readers,
                     qkey, qlocktype, qlockwaittime, nextlock, now, inkernel, asked>>
  BY DEF Kill, Calling, CountCall
<1>2. TypeOK /\ IsPrios(Prios) /\ Fits(Prios, Used)
  BY PriosFit DEF LocksInv
<1>3. Prios = [pprio |-> pprio, pinh |-> pinh, plock |-> plock, held |-> plocksacquired,
               lprio |-> lprio, queue |-> lqueue, has |-> lock_acquired]
  BY DEF Prios
<1>4. W = [pprio |-> pprio, pinh |-> pinh, plock |-> plock, held |-> plocksacquired,
           lprio |-> lprio, queue |-> Q, has |-> lock_acquired]
  <2>. HIDE DEF Q
  <2>. QED
    BY <1>3
<1>5. /\ W.pprio = pprio /\ W.pinh = pinh /\ W.plock = plock /\ W.held = plocksacquired
      /\ W.lprio = lprio /\ W.queue = Q /\ W.has = lock_acquired
  <2>. HIDE DEF W, Q
  <2>. QED
    BY <1>4
<1>6. lqueue' = Q /\ pinh' = U.pinh /\ lprio' = U.lprio
  <2>1. CASE Waiting(victim)
    <3>1. /\ lqueue' = [lqueue EXCEPT ![l] = rest]
          /\ SetPrios(IF schedprio(Prios, victim) = lprio[l]
                      THEN Requeued([Prios EXCEPT !.queue = [lqueue EXCEPT ![l] = rest]], l)
                      ELSE Prios)
      BY <2>1 DEF Kill, KillWaiter, Waiting
    <3>2. CASE again
      BY <2>1, <3>1, <3>2 DEF SetPrios
    <3>3. CASE ~again
      <4>1. pinh' = pinh /\ lprio' = lprio
        BY <2>1, <3>1, <3>3 DEF SetPrios, Prios
      <4>2. U = W
        BY <3>3
      <4>. QED
        BY <1>5, <2>1, <3>1, <4>1, <4>2
    <3>. QED
      BY <3>2, <3>3
  <2>2. CASE ~Waiting(victim)
    <3>1. lqueue' = lqueue /\ pinh' = pinh /\ lprio' = lprio
      BY <2>2 DEF Kill, Waiting
    <3>2. U = W
      BY <2>2
    <3>. QED
      BY <1>5, <2>2, <3>1, <3>2
  <2>. QED
    BY <2>1, <2>2
<1>7. semcnt' \in Nat /\ lcnt' \in [Lock -> Nat]
  <2>1. semcnt \in Nat /\ lcnt \in [Lock -> Nat]
    BY <1>2 DEF TypeOK
  <2>2. CASE Waiting(victim)
    <3>0. l \in Lock
      BY <2>2 DEF LocksInv, WaitersReal
    <3>1. semcnt' = semcnt + 1
      BY <2>2 DEF Kill, KillWaiter, Waiting
    <3>2. \E n \in {lcnt[l], lcnt[l] + 1} : lcnt' = [lcnt EXCEPT ![l] = n]
      BY <2>2 DEF Kill, KillWaiter, Waiting
    <3>. HIDE DEF l
    <3>3. semcnt' \in Nat
      BY <2>1, <3>1
    <3>4. PICK n \in {lcnt[l], lcnt[l] + 1} : lcnt' = [lcnt EXCEPT ![l] = n]
      BY <3>2
    <3>5. n \in Nat
      BY <2>1, <3>0
    <3>. QED
      BY <2>1, <3>3, <3>4, <3>5
  <2>3. CASE ~Waiting(victim)
    BY <2>1, <2>3 DEF Kill, Waiting
  <2>. QED
    BY <2>2, <2>3
<1>. HIDE DEF W, U
<1>8. ASSUME NEW k \in Lock
      PROVE  /\ Q[k] \in Seq(Procs) /\ HoldsIn(Procs, Q[k], WaitersOf(k) \ {victim})
             /\ InLine(Q[k], qkey, qlockwaittime)
             /\ ~Waiting(victim) \/ k # l => Q[k] = lqueue[k]
  <2>1. lqueue \in [Lock -> Seq(Procs)] /\ lqueue[k] \in Seq(Procs)
    BY <1>2 DEF TypeOK
  <2>2. HoldsIn(Procs, lqueue[k], WaitersOf(k)) /\ InLine(lqueue[k], qkey, qlockwaittime)
    BY DEF LocksInv, QueuesRight, LockQueueInOrder, InLine
  <2>3. CASE Waiting(victim) /\ k = l
    <3>1. Q[k] = Dequeued(lqueue[k], {victim})
      BY <2>1, <2>3
    <3>. HIDE DEF Q
    <3>2. Q[k] \in Seq(Procs) /\ HoldsIn(Procs, Q[k], WaitersOf(k) \ {victim})
      BY <2>1, <2>2, <3>1, DequeuedFacts
    <3>3. InLine(Q[k], qkey, qlockwaittime)
      BY <2>1, <2>2, <3>1, LeftInLine
    <3>. QED
      BY <2>3, <3>2, <3>3
  <2>4. CASE ~Waiting(victim) \/ k # l
    <3>1. Q[k] = lqueue[k]
      BY <2>1, <2>4
    <3>2. WaitersOf(k) \ {victim} = WaitersOf(k)
      BY <2>4 DEF WaitersOf
    <3>. QED
      BY <2>1, <2>2, <3>1, <3>2
  <2>. QED
    BY <2>3, <2>4
<1>9. Q \in [Lock -> Seq(Procs)]
  <2>1. \E F : Q = [k \in Lock |-> F[k]]
    <3>1. lqueue = [k \in Lock |-> lqueue[k]]
      BY <1>2 DEF TypeOK
    <3>2. Q = [k \in Lock |-> Q[k]]
      BY <3>1
    <3>. QED
      BY <3>2
  <2>. HIDE DEF Q
  <2>. QED
    BY <1>8, <2>1
<1>. HIDE DEF Q
<1>10. \A q : schedprio(W, q) = schedprio(Prios, q)
  BY <1>5 DEF schedprio, Prios
<1>11. IsPrios(W)
  <2>1. W = [pprio |-> W.pprio, pinh |-> W.pinh, plock |-> W.plock, held |-> W.held,
             lprio |-> W.lprio, queue |-> W.queue, has |-> W.has]
    BY <1>4, <1>5
  <2>2. /\ W.pprio \in [Procs -> Nat] /\ W.pinh \in [Procs -> Nat]
        /\ W.plock \in [Procs -> Lock \cup {NoLock}]
        /\ W.held \in [Procs -> [Lock -> {"no", "yes", "DELETED"}]]
        /\ W.lprio \in [Lock -> Nat]
    BY <1>2, <1>5 DEF TypeOK
  <2>3. \A k \in Lock : W.queue[k] \in Seq(Procs)
    BY <1>5, <1>8
  <2>. QED
    BY <2>1, <2>2, <2>3, Zenon DEF IsPrios
<1>12. ASSUME NEW k \in Lock, NEW i \in 1..Len(Q[k]) PROVE plock[Q[k][i]] = k
  <2>1. Q[k] \in Seq(Procs) /\ HoldsIn(Procs, Q[k], WaitersOf(k) \ {victim})
    BY <1>8
  <2>2. Q[k][i] \in Procs /\ Contains(Q[k], Q[k][i])
    BY <2>1 DEF Contains
  <2>. QED
    BY <2>1, <2>2 DEF HoldsIn, WaitersOf
<1>13. ASSUME NEW k \in Used \cap Lock, ~(again /\ k = l) PROVE Greatest(W, Q[k], lprio[k])
  <2>1. Greatest(Prios, lqueue[k], lprio[k]) /\ lqueue[k] \in Seq(Procs)
    BY <1>2 DEF Fits, Prios, TypeOK
  <2>2. CASE Waiting(victim) /\ k = l
    <3>1. schedprio(Prios, victim) # lprio[k]
      BY <1>13, <2>2
    <3>2. HoldsIn(Procs, lqueue[k], WaitersOf(k))
      BY DEF LocksInv, QueuesRight
    <3>3. Q[k] \in Seq(Procs) /\ HoldsIn(Procs, Q[k], WaitersOf(k) \ {victim})
      BY <1>8
    <3>. HIDE DEF l, rest, again
    <3>. QED
      BY <1>10, <2>1, <3>1, <3>2, <3>3, GreatestWithoutOne
  <2>3. CASE ~(Waiting(victim) /\ k = l)
    <3>1. Q[k] = lqueue[k]
      BY <1>8, <2>3
    <3>. QED
      BY <1>10, <2>1, <3>1 DEF Greatest
  <2>. QED
    BY <2>2, <2>3
<1>14. Fits(U, Used) /\ SameWaits(U, W) /\ NothingNew(U, W)
  <2>1. CASE again
    <3>1. l \in Lock
      BY <2>1 DEF LocksInv, WaitersReal
    <3>2. Fits(W, Used \ {l})
      <4>1. \A k \in (Used \ {l}) \cap Lock : Greatest(W, W.queue[k], W.lprio[k])
        BY <1>5, <1>13
      <4>2. \A k \in Lock : \A i \in 1..Len(W.queue[k]) : W.plock[W.queue[k][i]] = k
        BY <1>5, <1>12
      <4>. QED
        BY <1>11, <4>1, <4>2 DEF Fits
    <3>3. U = Requeued(W, l)
      BY <2>1 DEF U
    <3>. HIDE DEF l
    <3>. QED
      BY <3>1, <3>2, <3>3, RequeuedFits
  <2>2. CASE ~again
    <3>1. Fits(W, Used)
      <4>1. \A k \in Used \cap Lock : Greatest(W, W.queue[k], W.lprio[k])
        BY <1>5, <1>13, <2>2
      <4>2. \A k \in Lock : \A i \in 1..Len(W.queue[k]) : W.plock[W.queue[k][i]] = k
        BY <1>5, <1>12
      <4>. QED
        BY <1>11, <4>1, <4>2 DEF Fits
    <3>2. U = W
      BY <2>2 DEF U
    <3>. QED
      BY <3>1, <3>2 DEF SameWaits, NothingNew
  <2>. QED
    BY <2>1, <2>2
<1>15. IsPrios(U) /\ Prios' = U
  <2>1. /\ IsPrios(U)
        /\ U = [pprio |-> U.pprio, pinh |-> U.pinh, plock |-> U.plock, held |-> U.held,
                lprio |-> U.lprio, queue |-> U.queue, has |-> U.has]
    BY <1>14 DEF Fits, IsPrios
  <2>2. /\ U.pprio = pprio /\ U.plock = plock /\ U.held = plocksacquired
        /\ U.queue = Q /\ U.has = lock_acquired
    BY <1>5, <1>14 DEF SameWaits
  <2>. QED
    BY <1>1, <1>6, <2>1, <2>2 DEF Prios
<1>. HIDE DEF l, rest, again
<1>16. \A q \in Procs : /\ pstate'[q] = IF q = victim THEN "PRFREE" ELSE pstate[q]
                        /\ releasing'[q] = IF q = victim THEN <<>> ELSE releasing[q]
  BY <1>1, <1>2 DEF TypeOK
<1>17. QueuesRight' /\ LockQueueInOrder'
  <2>1. ASSUME NEW k \in Lock PROVE HoldsIn(Procs, lqueue'[k], WaitersOf(k)')
    <3>1. \A q \in Procs : q \in WaitersOf(k)' <=> q \in WaitersOf(k) /\ q # victim
      BY <1>1, <1>16 DEF WaitersOf, Waiting
    <3>2. WaitersOf(k)' = WaitersOf(k) \ {victim}
      BY <3>1 DEF WaitersOf
    <3>. QED
      BY <1>6, <1>8, <3>2
  <2>2. \A k \in Lock : InLine(lqueue'[k], qkey', qlockwaittime')
    BY <1>1, <1>6, <1>8
  <2>. QED
    BY <2>1, <2>2 DEF QueuesRight, LockQueueInOrder, InLine
<1>18. LprioIsHighestWaiter'
  <2>1. ASSUME NEW k \in Lock, lstate'[k] = "LUSED"
        PROVE  lprio'[k] = WaitingPrio(Prios', lqueue'[k])
    <3>1. k \in Used \cap Lock
      BY <1>1, <2>1 DEF Used
    <3>2. U.lprio[k] = WaitingPrio(U, U.queue[k])
      BY <1>14, <3>1, FitsLprio
    <3>. QED
      BY <1>5, <1>6, <1>14, <1>15, <3>2 DEF SameWaits
  <2>. QED
    BY <2>1 DEF LprioIsHighestWaiter
<1>19. PriorityGivenBack'
  <2>1. ASSUME NEW q \in Procs, Live(q)', releasing'[q] = <<>>,
               \A k \in Lock : plocksacquired'[q][k] = "no"
        PROVE  pinh'[q] = 0
    <3>1. q # victim
      BY <1>16, <2>1 DEF Live
    <3>2. pinh[q] = 0
      BY <1>1, <1>16, <2>1, <3>1 DEF LocksInv, PriorityGivenBack, Live
    <3>3. HoldsNone(W, q) /\ W.pinh[q] = 0
      BY <1>1, <1>5, <2>1, <3>2 DEF HoldsNone
    <3>. QED
      BY <1>6, <1>14, <3>3 DEF NothingNew
  <2>. QED
    BY <2>1 DEF PriorityGivenBack
<1>20. DeletingForEver'
  <2>1. ASSUME NEW k \in Lock, lstate'[k] = "LFREE", lqueue'[k] # <<>> PROVE FALSE
    <3>1. Q[k] # <<>> /\ Q[k] \in Seq(Procs) /\ HoldsIn(Procs, Q[k], WaitersOf(k) \ {victim})
      BY <1>6, <1>8, <2>1
    <3>2. Q[k][1] \in Procs /\ Contains(Q[k], Q[k][1])
      BY <3>1 DEF Contains
    <3>3. Contains(lqueue[k], Q[k][1])
      BY <3>1, <3>2 DEF HoldsIn, LocksInv, QueuesRight
    <3>4. lqueue[k] # <<>>
      BY <3>3 DEF Contains
    <3>. QED
      BY <1>1, <2>1, <3>4 DEF LocksInv, DeletingForEver, Idle
  <2>. QED
    BY <2>1 DEF DeletingForEver
<1>21. WaitersReal' /\ TimesPast' /\ FreeUnheld' /\ EndsAhead' /\ HoldersAgree'
  <2>1. WaitersReal'
    BY <1>1, <1>16 DEF LocksInv, WaitersReal, Waiting
  <2>2. EndsAhead'
    BY <1>16 DEF LocksInv, EndsAhead
  <2>3. TimesPast' /\ FreeUnheld' /\ HoldersAgree'
    BY <1>1 DEF LocksInv, TimesPast, FreeUnheld, HoldersAgree
  <2>. QED
    BY <2>1, <2>2, <2>3
<1>22. TypeOK'
  <2>1. calls' \in 0..MaxCalls
    BY <1>1, <1>2, BoundsAssumption DEF TypeOK
  <2>2. pstate' \in [Procs -> {"RUNNABLE", "PRWAIT", "PRFREE"}]
    BY <1>1, <1>2, SMTT(30), ZenonT(30) DEF TypeOK
  <2>3. releasing' \in [Procs -> Seq(Lock \cup {End})]
    BY <1>1, <1>2 DEF TypeOK
  <2>4. pinh' \in [Procs -> Nat] /\ lprio' \in [Lock -> Nat]
    BY <1>6, <1>15 DEF IsPrios
  <2>5. lqueue' \in [Lock -> Seq(Procs)]
    BY <1>6, <1>9
  <2>. QED
    BY <1>1, <1>2, <1>7, <2>1, <2>2, <2>3, <2>4, <2>5 DEF TypeOK
<1>. QED
  BY <1>17, <1>18, <1>19, <1>20, <1>21, <1>22 DEF LocksInv

-------------------------------------------------------------------------------
(***************************************************************************)
(* priority_inherit() ends.                                                *)
(***************************************************************************)
\* Each process waits for a lock above those it holds.
WaitsAscend(T) ==
  \A p \in Procs, l \in Lock : T.has[l][p] /\ T.plock[p] # NoLock => l < T.plock[p]

\* Those in s wait for one of the last n locks, if any.
Above(T, s, n) == \A p \in s : T.plock[p] # NoLock => T.plock[p] >= NLOCKS - n

\* The innermost loop of R has s to come to, and rest are the others.
Innermost(R, s, rest) == R.loops # <<>> /\ Head(R.loops) = s /\ Tail(R.loops) = rest

\* f is what the rounds make of T, as far as they go on along the waits.
Runs(f, T) ==
  /\ \A i \in 0..Rounds : /\ f[i] = [T |-> f[i].T, loops |-> f[i].loops]
                          /\ f[i].loops \in Seq(SUBSET Procs)
                          /\ f[i].T.plock = T.plock /\ f[i].T.has = T.has
  /\ \A i \in 1..Rounds : f[i] = InheritRound(f[i - 1])

\* A loop over c processes that wait for one of the last n locks has ended after
\* c times w rounds and one.
EndsIn(f, T, n, w) ==
  \A c \in Nat, s \in SUBSET Procs, i \in 0..Rounds : \A rest :
    /\ Cardinality(s) = c /\ Above(T, s, n)
    /\ Innermost(f[i], s, rest)
    /\ i + c * w + 1 <= Rounds
    => \E j \in i + 1..i + c * w + 1 : f[j].loops = rest

\* What a visit to one of them goes on to has ended after w rounds less one.
VisitsEndIn(f, T, n, w) ==
  \A p \in Procs, i \in 0..Rounds : \A rest :
    /\ Above(T, {p}, n) /\ Innermost(f[i], Beyond(T, p), rest) /\ i + w - 1 <= Rounds
    => \E j \in i + 1..i + w - 1 : f[j].loops = rest

\* The recursion goes up.
LEMMA BeyondIsAbove ==
  ASSUME NEW T, T.plock \in [Procs -> Lock \cup {NoLock}], WaitsAscend(T), NEW p \in Procs
  PROVE  /\ Beyond(T, p) \in SUBSET Procs
         /\ Above(T, {p}, 0) => Beyond(T, p) = {}
         /\ \A n \in Nat \ {0} : Above(T, {p}, n) => Above(T, Beyond(T, p), n - 1)
<1>0. NLOCKS \in Nat /\ Lock = 0..NLOCKS - 1 /\ NoLock = -1
  BY NLOCKSAssumption DEF Lock, NoLock
<1>1. T.plock[p] \in Lock \cup {NoLock}
  OBVIOUS
<1>2. Above(T, {p}, 0) => T.plock[p] = NoLock
  BY <1>0, <1>1 DEF Above
<1>3. ASSUME NEW n \in Nat \ {0}, Above(T, {p}, n), NEW h \in Beyond(T, p), T.plock[h] # NoLock
      PROVE  T.plock[h] >= NLOCKS - (n - 1)
  <2>1. h \in Procs /\ T.plock[p] # NoLock /\ T.has[T.plock[p]][h]
    BY DEF Beyond
  <2>2. T.plock[p] < T.plock[h] /\ T.plock[h] \in Lock
    BY <1>1, <1>3, <2>1 DEF WaitsAscend
  <2>3. T.plock[p] >= NLOCKS - n
    BY <1>3, <2>1 DEF Above
  <2>. QED
    BY <1>0, <1>1, <2>1, <2>2, <2>3
<1>. QED
  BY <1>2, <1>3 DEF Beyond, Above

\* A round ends the innermost loop, or visits the first process it has to come to.
LEMMA RoundLoops ==
  ASSUME NEW R, R = [T |-> R.T, loops |-> R.loops], R.loops \in Seq(SUBSET Procs),
         NEW s, NEW rest, Innermost(R, s, rest), NEW N, N = InheritRound(R)
  PROVE  /\ s = {} => N.loops = rest
         /\ s # {} => \E p \in s : \E others :
              /\ Innermost(N, Beyond(R.T, p), others)
              /\ others # <<>> /\ Head(others) = s \ {p} /\ Tail(others) = rest
<1>1. R.loops # <<>> /\ s = Head(R.loops) /\ rest = Tail(R.loops) /\ s \in SUBSET Procs
      /\ rest \in Seq(SUBSET Procs)
  BY DEF Innermost
<1>2. CASE s = {}
  <2>1. N = [R EXCEPT !.loops = Tail(R.loops)]
    BY <1>1, <1>2 DEF InheritRound
  <2>2. N.loops = Tail(R.loops)
    BY <2>1
  <2>. QED
    BY <1>1, <1>2, <2>2
<1>3. CASE s # {}
  <2>. DEFINE p == Min(s)
  <2>1. p \in s
    <3>1. s \in SUBSET Nat
      BY <1>1, ProcsAssumption
    <3>. QED
      BY <1>3, <3>1, MinIsLeast
  <2>. DEFINE B == Beyond(R.T, p)
              left == s \ {p}
              loops == <<B, left>> \o rest
  <2>2. N.loops = loops
    <3>1. N = [T |-> Visited(R.T, p), loops |-> loops]
      BY <1>1, <1>3 DEF InheritRound
    <3>. QED
      BY <3>1
  <2>3. B \in SUBSET Procs /\ left \in SUBSET Procs
    BY <1>1 DEF Beyond
  <2>. HIDE DEF p, B, left
  <2>4. /\ loops \in Seq(SUBSET Procs) /\ loops # <<>> /\ Head(loops) = B
        /\ Tail(loops) = <<left>> \o rest
    <3>1. <<B, left>> \in Seq(SUBSET Procs) /\ Len(<<B, left>>) = 2
      BY <2>3
    <3>2. loops \in Seq(SUBSET Procs) /\ Len(loops) = 2 + Len(rest) /\ loops[1] = B
          /\ loops[2] = left /\ \A i \in 1..Len(rest) : loops[i + 2] = rest[i]
      BY <1>1, <3>1
    <3>3. LET t == <<left>> \o rest
          IN  /\ t \in Seq(SUBSET Procs) /\ Len(t) = 1 + Len(rest) /\ t[1] = left
              /\ \A i \in 1..Len(rest) : t[i + 1] = rest[i]
      BY <1>1, <2>3
    <3>. HIDE DEF loops
    <3>4. loops # <<>> /\ Head(loops) = B /\ Len(rest) \in Nat
      BY <1>1, <3>2
    <3>5. /\ Tail(loops) \in Seq(SUBSET Procs) /\ Len(Tail(loops)) = 1 + Len(rest)
          /\ \A i \in 1..1 + Len(rest) : Tail(loops)[i] = loops[i + 1]
      BY <1>1, <3>2, <3>4
    <3>6. PICK t : t = <<left>> \o rest
      OBVIOUS
    <3>7. ASSUME NEW i \in 1..1 + Len(rest) PROVE Tail(loops)[i] = t[i]
      <4>1. CASE i = 1
        BY <3>2, <3>3, <3>4, <3>5, <3>6, <4>1
      <4>2. CASE i # 1
        <5>1. i - 1 \in 1..Len(rest) /\ i + 1 = (i - 1) + 2 /\ i = (i - 1) + 1
          BY <3>4, <4>2
        <5>2. loops[i + 1] = rest[i - 1]
          BY <3>2, <5>1
        <5>3. t[i] = rest[i - 1]
          BY <3>3, <3>6, <5>1
        <5>. QED
          BY <3>5, <5>2, <5>3
      <4>. QED
        BY <4>1, <4>2
    <3>8. Tail(loops) = t
      BY <3>3, <3>5, <3>6, <3>7, SeqEqual
    <3>. QED
      BY <3>2, <3>4, <3>6, <3>8
  <2>5. LET t == <<left>> \o rest IN t # <<>> /\ Head(t) = left /\ Tail(t) = rest
    BY <1>1, <2>3
  <2>6. Innermost(N, B, <<left>> \o rest)
    BY <2>2, <2>4 DEF Innermost
  <2>. QED
    BY <1>3, <2>1, <2>5, <2>6 DEF B, left
<1>. QED
  BY <1>2, <1>3

\* What a turn of the innermost loop leads to.
Turned(f, T, i, s, rest) ==
  /\ s = {} => f[i + 1].loops = rest
  /\ s # {} => \E p \in s : \E others :
       /\ Innermost(f[i + 1], Beyond(T, p), others)
       /\ others # <<>> /\ Head(others) = s \ {p} /\ Tail(others) = rest

LEMMA LoopTurns ==
  ASSUME NEW f, NEW T, Runs(f, T), NEW i \in 0..Rounds, i + 1 <= Rounds,
         NEW s, NEW rest, Innermost(f[i], s, rest)
  PROVE  Turned(f, T, i, s, rest)
<1>1. i + 1 \in 1..Rounds /\ (i + 1) - 1 = i
  BY RoundsType
<1>2. f[i + 1] = InheritRound(f[i])
  BY <1>1 DEF Runs
<1>3. /\ f[i] = [T |-> f[i].T, loops |-> f[i].loops] /\ f[i].loops \in Seq(SUBSET Procs)
      /\ f[i].T.plock = T.plock /\ f[i].T.has = T.has
  BY DEF Runs
<1>4. \A p : Beyond(f[i].T, p) = Beyond(T, p)
  BY <1>3 DEF Beyond
<1>5. /\ s = {} => f[i + 1].loops = rest
      /\ s # {} => \E p \in s : \E others :
           /\ Innermost(f[i + 1], Beyond(f[i].T, p), others)
           /\ others # <<>> /\ Head(others) = s \ {p} /\ Tail(others) = rest
  BY <1>2, <1>3, RoundLoops
<1>. QED
  BY <1>4, <1>5 DEF Turned

\* If a visit takes w rounds, with those it goes on to, so does each turn of a loop.
LEMMA LoopEnds ==
  ASSUME NEW f, NEW T, Runs(f, T), NEW n, NEW w \in Nat, w >= 2, VisitsEndIn(f, T, n, w)
  PROVE  EndsIn(f, T, n, w)
<1>0. Rounds \in Nat
  BY RoundsType
<1>. DEFINE P(c) == \A s \in SUBSET Procs, i \in 0..Rounds : \A rest :
                      /\ Cardinality(s) = c /\ Above(T, s, n)
                      /\ Innermost(f[i], s, rest)
                      /\ i + c * w + 1 <= Rounds
                      => \E j \in i + 1..i + c * w + 1 : f[j].loops = rest
<1>1. P(0)
  <2>. SUFFICES ASSUME NEW s \in SUBSET Procs, NEW i \in 0..Rounds, NEW rest,
                       Cardinality(s) = 0, Above(T, s, n), Innermost(f[i], s, rest),
                       i + 0 * w + 1 <= Rounds
                PROVE  \E j \in i + 1..i + 0 * w + 1 : f[j].loops = rest
    OBVIOUS
  <2>1. s = {}
    BY ProcsAssumption, FS_Subset, FS_EmptySet
  <2>2. 0 * w = 0
    OBVIOUS
  <2>3. i + 0 * w + 1 = i + 1 /\ i + 1 <= Rounds /\ i + 1 \in i + 1..i + 1
    BY <1>0, <2>2
  <2>4. Turned(f, T, i, s, rest)
    BY <2>3, LoopTurns
  <2>5. f[i + 1].loops = rest
    BY <2>1, <2>4 DEF Turned
  <2>. QED
    BY <2>3, <2>5
<1>2. ASSUME NEW c \in Nat, c # 0, P(c - 1) PROVE P(c)
  <2>. SUFFICES ASSUME NEW s \in SUBSET Procs, NEW i \in 0..Rounds, NEW rest,
                       Cardinality(s) = c, Above(T, s, n), Innermost(f[i], s, rest),
                       i + c * w + 1 <= Rounds
                PROVE  \E j \in i + 1..i + c * w + 1 : f[j].loops = rest
    OBVIOUS
  <2>. DEFINE d == (c - 1) * w
  <2>1. d \in Nat /\ c * w = d + w
    <3>1. c - 1 \in Nat
      BY <1>2
    <3>2. \A x, y \in Nat : x * y \in Nat /\ (x + 1) * y = x * y + y
      OBVIOUS
    <3>3. c = (c - 1) + 1
      OBVIOUS
    <3>. QED
      BY <3>1, <3>2, <3>3
  <2>2. i \in Nat /\ i + d + w + 1 <= Rounds
    BY <1>0, <2>1
  <2>. HIDE DEF d
  <2>3. s # {} /\ IsFiniteSet(s)
    BY <1>2, ProcsAssumption, FS_Subset, FS_EmptySet
  <2>4a. PICK p \in s : \E others :
           /\ Innermost(f[i + 1], Beyond(T, p), others)
           /\ others # <<>> /\ Head(others) = s \ {p} /\ Tail(others) = rest
    <3>1. i + 1 <= Rounds
      BY <1>0, <2>1, <2>2
    <3>2. Turned(f, T, i, s, rest)
      BY <3>1, LoopTurns
    <3>. QED
      BY <2>3, <3>2 DEF Turned
  <2>4. PICK others :
          /\ Innermost(f[i + 1], Beyond(T, p), others)
          /\ others # <<>> /\ Head(others) = s \ {p} /\ Tail(others) = rest
    BY <2>4a
  <2>5. PICK j \in i + 2..i + w : f[j].loops = others
    <3>1. i + 1 \in 0..Rounds /\ i + 1 + w - 1 <= Rounds
      BY <1>0, <2>1, <2>2
    <3>2. Above(T, {p}, n) /\ p \in Procs
      BY DEF Above
    <3>3. \E j \in i + 1 + 1..i + 1 + w - 1 : f[j].loops = others
      BY <2>4, <3>1, <3>2 DEF VisitsEndIn
    <3>4. i + 1 + 1 = i + 2 /\ i + 1 + w - 1 = i + w
      BY <2>2
    <3>. QED
      BY <3>3, <3>4
  <2>6. /\ Innermost(f[j], s \ {p}, rest) /\ j \in 0..Rounds /\ j \in Nat
        /\ j + d + 1 <= Rounds /\ j >= i + 2 /\ j <= i + w
    BY <1>0, <2>1, <2>2, <2>4, <2>5 DEF Innermost
  <2>7. Cardinality(s \ {p}) = c - 1 /\ Above(T, s \ {p}, n)
    BY <2>3, FS_RemoveElement DEF Above
  <2>8. PICK k \in j + 1..j + d + 1 : f[k].loops = rest
    <3>1. s \ {p} \in SUBSET Procs
      OBVIOUS
    <3>2. \E k \in j + 1..j + (c - 1) * w + 1 : f[k].loops = rest
      BY <1>2, <2>6, <2>7, <3>1 DEF d
    <3>. QED
      BY <3>2 DEF d
  <2>9. k \in i + 1..i + c * w + 1
    BY <2>1, <2>2, <2>6, <2>8
  <2>. QED
    BY <2>8, <2>9
<1>. HIDE DEF P
<1>3. ASSUME NEW c \in Nat PROVE P(c)
  <2>1. PICK S : S = {m \in 0..c : P(m)}
    OBVIOUS
  <2>2. 0 \in S
    BY <1>1, <2>1
  <2>3. ASSUME NEW m \in 1..c, m - 1 \in S PROVE m \in S
    <3>1. m \in Nat /\ m # 0 /\ m \in 0..c
      OBVIOUS
    <3>. QED
      BY <1>2, <2>1, <2>3, <3>1
  <2>4. c \in S
    BY <2>2, <2>3, UpToTheLast
  <2>. QED
    BY <2>1, <2>4
<1>. QED
  BY <1>3 DEF P, EndsIn

\* So every loop of the recursion ends, whatever it begins with.
LEMMA LevelsEnd ==
  ASSUME NEW f, NEW T, Runs(f, T), T.plock \in [Procs -> Lock \cup {NoLock}], WaitsAscend(T),
         NEW most, MostIs(most), NEW n \in 0..NLOCKS
  PROVE  EndsIn(f, T, n, most[n])
<1>0. NLOCKS \in Nat /\ Rounds \in Nat /\ n \in Nat
  BY NLOCKSAssumption, RoundsType
<1>1. PICK S : S = {m \in 0..NLOCKS : EndsIn(f, T, m, most[m])}
  OBVIOUS
<1>2. 0 \in S
  <2>1. ASSUME NEW p \in Procs, NEW i \in 0..Rounds, NEW rest, Above(T, {p}, 0),
               Innermost(f[i], Beyond(T, p), rest), i + 2 - 1 <= Rounds
        PROVE  \E j \in i + 1..i + 2 - 1 : f[j].loops = rest
    <3>1. Innermost(f[i], {}, rest)
      BY <2>1, BeyondIsAbove
    <3>2. i + 1 \in 1..Rounds /\ (i + 1) - 1 = i /\ i + 1 \in i + 1..i + 2 - 1
      BY <1>0, <2>1
    <3>3. Turned(f, T, i, {}, rest)
      BY <3>1, <3>2, LoopTurns
    <3>. QED
      BY <3>2, <3>3 DEF Turned
  <2>2. EndsIn(f, T, 0, 2)
    <3>1. VisitsEndIn(f, T, 0, 2)
      BY <2>1 DEF VisitsEndIn
    <3>2. 2 \in Nat /\ 2 >= 2
      OBVIOUS
    <3>. QED
      BY <3>1, <3>2, LoopEnds
  <2>. QED
    BY <1>0, <1>1, <2>2 DEF MostIs
<1>3. ASSUME NEW m \in 1..NLOCKS, m - 1 \in S PROVE m \in S
  <2>. DEFINE v == most[m - 1]
              w == most[m]
              all == Cardinality(Procs)
  <2>1. m \in 0..NLOCKS /\ m - 1 \in 0..NLOCKS /\ m \in Nat \ {0}
    BY <1>0
  <2>2. EndsIn(f, T, m - 1, v) /\ v \in Nat /\ w \in Nat /\ w >= 2 /\ all \in Nat
        /\ w = 2 + all * v
    BY <1>1, <1>3, <2>1, ProcsAssumption, FS_CardinalityType DEF MostIs
  <2>. HIDE DEF v, w, all
  <2>3. ASSUME NEW p \in Procs, NEW i \in 0..Rounds, NEW rest, Above(T, {p}, m),
               Innermost(f[i], Beyond(T, p), rest), i + w - 1 <= Rounds
        PROVE  \E j \in i + 1..i + w - 1 : f[j].loops = rest
    <3>. DEFINE s == Beyond(T, p)
                c == Cardinality(s)
    <3>1. s \in SUBSET Procs /\ Above(T, s, m - 1)
      BY <2>1, <2>3, BeyondIsAbove
    <3>2. c \in Nat /\ c <= all
      BY <3>1, ProcsAssumption, FS_Subset, FS_CardinalityType DEF all
    <3>3. c * v \in Nat /\ c * v <= all * v
      <4>1. all - c \in Nat
        BY <2>2, <3>2
      <4>2. \A x, y, z \in Nat : x * z \in Nat /\ y * z \in Nat /\ (x + y) * z = x * z + y * z
        OBVIOUS
      <4>3. PICK y \in Nat : y = all - c
        BY <4>1
      <4>4. all = c + y
        BY <2>2, <3>2, <4>3
      <4>. HIDE DEF c
      <4>5. all * v = c * v + y * v /\ c * v \in Nat /\ y * v \in Nat
        BY <2>2, <3>2, <4>2, <4>4
      <4>. QED
        BY <4>5
    <3>. HIDE DEF s, c
    <3>4. i + c * v + 1 <= i + w - 1 /\ i + c * v + 1 <= Rounds
      BY <1>0, <2>2, <2>3, <3>3
    <3>5. \E j \in i + 1..i + c * v + 1 : f[j].loops = rest
      BY <2>2, <2>3, <3>1, <3>2, <3>4 DEF EndsIn, s, c
    <3>6. \A j \in i + 1..i + c * v + 1 : j \in i + 1..i + w - 1
      BY <2>2, <3>3, <3>4
    <3>. QED
      BY <3>5, <3>6
  <2>4. EndsIn(f, T, m, w)
    <3>1. VisitsEndIn(f, T, m, w)
      BY <2>3 DEF VisitsEndIn
    <3>. QED
      BY <2>2, <3>1, LoopEnds
  <2>. QED
    BY <1>1, <2>1, <2>4 DEF w
<1>4. \A m \in 1..n : m - 1 \in S => m \in S
  BY <1>0, <1>3
<1>5. n \in S
  BY <1>0, <1>2, <1>4, UpToTheLast
<1>. QED
  BY <1>1, <1>5

\* So the last round is one with nothing left to do.
LEMMA InheritReturns ==
  ASSUME NEW T, NEW L, Fits(T, L), WaitsAscend(T), NEW q \in Procs
  PROVE  LastRound(T, {q}).loops = <<>>
<1>. DEFINE start == [T |-> T, loops |-> <<{q}>>]
            loop == [kind |-> "inherit"]
<1>0. Rounds \in Nat /\ Rounds >= 1
  BY RoundsType
<1>1. PICK f : \E n \in 1..Rounds : /\ Loop(f, loop, start, Rounds)
                                    /\ LastRound(T, {q}) = f[n]
                                    /\ f[n].loops = <<>> \/ n = Rounds
  BY LastRoundLoop
<1>2. PICK last \in 1..Rounds : /\ Loop(f, loop, start, Rounds)
                                /\ LastRound(T, {q}) = f[last]
                                /\ f[last].loops = <<>> \/ last = Rounds
  BY <1>1
<1>3. ASSUME NEW n \in 1..Rounds PROVE f[n] = InheritRound(f[n - 1])
  BY <1>2 DEF Loop, LoopRound
<1>4. Reached(start, T, L) /\ f[0] = start
  BY <1>2 DEF Reached, SameWaits, NothingNew, Loop
<1>5. ASSUME NEW i \in 0..Rounds PROVE Reached(f[i], T, L)
  <2>1. PICK S : S = {n \in 0..i : Reached(f[n], T, L)}
    OBVIOUS
  <2>2. 0 \in S
    BY <1>4, <2>1
  <2>3. ASSUME NEW n \in 1..i, n - 1 \in S PROVE n \in S
    <3>1. n \in 1..Rounds /\ n \in 0..i
      BY <1>0
    <3>2. Reached(f[n - 1], T, L) /\ f[n] = InheritRound(f[n - 1])
      BY <1>3, <2>1, <2>3, <3>1
    <3>3. Reached(f[n], T, L)
      BY <3>2, InheritRoundKeeps
    <3>. QED
      BY <2>1, <3>1, <3>3
  <2>4. i \in S
    BY <2>2, <2>3, UpToTheLast
  <2>. QED
    BY <2>1, <2>4
<1>6. Runs(f, T)
  BY <1>3, <1>5 DEF Runs, Reached, SameWaits
<1>7. T.plock \in [Procs -> Lock \cup {NoLock}]
  BY DEF Fits, IsPrios
<1>8. PICK most : MostIs(most)
  BY RoundsAreMost
<1>9. EndsIn(f, T, NLOCKS, most[NLOCKS]) /\ most[NLOCKS] \in Nat /\ Rounds = most[NLOCKS] + 1
  <2>1. NLOCKS \in 0..NLOCKS
    BY NLOCKSAssumption
  <2>. QED
    BY <1>6, <1>7, <1>8, <2>1, LevelsEnd DEF MostIs
<1>10. PICK j \in 1..Rounds : f[j].loops = <<>>
  <2>. DEFINE w == most[NLOCKS]
  <2>1. {q} \in SUBSET Procs /\ Cardinality({q}) = 1
    BY FS_Singleton
  <2>2. Above(T, {q}, NLOCKS)
    BY <1>7, NLOCKSAssumption DEF Above, Lock
  <2>3. Innermost(f[0], {q}, <<>>)
    <3>1. f[0].loops = <<{q}>>
      BY <1>4
    <3>. QED
      BY <3>1 DEF Innermost
  <2>. HIDE DEF w
  <2>4. EndsIn(f, T, NLOCKS, w) /\ w \in Nat /\ Rounds = w + 1
    BY <1>9 DEF w
  <2>5. 1 \in Nat /\ 0 \in 0..Rounds /\ 0 + 1 * w + 1 = Rounds /\ 0 + 1 = 1
    BY <1>0, <2>4
  <2>6. \E j \in 0 + 1..0 + 1 * w + 1 : f[j].loops = <<>>
    BY <2>1, <2>2, <2>3, <2>4, <2>5 DEF EndsIn
  <2>. QED
    BY <2>5, <2>6
<1>11. f[Rounds].loops = <<>>
  <2>1. PICK S : S = {n \in 0..Rounds : n >= j => f[n].loops = <<>>}
    OBVIOUS
  <2>2. 0 \in S
    BY <1>0, <2>1
  <2>3. ASSUME NEW n \in 1..Rounds, n - 1 \in S PROVE n \in S
    <3>1. n \in 0..Rounds
      BY <1>0
    <3>2. CASE n = j
      BY <1>10, <2>1, <3>1, <3>2
    <3>3. CASE n < j
      BY <2>1, <3>1, <3>3
    <3>4. CASE n > j
      <4>1. f[n - 1].loops = <<>>
        BY <2>1, <2>3, <3>4
      <4>2. f[n] = f[n - 1]
        BY <1>3, <4>1 DEF InheritRound
      <4>. QED
        BY <2>1, <3>1, <4>1, <4>2
    <3>. QED
      BY <3>2, <3>3, <3>4
  <2>4. Rounds \in S
    BY <1>0, <2>2, <2>3, UpToTheLast
  <2>. QED
    BY <1>0, <2>1, <2>4
<1>. QED
  BY <1>2, <1>11

\* Whoever waits, waits for a lock above all it holds, and whoever runs waits for
\* none: ldelete() wakes a waiter it leaves waiting, and never comes back from it.
Ascending ==
  /\ WaitsAscend(Prios)
  /\ \A p \in Procs : pstate[p] = "RUNNABLE" /\ plock[p] # NoLock =>
       inkernel # Nobody /\ releasing[inkernel] = <<>>

LEMMA InitAscending == Init => Ascending
  BY DEF Init, Ascending, WaitsAscend, Prios

\* Only lock() makes a process wait, and only for a lock above all it holds.
LEMMA LockCallAscends ==
  ASSUME TypeOK, Ascending, NEW l \in Lock, NEW type, NEW priority, NEW p \in Procs,
         LockCall(l, type, priority, p)
  PROVE  Ascending'
<1>0. /\ Idle /\ pstate[p] = "RUNNABLE" /\ InOrder(p, l)
      /\ inkernel' = inkernel /\ releasing' = releasing
  BY DEF LockCall, Calling
<1>1. \A q \in Procs : pstate[q] = "RUNNABLE" => plock[q] = NoLock
  BY <1>0 DEF Ascending, Idle
<1>2. WaitsAscend(Prios)
  BY DEF Ascending
<1>3. CASE LockFirst(l, type, p) \/ LockShared(l, type, priority, p)
  <2>1. /\ pstate' = pstate /\ plock' = plock
        /\ lock_acquired' = [lock_acquired EXCEPT ![l][p] = TRUE]
    BY <1>3 DEF LockFirst, LockShared, Acquire
  <2>2. \A k \in Lock, q \in Procs : lock_acquired'[k][q] => lock_acquired[k][q] \/ q = p
    BY <2>1 DEF TypeOK
  <2>3. WaitsAscend(Prios')
    BY <1>0, <1>1, <1>2, <2>1, <2>2 DEF WaitsAscend, Prios
  <2>. QED
    BY <1>0, <1>1, <2>1, <2>3 DEF Ascending
<1>4. CASE LockWait(l, type, priority, p)
  <2>1. /\ pstate' = [pstate EXCEPT ![p] = "PRWAIT"] /\ plock' = [plock EXCEPT ![p] = l]
        /\ lock_acquired' = lock_acquired
    BY <1>4 DEF LockWait
  <2>2. \A q \in Procs : /\ plock'[q] = IF q = p THEN l ELSE plock[q]
                         /\ pstate'[q] = IF q = p THEN "PRWAIT" ELSE pstate[q]
    BY <2>1 DEF TypeOK
  <2>3. WaitsAscend(Prios')
    BY <1>0, <1>2, <2>1, <2>2 DEF WaitsAscend, Prios, InOrder
  <2>. QED
    BY <1>0, <1>1, <2>2, <2>3 DEF Ascending
<1>. QED
  BY <1>3, <1>4 DEF LockCall

\* A lock is handed to processes that wait no longer.
LEMMA ReleaseLockAscends ==
  ASSUME TypeOK, Ascending, NEW p \in Procs, ReleaseLock(p)
  PROVE  Ascending'
<1>0. inkernel \in {Nobody, p} /\ releasing[p] # <<>>
  BY DEF ReleaseLock, Releasing
<1>1. \A q \in Procs : pstate[q] = "RUNNABLE" => plock[q] = NoLock
  BY <1>0 DEF Ascending
<1>2. WaitsAscend(Prios)
  BY DEF Ascending
<1>. DEFINE l == Head(releasing[p])
<1>3. CASE UNCHANGED <<lock_acquired, pstate, plock>>
  <2>1. WaitsAscend(Prios')
    BY <1>2, <1>3 DEF WaitsAscend, Prios
  <2>. QED
    BY <1>1, <1>3, <2>1 DEF Ascending
<1>4. ASSUME NEW to, NEW readers, NEW freed, GiveBack(l, p, to, readers, freed) PROVE Ascending'
  <2>. HIDE DEF l
  <2>1. /\ lock_acquired' = [lock_acquired EXCEPT ![l] =
                               [q \in Procs |-> q \in to \/ (@[q] /\ q # p)]]
        /\ pstate' = [q \in Procs |-> IF q \in to THEN "RUNNABLE" ELSE pstate[q]]
        /\ plock' = [q \in Procs |-> IF q \in to THEN NoLock ELSE plock[q]]
    BY <1>4 DEF GiveBack, Woken
  <2>2. \A k \in Lock, q \in Procs : lock_acquired'[k][q] => lock_acquired[k][q] \/ q \in to
    BY <2>1 DEF TypeOK
  <2>3. \A q \in Procs : plock'[q] # NoLock => q \notin to /\ plock'[q] = plock[q]
    BY <2>1
  <2>4. WaitsAscend(Prios')
    BY <1>2, <2>2, <2>3 DEF WaitsAscend, Prios
  <2>5. \A q \in Procs : pstate'[q] = "RUNNABLE" => plock'[q] = NoLock
    BY <1>1, <2>1
  <2>. QED
    BY <2>4, <2>5 DEF Ascending
<1>. QED
  BY <1>3, <1>4 DEF ReleaseLock

\* ldelete() takes a lock from all that hold it, and stays with the first waiter.
LEMMA LdeleteAscends ==
  ASSUME TypeOK, Ascending, NEW p \in Procs, NEW l \in Lock, Ldelete(p, l)
  PROVE  Ascending'
<1>0. /\ Idle /\ releasing[p] = <<>> /\ plock' = plock /\ releasing' = releasing
      /\ lock_acquired' = [lock_acquired EXCEPT ![l] = [q \in Procs |-> FALSE]]
  BY DEF Ldelete, Calling
<1>1. \A q \in Procs : pstate[q] = "RUNNABLE" => plock[q] = NoLock
  BY <1>0 DEF Ascending, Idle
<1>2. WaitsAscend(Prios')
  <2>1. \A k \in Lock, q \in Procs : lock_acquired'[k][q] => lock_acquired[k][q]
    BY <1>0 DEF TypeOK
  <2>. QED
    BY <1>0, <2>1 DEF Ascending, WaitsAscend, Prios
<1>3. CASE lqueue[l] = <<>>
  <2>1. pstate' = pstate
    BY <1>3 DEF Ldelete
  <2>. QED
    BY <1>0, <1>1, <1>2, <2>1 DEF Ascending
<1>4. CASE lqueue[l] # <<>>
  <2>1. inkernel' = p
    BY <1>4 DEF Ldelete
  <2>2. p # Nobody
    BY ProcsAssumption DEF Nobody
  <2>. QED
    BY <1>0, <1>2, <2>1, <2>2 DEF Ascending
<1>. QED
  BY <1>3, <1>4

\* No other step makes anybody wait, wakes anybody or hands a lock out.
LEMMA NothingHandedAscends ==
  ASSUME TypeOK, Ascending, plock' = plock,
         \A q \in Procs : pstate'[q] = "RUNNABLE" => pstate[q] = "RUNNABLE",
         \A k \in Lock, q \in Procs : lock_acquired'[k][q] => lock_acquired[k][q],
         \/ \A q \in Procs : pstate[q] = "RUNNABLE" => plock[q] = NoLock
         \/ inkernel' = inkernel /\ releasing' = releasing
  PROVE  Ascending'
<1>1. WaitsAscend(Prios')
  BY DEF Ascending, WaitsAscend, Prios
<1>. QED
  BY <1>1 DEF Ascending

LEMMA NextAscending ==
  ASSUME TypeOK, Ascending, [Next]_vars
  PROVE  Ascending'
<1>. USE DEF procVars, lockVars, queueVars
<1>1. CASE Idle
  <2>. \A q \in Procs : pstate[q] = "RUNNABLE" => plock[q] = NoLock
    BY <1>1 DEF Ascending, Idle
  <2>1. ASSUME NEW p \in Procs, Lcreate(p) PROVE Ascending'
    <3>1. PICK l \in Lock : lock_acquired' = [lock_acquired EXCEPT ![l] = [r \in Procs |-> FALSE]]
      BY <2>1 DEF Lcreate
    <3>2. \A k \in Lock, q \in Procs : lock_acquired'[k][q] => lock_acquired[k][q]
      BY <3>1 DEF TypeOK
    <3>3. plock' = plock /\ pstate' = pstate
      BY <2>1 DEF Lcreate
    <3>. QED
      BY <3>2, <3>3, NothingHandedAscends
  <2>2. ASSUME NEW p \in Procs, Releaseall(p) PROVE Ascending'
    <3>1. plock' = plock /\ pstate' = pstate /\ lock_acquired' = lock_acquired
      BY <2>2 DEF Releaseall
    <3>. QED
      BY <3>1, NothingHandedAscends
  <2>3. ASSUME NEW p \in Procs, NEW q \in Procs, NEW newprio, Chprio(p, q, newprio)
        PROVE  Ascending'
    <3>1. plock' = plock /\ pstate' = pstate /\ lock_acquired' = lock_acquired
      BY <2>3 DEF Chprio
    <3>. QED
      BY <3>1, NothingHandedAscends
  <2>4. ASSUME NEW p \in Procs, NEW victim \in Procs, Kill(p, victim) PROVE Ascending'
    <3>1. /\ plock' = plock /\ pstate' = [pstate EXCEPT ![victim] = "PRFREE"]
          /\ lock_acquired' = lock_acquired
      BY <2>4 DEF Kill
    <3>2. \A q \in Procs : pstate'[q] = "RUNNABLE" => pstate[q] = "RUNNABLE"
      BY <3>1 DEF TypeOK
    <3>. QED
      BY <3>1, <3>2, NothingHandedAscends
  <2>5. CASE Elapse \/ UNCHANGED vars
    <3>1. plock' = plock /\ pstate' = pstate /\ lock_acquired' = lock_acquired
      BY <2>5 DEF Elapse, vars
    <3>. QED
      BY <3>1, NothingHandedAscends
  <2>6. ASSUME NEW p \in Procs, NEW l \in Lock, Ldelete(p, l) PROVE Ascending'
    BY <2>6, LdeleteAscends
  <2>7. ASSUME NEW p \in Procs, NEW l \in Lock, NEW type, NEW priority,
               LockCall(l, type, priority, p)
        PROVE  Ascending'
    BY <2>7, LockCallAscends
  <2>8. ASSUME NEW p \in Procs, ReleaseLock(p) PROVE Ascending'
    BY <2>8, ReleaseLockAscends
  <2>9. ASSUME NEW p \in Procs, ReleaseallEnd(p) \/ ReleaseallNothing(p) PROVE Ascending'
    <3>1. plock' = plock /\ pstate' = pstate /\ lock_acquired' = lock_acquired
      BY <2>9 DEF ReleaseallEnd, ReleaseallNothing, InheritAndReturn
    <3>. QED
      BY <3>1, NothingHandedAscends
  <2>10. ASSUME NEW p \in Procs, LdeleteLoop(p) PROVE Ascending'
    <3>1. UNCHANGED vars
      BY <2>10 DEF LdeleteLoop
    <3>. QED
      BY <2>5, <3>1
  <2>. QED
    BY <2>1, <2>2, <2>3, <2>4, <2>5, <2>6, <2>7, <2>8, <2>9, <2>10 DEF Next, Continue
<1>2. CASE ~Idle
  <2>1. Continue \/ UNCHANGED vars
    <3>1. \A p \in Procs : ~Lcreate(p) /\ ~Releaseall(p) /\ ~ReleaseallNothing(p)
      BY <1>2 DEF Lcreate, Releaseall, ReleaseallNothing, Calling
    <3>2. \A p, l, type, priority : ~Ldelete(p, l) /\ ~LockCall(l, type, priority, p)
      BY <1>2 DEF Ldelete, LockCall, Calling
    <3>3. \A p, q, newprio : ~Kill(p, q) /\ ~Chprio(p, q, newprio)
      BY <1>2 DEF Kill, Chprio, Calling
    <3>4. ~Elapse
      BY <1>2 DEF Elapse
    <3>. QED
      BY <3>1, <3>2, <3>3, <3>4 DEF Next
  <2>2. ASSUME NEW p \in Procs, ReleaseLock(p) PROVE Ascending'
    BY <2>2, ReleaseLockAscends
  <2>3. ASSUME NEW p \in Procs, ReleaseallEnd(p) PROVE Ascending'
    <3>1. plock' = plock /\ pstate' = pstate /\ lock_acquired' = lock_acquired
      BY <2>3 DEF ReleaseallEnd, InheritAndReturn
    <3>2. \A q \in Procs : pstate[q] = "RUNNABLE" => plock[q] = NoLock
      BY <2>3 DEF ReleaseallEnd, Releasing, Ascending
    <3>. QED
      BY <3>1, <3>2, NothingHandedAscends
  <2>4. CASE UNCHANGED vars
    <3>1. /\ plock' = plock /\ pstate' = pstate /\ lock_acquired' = lock_acquired
          /\ inkernel' = inkernel /\ releasing' = releasing
      BY <2>4 DEF vars
    <3>. QED
      BY <3>1, NothingHandedAscends
  <2>. QED
    BY <2>1, <2>2, <2>3, <2>4 DEF Continue, LdeleteLoop
<1>. QED
  BY <1>1, <1>2

-------------------------------------------------------------------------------
(***************************************************************************)
(* The theorems.                                                           *)
(***************************************************************************)
\* Every step keeps the invariant.
LEMMA NextLocksInv ==
  ASSUME LocksInv, Next
  PROVE  LocksInv'
<1>1. CASE Continue
  <2>1. PICK p \in Procs : ReleaseLock(p) \/ ReleaseallEnd(p) \/ LdeleteLoop(p)
    BY <1>1 DEF Continue
  <2>2. ReleaseallEnd(p) => InheritAndReturn(p) /\ Releasing(p)
    BY DEF ReleaseallEnd
  <2>. QED
    BY <2>1, <2>2, ReleaseLockKeeps, InheritAndReturnKeeps, StutterKeeps DEF LdeleteLoop
<1>2. CASE Elapse
  BY <1>2, ElapseKeeps
<1>3. ASSUME NEW p \in Procs, Lcreate(p) \/ Releaseall(p) PROVE LocksInv'
  BY <1>3, LcreateKeeps, ReleaseallKeeps
<1>8. ASSUME NEW p \in Procs, ReleaseallNothing(p) PROVE LocksInv'
  <2>1. InheritAndReturn(p) /\ Idle
    BY <1>8 DEF ReleaseallNothing, Calling
  <2>. QED
    BY <2>1, InheritAndReturnKeeps
<1>4. ASSUME NEW p \in Procs, NEW l \in Lock, Ldelete(p, l) PROVE LocksInv'
  BY <1>4, LdeleteKeeps
<1>5. ASSUME NEW p \in Procs, NEW l \in Lock, NEW type \in {"READ", "WRITE"},
             NEW priority \in LockPrios, LockCall(l, type, priority, p)
      PROVE  LocksInv'
  <2>1. LockFirst(l, type, p) \/ LockShared(l, type, priority, p) \/ LockWait(l, type, priority, p)
    BY <1>5 DEF LockCall
  <2>. QED
    BY <1>5, <2>1, LockAtOnceKeeps, LockWaitKeeps
<1>6. ASSUME NEW p \in Procs, NEW q \in Procs, Kill(p, q) PROVE LocksInv'
  BY <1>6, KillKeeps
<1>7. ASSUME NEW p \in Procs, NEW q \in Procs, NEW newprio \in NewPrios, Chprio(p, q, newprio)
      PROVE  LocksInv'
  BY <1>7, ChprioKeeps
<1>. QED
  BY <1>1, <1>2, <1>3, <1>4, <1>5, <1>6, <1>7, <1>8 DEF Next

\* The books of the locks are kept: the invariant all that follows rests on.
THEOREM LocksInductive == Spec => []LocksInv
<1>1. LocksInv /\ [Next]_vars => LocksInv'
  BY NextLocksInv, StutterKeeps
<1>. QED
  BY <1>1, InitLocksInv, PTL DEF Spec

\* Every variable of the lock tables and the queues has its type, for any
\* numbers of processes and locks (lcreate.c, lock.c, releaseall.c, ldelete.c).
THEOREM LocksTyped == Spec => []TypeOK
<1>1. LocksInv => TypeOK
  BY DEF LocksInv
<1>. QED
  BY <1>1, LocksInductive, PTL

\* A process is on the queue of a lock, once, exactly while it waits for that
\* lock, whoever deletes the lock or kills the process meanwhile (lock.c,
\* releaseall.c, ldelete.c, kill.c).
THEOREM WaitersAlwaysAgree == Spec => []WaitersAgree
<1>1. ASSUME LocksInv PROVE WaitersAgree
  <2>. SUFFICES ASSUME NEW p \in Procs, NEW l \in Lock
                PROVE  Cardinality({i \in 1..Len(lqueue[l]) : lqueue[l][i] = p}) =
                         IF Waiting(p) /\ plock[p] = l THEN 1 ELSE 0
    BY DEF WaitersAgree, Waiting
  <2>. DEFINE places == {i \in 1..Len(lqueue[l]) : lqueue[l][i] = p}
  <2>1. HoldsIn(Procs, lqueue[l], WaitersOf(l))
    BY <1>1 DEF LocksInv, QueuesRight
  <2>2. CASE Waiting(p) /\ plock[p] = l
    <3>1. PICK i \in 1..Len(lqueue[l]) : lqueue[l][i] = p
      BY <2>1, <2>2 DEF HoldsIn, Contains, WaitersOf
    <3>2. places = {i}
      BY <2>1, <3>1 DEF HoldsIn
    <3>. HIDE DEF places
    <3>3. Cardinality(places) = 1
      BY <3>2, FS_Singleton
    <3>. QED
      BY <2>2, <3>3 DEF places
  <2>3. CASE ~(Waiting(p) /\ plock[p] = l)
    <3>1. places = {}
      BY <2>1, <2>3 DEF HoldsIn, Contains, WaitersOf
    <3>. HIDE DEF places
    <3>2. Cardinality(places) = 0
      BY <3>1, FS_EmptySet
    <3>. QED
      BY <2>3, <3>2 DEF places
  <2>. QED
    BY <2>2, <2>3
<1>. QED
  BY <1>1, LocksInductive, PTL

\* A lock's priority is that of its most urgent waiter, through any chain of
\* locks and any calls of chprio() and kill() (lock.c:122, releaseall.c:81,
\* chprio.c:35, kill.c:56).
THEOREM LprioAlwaysHighest == Spec => []LprioIsHighestWaiter
<1>1. LocksInv => LprioIsHighestWaiter
  BY DEF LocksInv
<1>. QED
  BY <1>1, LocksInductive, PTL

\* A process that gave all its locks back runs at its own priority, however its
\* releaseall() was cut; an entry DELETED counts as held (releaseall.c:35, :109).
THEOREM PriorityAlwaysGivenBack == Spec => []PriorityGivenBack
<1>1. LocksInv => PriorityGivenBack
  BY DEF LocksInv
<1>. QED
  BY <1>1, LocksInductive, PTL

\* The lock table and the process table agree on who holds what, whatever
\* lock(), releaseall() and ldelete() wrote in either.
THEOREM HoldersAlwaysAgree == Spec => []HoldersAgree
<1>1. LocksInv => HoldersAgree
  BY DEF LocksInv
<1>. QED
  BY <1>1, LocksInductive, PTL

\* Waiters stand in the order of their lock priorities, and of two with the
\* same one the first to come is nearer the tail (lock.c, lqueueinsert()).
THEOREM LockQueueAlwaysInOrder == Spec => []LockQueueInOrder
<1>1. LocksInv => LockQueueInOrder
  BY DEF LocksInv
<1>. QED
  BY <1>1, LocksInductive, PTL

\* Of those on the queue of a lock only releaseall() makes holders.
LEMMA OnlyReleasedIsHanded ==
  ASSUME LocksInv, Next, LocksInv', NEW l \in Lock, NEW q \in Procs,
         q \in WaitersOf(l), q \notin WaitersOf(l)', lock_acquired'[l][q]
  PROVE  \E r \in Procs : ReleaseLock(r)
<1>1. Waiting(q) /\ plock[q] = l /\ ~lock_acquired[l][q] /\ pstate[q] = "PRWAIT"
  BY DEF WaitersOf, Waiting, LocksInv, WaitersReal
<1>2. ~(pstate'[q] = pstate[q] /\ plock'[q] = plock[q])
  BY <1>1 DEF WaitersOf, Waiting
<1>3. ~(lock_acquired' = lock_acquired)
  BY <1>1
<1>4. \A r \in Procs : ~ReleaseallEnd(r) /\ ~ReleaseallNothing(r) /\ ~LdeleteLoop(r)
  BY <1>3 DEF ReleaseallEnd, ReleaseallNothing, InheritAndReturn, LdeleteLoop, vars, lockVars
<1>5. ~Elapse
  BY <1>3 DEF Elapse, lockVars
<1>6. \A r \in Procs : ~Lcreate(r) /\ ~Releaseall(r)
  BY <1>2 DEF Lcreate, Releaseall, procVars
<1>7. \A r \in Procs, v \in Procs : ~Kill(r, v)
  BY <1>3 DEF Kill
<1>8. \A r \in Procs, v \in Procs, n \in NewPrios : ~Chprio(r, v, n)
  BY <1>3 DEF Chprio
<1>9. ASSUME NEW r \in Procs, NEW k \in Lock, Ldelete(r, k) PROVE FALSE
  <2>1. lock_acquired' = [lock_acquired EXCEPT ![k] = [x \in Procs |-> FALSE]]
    BY <1>9 DEF Ldelete
  <2>2. lock_acquired \in [Lock -> [Procs -> BOOLEAN]]
    BY DEF LocksInv, TypeOK
  <2>. QED
    BY <1>1, <2>1, <2>2
<1>10. ASSUME NEW r \in Procs, NEW k \in Lock, NEW type \in {"READ", "WRITE"},
              NEW priority \in LockPrios, LockCall(k, type, priority, r)
       PROVE  FALSE
  <2>1. ~LockFirst(k, type, r) /\ ~LockShared(k, type, priority, r)
    BY <1>2 DEF LockFirst, LockShared
  <2>2. LockWait(k, type, priority, r) /\ pstate[r] = "RUNNABLE"
    BY <1>10, <2>1 DEF LockCall, Calling
  <2>. QED
    BY <1>3, <2>2 DEF LockWait
<1>. QED
  BY <1>4, <1>5, <1>6, <1>7, <1>8, <1>9, <1>10 DEF Next, Continue

\* A lock handed over goes to no waiter while one with a higher lock priority
\* stays in the queue: of the readers it goes to the best and those above the
\* best writer (releaseall.c:46-66).
THEOREM AlwaysHandedToTheMostUrgent == Spec => HandedToTheMostUrgent
<1>. DEFINE Urgent ==
       \A l \in Lock, p, q \in Procs :
         /\ q \in ToSet(lqueue[l]) \ ToSet(lqueue'[l])
         /\ lock_acquired'[l][q]
         /\ p \in ToSet(lqueue'[l])
         => qkey[p] <= qkey[q]
<1>1. ASSUME LocksInv, Next PROVE Urgent
  <2>. SUFFICES ASSUME NEW l \in Lock, NEW p \in Procs, NEW q \in Procs,
                       q \in ToSet(lqueue[l]) \ ToSet(lqueue'[l]),
                       lock_acquired'[l][q], p \in ToSet(lqueue'[l])
                PROVE  qkey[p] <= qkey[q]
    OBVIOUS
  <2>1. LocksInv'
    BY <1>1, NextLocksInv
  <2>2. q \in WaitersOf(l)
    <3>1. lqueue[l] \in Seq(Procs) /\ HoldsIn(Procs, lqueue[l], WaitersOf(l))
      BY <1>1 DEF LocksInv, TypeOK, QueuesRight
    <3>. QED
      BY <3>1 DEF ToSet, HoldsIn, Contains
  <2>3. q \notin WaitersOf(l)' /\ p \in WaitersOf(l)'
    <3>1. lqueue'[l] \in Seq(Procs) /\ HoldsIn(Procs, lqueue'[l], WaitersOf(l)')
      BY <2>1 DEF LocksInv, TypeOK, QueuesRight
    <3>. QED
      BY <3>1 DEF ToSet, HoldsIn, Contains
  <2>4. PICK r \in Procs : ReleaseLock(r)
    BY <1>1, <2>1, <2>2, <2>3, OnlyReleasedIsHanded
  <2>. DEFINE h == Head(releasing[r])
  <2>5. PICK to : /\ to \in {{}, Handed(h)}
                  /\ pstate' = [x \in Procs |-> IF x \in to THEN "RUNNABLE" ELSE pstate[x]]
                  /\ plock' = [x \in Procs |-> IF x \in to THEN NoLock ELSE plock[x]]
    <3>1. CASE lstate[h] = "LUSED" /\ lock_acquired[h][r]
      <4>1. PICK to, readers, freed : to \in {{}, Handed(h)} /\ GiveBack(h, r, to, readers, freed)
        <5>1. \E to \in {{}, Handed(h)} : \E readers, freed : GiveBack(h, r, to, readers, freed)
          BY <2>4, <3>1 DEF ReleaseLock
        <5>. QED
          BY <5>1
      <4>. QED
        BY <4>1 DEF GiveBack, Woken
    <3>2. CASE ~(lstate[h] = "LUSED" /\ lock_acquired[h][r])
      <4>1. UNCHANGED <<pstate, plock>>
        BY <2>4, <3>2 DEF ReleaseLock
      <4>. QED
        BY <2>2, <2>3, <4>1 DEF WaitersOf, Waiting
    <3>. QED
      BY <3>1, <3>2
  <2>6. h \in Lock
    BY <1>1, <2>4, EndStaysAhead DEF ReleaseLock, Releasing
  <2>7. q \in to
    BY <2>2, <2>3, <2>5 DEF WaitersOf, Waiting
  <2>8. p \notin to /\ p \in WaitersOf(l)
    BY <2>3, <2>5 DEF WaitersOf, Waiting
  <2>. HIDE DEF h
  <2>9. to = Handed(h) /\ q \in WaitersOf(h)
    BY <1>1, <2>5, <2>6, <2>7, HandedFacts
  <2>10. h = l
    BY <2>2, <2>9 DEF WaitersOf
  <2>. QED
    BY <1>1, <2>7, <2>8, <2>9, <2>10, HandedFacts
<1>2. LocksInv /\ [Next]_vars => [Urgent]_vars
  BY <1>1
<1>. HIDE DEF Urgent
<1>3. Spec => [][Urgent]_vars
  BY <1>2, LocksInductive, PTL DEF Spec
<1>. QED
  BY <1>3 DEF HandedToTheMostUrgent, Urgent

\* priority_inherit() ends within the bound on its rounds, for any numbers of
\* processes and locks and whichever process it is called for: along who waits
\* for whom it goes to higher locks only (releaseall.c:128), while programs take
\* locks in ascending order.
THEOREM InheritAlwaysEnds == Spec => []InheritEnds
<1>1. LocksInv /\ Ascending /\ [Next]_vars => Ascending'
  BY NextAscending DEF LocksInv
<1>2. Spec => []Ascending
  BY <1>1, InitAscending, LocksInductive, PTL DEF Spec
<1>3. LocksInv /\ Ascending => InheritEnds
  BY PriosFit, InheritReturns DEF Ascending, InheritEnds
<1>. QED
  BY <1>2, <1>3, LocksInductive, PTL
===============================================================================
