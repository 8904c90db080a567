------------------------------ MODULE ClockProofs ------------------------------
(***************************************************************************)
(* The keys of q[], which a list reads in one of two ways: the priorities  *)
(* of the ready list, always in ascending order, and the deltas of the     *)
(* sleep queue, never negative, which add up to what each sleeper has left.*)
(* Then what follows for the dispatcher: the CPU goes to the highest       *)
(* priority as long as nobody changes one.                                 *)
(***************************************************************************)
EXTENDS KernelProofs, SleepTimes

-------------------------------------------------------------------------------
(***************************************************************************)
(* What is left of a delay along the delta list.                           *)
(***************************************************************************)
Falls(left, list, key, k) ==
  /\ left \in [0..Len(list) -> Int]
  /\ left[0] = k
  /\ \A i \in 1..Len(list) : left[i] = left[i - 1] - key[list[i]]

\* Two functions that rise and fall together, from a place where one is c above
\* the other, keep that distance.
Alike(a, m, d, c, f, g) ==
  /\ a \in Nat /\ m \in Nat /\ d \in Int /\ c \in Int
  /\ \A i \in a..m : f[i] \in Int /\ g[i + d] \in Int
  /\ a <= m => f[a] = g[a + d] + c
  /\ \A i \in a + 1..m : f[i] - f[i - 1] = g[i + d] - g[i + d - 1]

\* insertd() counts the same off two lists wherever their entries agree.
LEMMA SameSteps ==
  ASSUME NEW a, NEW m, NEW d, NEW c, NEW f, NEW g, Alike(a, m, d, c, f, g)
  PROVE  \A i \in a..m : f[i] = g[i + d] + c
<1>0. /\ a \in Nat /\ m \in Nat /\ d \in Int /\ c \in Int
      /\ \A i \in a..m : f[i] \in Int /\ g[i + d] \in Int
      /\ a <= m => f[a] = g[a + d] + c
      /\ \A i \in a + 1..m : f[i] - f[i - 1] = g[i + d] - g[i + d - 1]
  BY DEF Alike
<1>. DEFINE off == {i \in a..m : f[i] # g[i + d] + c}
<1>. SUFFICES ASSUME off # {} PROVE FALSE
  OBVIOUS
<1>1. off \in SUBSET Nat
  BY <1>0
<1>. DEFINE i == Min(off)
<1>2. i \in off /\ \A j \in off : i <= j
  <2>. HIDE DEF off
  <2>. QED
    BY <1>1, MinIsLeast
<1>. HIDE DEF i
<1>3. i \in a + 1..m
  BY <1>0, <1>2
<1>4. f[i - 1] = g[i - 1 + d] + c
  BY <1>0, <1>2, <1>3
<1>5. f[i] - f[i - 1] = g[i + d] - g[i + d - 1]
  BY <1>0, <1>3
<1>6. f[i] \in Int /\ g[i + d] \in Int /\ f[i - 1] \in Int /\ g[i - 1 + d] \in Int
  BY <1>0, <1>3
<1>7. i + d - 1 = i - 1 + d
  BY <1>0, <1>3
<1>8. c \in Int
  BY <1>0
<1>. QED
  BY <1>2, <1>4, <1>5, <1>6, <1>7, <1>8

\* Counting off any list of deltas can be carried through to its end.
LEMMA FallsExists ==
  ASSUME NEW list \in Seq(Pid), NEW key \in [Pid -> Int], NEW k \in Int
  PROVE  \E left : Falls(left, list, key, k)
<1>. DEFINE n == Len(list)
            Upto(m) == \E f \in [0..m -> Int] :
                         f[0] = k /\ \A i \in 1..m : f[i] = f[i - 1] - key[list[i]]
            bad == {m \in 0..n : ~Upto(m)}
<1>0. n \in Nat
  OBVIOUS
<1>1. Upto(0)
  <2>. DEFINE f == [i \in 0..0 |-> k]
  <2>1. f \in [0..0 -> Int] /\ f[0] = k /\ \A i \in 1..0 : f[i] = f[i - 1] - key[list[i]]
    OBVIOUS
  <2>. QED
    BY <2>1
<1>2. ASSUME NEW m \in 1..n, Upto(m - 1) PROVE Upto(m)
  <2>1. PICK f \in [0..m - 1 -> Int] :
           f[0] = k /\ \A i \in 1..m - 1 : f[i] = f[i - 1] - key[list[i]]
    BY <1>2
  <2>. DEFINE g == [i \in 0..m |-> IF i = m THEN f[m - 1] - key[list[m]] ELSE f[i]]
  <2>2. key[list[m]] \in Int /\ f[m - 1] \in Int
    BY <1>0
  <2>3. g \in [0..m -> Int]
    BY <2>2
  <2>4. g[0] = k
    BY <2>1
  <2>5. ASSUME NEW i \in 1..m PROVE g[i] = g[i - 1] - key[list[i]]
    BY <2>1
  <2>. QED
    BY <2>3, <2>4, <2>5
<1>3. bad = {}
  <2>. SUFFICES ASSUME bad # {} PROVE FALSE
    OBVIOUS
  <2>1. bad \in SUBSET Nat
    BY <1>0
  <2>2. PICK m \in bad : \A j \in bad : m <= j
    <3>. HIDE DEF bad
    <3>. QED
      BY <2>1, MinIsLeast
  <2>. HIDE DEF Upto
  <2>3. m \in 1..n /\ ~Upto(m)
    BY <1>0, <1>1, <2>2
  <2>4. m - 1 \in 0..n /\ m - 1 < m
    BY <1>0, <2>3
  <2>5. Upto(m - 1)
    BY <2>2, <2>4
  <2>. QED
    BY <1>2, <2>3, <2>5
<1>4. Upto(n)
  <2>. HIDE DEF Upto
  <2>. QED
    BY <1>0, <1>3
<1>. QED
  BY <1>4 DEF Falls

\* The local `key' of insertd() at every entry of the list (insertd.c:14-17).
LEMMA ResidueFalls ==
  ASSUME NEW list \in Seq(Pid), NEW key \in [Pid -> Int], NEW k \in Int
  PROVE  Falls(Residue(list, key, k), list, key, k)
<1>1. PICK f : Falls(f, list, key, k)
  BY FallsExists
<1>2. f = [i \in 0..Len(list) |-> IF i = 0 THEN k ELSE f[i - 1] - key[list[i]]]
  BY <1>1 DEF Falls
<1>3. Residue(list, key, k) =
        [i \in 0..Len(list) |-> IF i = 0 THEN k ELSE Residue(list, key, k)[i - 1] - key[list[i]]]
  BY <1>2 DEF Residue
<1>. DEFINE R == Residue(list, key, k)
<1>. HIDE DEF R
<1>4. R = [i \in 0..Len(list) |-> IF i = 0 THEN k ELSE R[i - 1] - key[list[i]]]
  BY <1>3 DEF R
<1>5. R[0] = k /\ \A i \in 1..Len(list) : R[i] = R[i - 1] - key[list[i]]
  BY SMTT(30), <1>4
<1>6. f[0] = k /\ \A i \in 1..Len(list) : f[i] = f[i - 1] - key[list[i]]
  BY <1>1 DEF Falls
<1>. DEFINE off == {i \in 0..Len(list) : R[i] # f[i]}
<1>7. off = {}
  <2>. SUFFICES ASSUME off # {} PROVE FALSE
    OBVIOUS
  <2>1. off \in SUBSET Nat
    OBVIOUS
  <2>2. PICK i \in off : \A j \in off : i <= j
    <3>. HIDE DEF off
    <3>. QED
      BY <2>1, MinIsLeast
  <2>3. i \in 1..Len(list)
    BY <1>5, <1>6, <2>2
  <2>4. R[i - 1] = f[i - 1]
    BY <2>2, <2>3
  <2>. QED
    BY <1>5, <1>6, <2>2, <2>3, <2>4
<1>8. \A i \in 0..Len(list) : R[i] \in Int
  BY <1>1, <1>7 DEF Falls
<1>. QED
  BY <1>4, <1>5, <1>8 DEF Falls, R

\* insertd() stops before the first entry that waits no less than what is left
\* of the delay, which is not negative there (insertd.c:16).
LEMMA DeltaPositionFacts ==
  ASSUME NEW list \in Seq(Pid), NEW key \in [Pid -> Int], NEW k \in Int,
         NEW at, at = DeltaPosition(list, key, k), NEW left, left = Residue(list, key, k)
  PROVE  /\ Falls(left, list, key, k)
         /\ at \in 1..Len(list) + 1 /\ left[at - 1] \in Int
         /\ at <= Len(list) => key[list[at]] >= left[at - 1]
         /\ k >= 0 => left[at - 1] >= 0
<1>1. Falls(left, list, key, k)
  BY ResidueFalls
<1>. DEFINE stop == {i \in 1..Len(list) : key[list[i]] >= left[i - 1]} \cup {Len(list) + 1}
<1>2. stop \in SUBSET Nat /\ stop # {} /\ stop \subseteq 1..Len(list) + 1
  OBVIOUS
<1>3. at = Min(stop)
  BY DEF DeltaPosition
<1>4. at \in stop /\ \A i \in stop : at <= i
  <2>. HIDE DEF stop
  <2>. QED
    BY <1>2, <1>3, MinIsLeast
<1>5. at \in 1..Len(list) + 1 /\ left[at - 1] \in Int
  BY <1>1, <1>2, <1>4 DEF Falls
<1>6. at <= Len(list) => key[list[at]] >= left[at - 1]
  BY <1>4
<1>7. ASSUME k >= 0 PROVE left[at - 1] >= 0
  <2>1. CASE at = 1
    BY <1>1, <1>7, <2>1 DEF Falls
  <2>2. CASE at # 1
    <3>1. at - 1 \in 1..Len(list) /\ at - 1 < at
      BY <1>5, <2>2
    <3>2. ~(key[list[at - 1]] >= left[at - 1 - 1])
      BY <1>4, <3>1
    <3>3. /\ left[at - 1] = left[at - 1 - 1] - key[list[at - 1]]
          /\ key[list[at - 1]] \in Int /\ left[at - 1 - 1] \in Int
      BY <1>1, <3>1 DEF Falls
    <3>. QED
      BY <3>2, <3>3
  <2>. QED
    BY <2>1, <2>2
<1>. QED
  BY <1>1, <1>5, <1>6, <1>7

\* The keys insertd() leaves: its own process's, and the next one's
\* (insertd.c:19-26).
LEMMA DeltaKeysFacts ==
  ASSUME NEW list \in Seq(Pid), NEW key \in [Pid -> Int], NEW k \in Int,
         NEW p \in Pid, ~Contains(list, p),
         NEW at, at = DeltaPosition(list, key, k), NEW left, left = Residue(list, key, k),
         NEW keys, keys = DeltaKeys(list, key, p, k)
  PROVE  /\ keys \in [Pid -> Int]
         /\ keys[p] = left[at - 1]
         /\ at <= Len(list) => list[at] \in Pid /\ keys[list[at]] = key[list[at]] - left[at - 1]
         /\ \A r \in Pid : r # p /\ (at <= Len(list) => r # list[at]) => keys[r] = key[r]
<1>1. at \in 1..Len(list) + 1 /\ left[at - 1] \in Int
  BY DeltaPositionFacts
<1>0. PICK v \in Int : v = left[at - 1]
  BY <1>1
<1>2. CASE at <= Len(list)
  <2>1. keys = [[key EXCEPT ![p] = v] EXCEPT ![list[at]] = @ - v]
    BY <1>0, <1>2 DEF DeltaKeys
  <2>2. list[at] \in Pid /\ list[at] # p
    BY <1>1, <1>2 DEF Contains
  <2>3. keys \in [Pid -> Int] /\ keys[p] = v /\ keys[list[at]] = key[list[at]] - v
    BY <2>1, <2>2
  <2>4. \A r \in Pid : r # p /\ r # list[at] => keys[r] = key[r]
    BY <2>1, <2>2
  <2>. QED
    BY <1>0, <1>2, <2>2, <2>3, <2>4
<1>3. CASE ~(at <= Len(list))
  <2>1. keys = [key EXCEPT ![p] = v]
    BY <1>0, <1>3 DEF DeltaKeys
  <2>2. keys \in [Pid -> Int] /\ keys[p] = v /\ \A r \in Pid : r # p => keys[r] = key[r]
    BY <2>1
  <2>. QED
    BY <1>0, <1>3, <2>2
<1>. QED
  BY <1>2, <1>3

-------------------------------------------------------------------------------
(***************************************************************************)
(* The ready list in the order of its keys.                                *)
(***************************************************************************)
\* insert() into a list in order leaves one in order (insert.c:15-23).
LEMMA InsertSorted ==
  ASSUME NEW list \in Seq(Pid), NEW key \in [Pid -> Int], Sorted(list, key),
         NEW p \in Pid, ~Contains(list, p), NEW k \in Int
  PROVE  Sorted(Insert(list, key, p, k), [key EXCEPT ![p] = k])
BY InsertAtSorted DEF Insert

\* And so does taking one out (dequeue, queue.c).
LEMMA DequeueSorted ==
  ASSUME NEW list \in Seq(Pid), NEW key, Sorted(list, key), NEW p \in Pid
  PROVE  Sorted(Dequeue(list, p), key)
BY RemoveFirstSorted DEF Dequeue

-------------------------------------------------------------------------------
(***************************************************************************)
(* What ready() and resched() do to the keys.                              *)
(***************************************************************************)
Keyed(list, key) == key \in [Pid -> Int] /\ Sorted(list, key)

Tidy(T) == Queued(T) /\ Keyed(T.rdy, T.qkey)

\* The ready list is in order, and the quantum is kept (proc.h, resched.c).
Ordered ==
  /\ pprio \in [Pid -> Nat]
  /\ preempt \in 0..QUANTUM
  /\ Keyed(rdy, qkey)

\* Nobody who is not ready is on the ready list in the middle of a call.
LEMMA OffReady ==
  ASSUME NEW T, Queued(T), NEW p \in Pid, T.pstate[p] # "PRREADY"
  PROVE  T.rdy \in Seq(Pid) /\ ~Contains(T.rdy, p)
BY DEF Queued, Holds, StateIs

\* ready() gives its process the key of its priority, and no other process
\* another (ready.c:24-25).
LEMMA ReadyTidy ==
  ASSUME NEW T, Tidy(T), pprio \in [Pid -> Nat],
         NEW p \in Pid \ {NULLPROC}, T.pstate[p] # "PRREADY"
  PROVE  /\ Tidy(Ready(T, p))
         /\ \A r \in Pid : r # p => Ready(T, p).qkey[r] = T.qkey[r]
<1>1. ~isbadpid(p)
  BY PidFacts
<1>2. /\ Ready(T, p).rdy = Insert(T.rdy, T.qkey, p, pprio[p])
      /\ Ready(T, p).qkey = [T.qkey EXCEPT ![p] = pprio[p]]
  BY <1>1 DEF Ready
<1>3. T.rdy \in Seq(Pid) /\ ~Contains(T.rdy, p) /\ T.qkey \in [Pid -> Int] /\ Sorted(T.rdy, T.qkey)
      /\ pprio[p] \in Int
  BY OffReady DEF Tidy, Keyed
<1>4. Sorted(Insert(T.rdy, T.qkey, p, pprio[p]), [T.qkey EXCEPT ![p] = pprio[p]])
  BY <1>3, InsertSorted
<1>5. Queued(Ready(T, p))
  BY ReadyQueued DEF Tidy
<1>6. [T.qkey EXCEPT ![p] = pprio[p]] \in [Pid -> Int]
  BY <1>3
<1>. QED
  BY <1>2, <1>3, <1>4, <1>5, <1>6 DEF Tidy, Keyed

\* resched() puts the running process back in its place, if at all, and takes
\* the last entry (resched.c:145-177).
LEMMA ReschedTidy ==
  ASSUME NEW T, Tidy(T), pprio \in [Pid -> Nat], currpid \in Pid, T.pstate[currpid] # "PRREADY",
         StateIs(T.pstate, {"PRCURR"}) \subseteq {currpid}, NEW ticks \in 0..QUANTUM, Resched(T, ticks)
  PROVE  /\ Keyed(rdy', qkey') /\ preempt' \in 0..QUANTUM
         /\ \A r \in Pid : T.pstate[r] # "PRCURR" => qkey'[r] = T.qkey[r]
<1>0. QUANTUM \in 0..QUANTUM
  BY QUANTUMAssumption
<1>1. CASE Keep(T) /\ preempt' = ticks
  BY <1>1 DEF Keep, Tidy
<1>2. CASE ~(Keep(T) /\ preempt' = ticks)
  <2>. DEFINE yields == T.pstate[currpid] = "PRCURR"
              key  == IF yields THEN [T.qkey EXCEPT ![currpid] = pprio[currpid]] ELSE T.qkey
              list == IF yields THEN Insert(T.rdy, T.qkey, currpid, pprio[currpid]) ELSE T.rdy
  <2>1. rdy' = Front(list) /\ qkey' = key /\ preempt' = QUANTUM
    BY <1>2 DEF Resched
  <2>2. /\ T.rdy \in Seq(Pid) /\ ~Contains(T.rdy, currpid) /\ pprio[currpid] \in Int
        /\ T.qkey \in [Pid -> Int] /\ Sorted(T.rdy, T.qkey)
        /\ Holds(T.rdy, StateIs(T.pstate, {"PRREADY"}))
    BY OffReady DEF Tidy, Keyed, Queued
  <2>3. list \in Seq(Pid)
    <3>1. currpid \notin StateIs(T.pstate, {"PRREADY"})
      BY DEF StateIs
    <3>2. Insert(T.rdy, T.qkey, currpid, pprio[currpid]) \in Seq(Pid)
      BY <2>2, <3>1, InsertHolds
    <3>. QED
      BY <2>2, <3>2
  <2>4. Sorted(list, key)
    BY <2>2, InsertSorted
  <2>5. key \in [Pid -> Int]
    BY <2>2
  <2>6. list # <<>>
    <3>1. CASE yields
      <4>1. Holds(list, StateIs(T.pstate, {"PRREADY"}) \cup {currpid})
        BY <2>2, <3>1, InsertHolds DEF StateIs
      <4>2. Contains(list, currpid)
        BY <4>1 DEF Holds
      <4>. HIDE DEF list
      <4>. QED
        BY <4>2 DEF Contains
    <3>2. CASE ~yields
      <4>1. NULLPROC \in Pid /\ T.pstate[NULLPROC] \in {"PRREADY", "PRCURR"}
        BY PidFacts DEF Tidy, Queued
      <4>2. NULLPROC \in StateIs(T.pstate, {"PRREADY"})
        BY <3>2, <4>1 DEF StateIs
      <4>3. Contains(T.rdy, NULLPROC)
        BY <2>2, <4>1, <4>2 DEF Holds
      <4>. QED
        BY <3>2, <4>3 DEF Contains
    <3>. QED
      BY <3>1, <3>2
  <2>. HIDE DEF list
  <2>7. Sorted(Front(list), key)
    BY <2>3, <2>4, <2>6, FrontSorted
  <2>8. \A r \in Pid : T.pstate[r] # "PRCURR" => key[r] = T.qkey[r]
    BY <2>2
  <2>. QED
    BY <1>0, <2>1, <2>5, <2>7, <2>8 DEF Keyed
<1>. QED
  BY <1>1, <1>2

-------------------------------------------------------------------------------
(***************************************************************************)
(* What each step does to the keys: of the ready list, and of the delta    *)
(* list.                                                                   *)
(***************************************************************************)
RdyOK == preempt \in 0..QUANTUM /\ Keyed(rdy, qkey)

ClockBecomes(list, keys) ==
  /\ clockq' = list
  /\ \A r \in Pid : Contains(list, r) => qkey'[r] = keys[r]

ClockStays == ClockBecomes(clockq, qkey)
ClockSet(k) ==
  ClockBecomes(DeltaList(clockq, qkey, currpid, k), DeltaKeys(clockq, qkey, currpid, k))
ClockCancel(p) ==
  Contains(clockq, p) /\ ClockBecomes(Dequeue(clockq, p), UnsleepKeys(p))

\* The processes on the delta list sleep, and are on no other list.
LEMMA SleeperFacts ==
  ASSUME IInv
  PROVE  /\ clockq \in Seq(Pid)
         /\ \A r \in Pid : Contains(clockq, r) <=> pstate[r] \in {"PRSLEEP", "PRTRECV"}
         /\ \A i, j \in 1..Len(clockq) : clockq[i] = clockq[j] => i = j
         /\ \A i \in 1..Len(clockq) : clockq[i] \in Pid /\ Contains(clockq, clockq[i])
         /\ rdy \in Seq(Pid)
         /\ \A r \in Pid : Contains(rdy, r) <=> pstate[r] = "PRREADY"
<1>1. clockq \in Seq(Pid) /\ Holds(clockq, StateIs(pstate, {"PRSLEEP", "PRTRECV"}))
  BY TablesQueued DEF ListsOK
<1>2. rdy \in Seq(Pid) /\ Holds(rdy, StateIs(pstate, {"PRREADY"}))
  BY TablesQueued DEF Queued
<1>3. \A i \in 1..Len(clockq) : clockq[i] \in Pid /\ Contains(clockq, clockq[i])
  BY <1>1 DEF Contains
<1>. QED
  BY <1>1, <1>2, <1>3 DEF Holds, StateIs

\* The tables at the start of a call, with one state or key changed.
LEMMA TablesTidy ==
  ASSUME IInv, Ordered
  PROVE  /\ Tidy(Tables) /\ Tables.pstate = pstate /\ Tables.rdy = rdy /\ Tables.qkey = qkey
         /\ currpid \in Pid /\ pstate[currpid] = "PRCURR" /\ qkey \in [Pid -> Int]
         /\ StateIs(pstate, {"PRCURR"}) = {currpid} /\ pprio \in [Pid -> Nat]
         /\ preempt \in 0..QUANTUM
BY TablesQueued DEF Tidy, Ordered, Tables, Keyed

\* A call that keeps to the processes that are awake.
LEMMA QuietKeys ==
  ASSUME IInv, Ordered, UNCHANGED <<preempt, rdy, qkey, clockq>>
  PROVE  RdyOK' /\ ClockStays
BY DEF Ordered, RdyOK, ClockBecomes, ClockStays, Keyed, Sorted

\* resched() alone.
LEMMA ReschedKeys ==
  ASSUME IInv, Ordered, NEW ticks \in 0..QUANTUM, Resched(Tables, ticks), UNCHANGED clockq
  PROVE  RdyOK' /\ ClockStays
<1>1. /\ Keyed(rdy', qkey') /\ preempt' \in 0..QUANTUM
      /\ \A r \in Pid : pstate[r] # "PRCURR" => qkey'[r] = qkey[r]
  BY TablesTidy, ReschedTidy
<1>2. \A r \in Pid : Contains(clockq, r) => pstate[r] # "PRCURR"
  BY SleeperFacts
<1>. QED
  BY <1>1, <1>2 DEF RdyOK, ClockStays, ClockBecomes, Keyed, Sorted

\* Waking p for the CPU: of those that sleep no key is touched.
LEMMA WakeKeys ==
  ASSUME IInv, Ordered, NEW T, Tidy(T), T.pstate = pstate, NEW p \in Pid \ {NULLPROC},
         pstate[p] \notin {"PRREADY", "PRCURR"}, ReadyNow(T, p)
  PROVE  /\ RdyOK'
         /\ \A r \in Pid : r # p /\ pstate[r] # "PRCURR" => qkey'[r] = T.qkey[r]
<1>1. Resched(Ready(T, p), preempt)
  BY PidFacts DEF ReadyNow
<1>2. /\ Tidy(Ready(T, p)) /\ Ready(T, p).pstate = [pstate EXCEPT ![p] = "PRREADY"]
      /\ \A r \in Pid : r # p => Ready(T, p).qkey[r] = T.qkey[r]
  BY TablesTidy, ReadyTidy, ReadyQueued DEF Tidy
<1>. PICK R : R = Ready(T, p)
  OBVIOUS
<1>3. pstate \in [Pid -> States] /\ currpid \in Pid /\ pstate[currpid] = "PRCURR"
      /\ StateIs(pstate, {"PRCURR"}) = {currpid}
  BY TablesQueued
<1>4. R.pstate[currpid] # "PRREADY" /\ StateIs(R.pstate, {"PRCURR"}) \subseteq {currpid}
  BY <1>2, <1>3 DEF StateIs
<1>5. /\ Keyed(rdy', qkey') /\ preempt' \in 0..QUANTUM
      /\ \A r \in Pid : R.pstate[r] # "PRCURR" => qkey'[r] = R.qkey[r]
  <2>1. Tidy(R) /\ Resched(R, preempt)
    BY <1>1, <1>2
  <2>2. pprio \in [Pid -> Nat] /\ preempt \in 0..QUANTUM
    BY TablesTidy
  <2>. QED
    BY <1>3, <1>4, <2>1, <2>2, ReschedTidy
<1>6. \A r \in Pid : r # p => R.pstate[r] = pstate[r]
  BY <1>2, <1>3
<1>. QED
  BY <1>2, <1>5, <1>6 DEF RdyOK, Keyed, Sorted

\* Waking p without a reschedule, in a loop.
LEMMA WakeLaterKeys ==
  ASSUME IInv, Ordered, NEW p \in Pid \ {NULLPROC},
         pstate[p] # "PRREADY", Keep(Ready(Tables, p)), UNCHANGED preempt
  PROVE  RdyOK' /\ \A r \in Pid : r # p => qkey'[r] = qkey[r]
<1>1. /\ Tidy(Ready(Tables, p))
      /\ \A r \in Pid : r # p => Ready(Tables, p).qkey[r] = qkey[r]
  BY TablesTidy, ReadyTidy
<1>. QED
  BY <1>1, TablesTidy DEF Keep, Tidy, RdyOK, Keyed, Sorted

\* Whoever blocks or ends leaves the keys of the sleeping ones alone.
LEMMA BlockKeys ==
  ASSUME IInv, Ordered, currpid # NULLPROC, NEW st \in States \ {"PRREADY", "PRCURR"},
         NEW T, T.pstate = [pstate EXCEPT ![currpid] = st], T.rdy = rdy, Keyed(rdy, T.qkey),
         Resched(T, preempt)
  PROVE  RdyOK' /\ \A r \in Pid : pstate[r] # "PRCURR" \/ r = currpid => qkey'[r] = T.qkey[r]
<1>1. pstate \in [Pid -> States] /\ currpid \in Pid /\ pstate[currpid] = "PRCURR"
      /\ StateIs(pstate, {"PRCURR"}) = {currpid} /\ Queued(Tables) /\ Tables.pstate = pstate
      /\ Tables.rdy = rdy
  BY TablesQueued
<1>2. Queued(T)
  <2>1. /\ Queued(Tables) /\ currpid \in Pid \ {NULLPROC} /\ Tables.pstate[currpid] # "PRREADY"
        /\ T.pstate = [Tables.pstate EXCEPT ![currpid] = st] /\ T.rdy = Tables.rdy
    BY <1>1
  <2>. QED
    BY <2>1, SetStateQueued
<1>3. Tidy(T) /\ T.pstate[currpid] # "PRREADY" /\ StateIs(T.pstate, {"PRCURR"}) \subseteq {currpid}
  BY <1>1, <1>2 DEF Tidy, StateIs
<1>4. /\ Keyed(rdy', qkey') /\ preempt' \in 0..QUANTUM
      /\ \A r \in Pid : T.pstate[r] # "PRCURR" => qkey'[r] = T.qkey[r]
  BY <1>1, <1>3, ReschedTidy DEF Ordered
<1>5. \A r \in Pid : pstate[r] # "PRCURR" \/ r = currpid => T.pstate[r] # "PRCURR"
  BY <1>1
<1>. QED
  BY <1>4, <1>5 DEF RdyOK, Keyed, Sorted

\* insertd() changes the keys of sleeping processes only.
LEMMA SleepKeys ==
  ASSUME IInv, Ordered, NEW k \in Nat, NEW keys, keys = DeltaKeys(clockq, qkey, currpid, k)
  PROVE  Keyed(rdy, keys) /\ \A r \in Pid : Contains(rdy, r) => keys[r] = qkey[r]
<1>1. /\ clockq \in Seq(Pid) /\ ~Contains(clockq, currpid) /\ currpid \in Pid
      /\ qkey \in [Pid -> Int] /\ rdy \in Seq(Pid) /\ Sorted(rdy, qkey)
  BY SleeperFacts, TablesTidy DEF Ordered, Keyed
<1>. DEFINE at == DeltaPosition(clockq, qkey, k)
<1>2. at \in 1..Len(clockq) + 1
  BY <1>1, DeltaPositionFacts
<1>. HIDE DEF at
<1>3. keys \in [Pid -> Int] /\ \A r \in Pid : r # currpid /\ (at <= Len(clockq) => r # clockq[at])
                                               => keys[r] = qkey[r]
  BY <1>1, DeltaKeysFacts DEF at
<1>4. \A r \in Pid : Contains(rdy, r) => keys[r] = qkey[r]
  <2>1. \A r \in Pid : Contains(rdy, r) => pstate[r] = "PRREADY" /\ r # currpid /\ ~Contains(clockq, r)
    BY SleeperFacts, TablesTidy
  <2>2. at <= Len(clockq) => Contains(clockq, clockq[at])
    BY <1>2, SleeperFacts
  <2>. QED
    BY <1>3, <2>1, <2>2
<1>. QED
  BY <1>1, <1>3, <1>4, SortedSameKeys DEF Keyed

\* Going to sleep (sleep10.c, recvtim.c).
LEMMA SleepForKeys ==
  ASSUME IInv, Ordered, currpid # NULLPROC, NEW k \in Nat, NEW st \in {"PRSLEEP", "PRTRECV"},
         NEW f, SleepFor(k, st, f)
  PROVE  RdyOK' /\ ClockSet(k)
<1>. PICK keys : keys = DeltaKeys(clockq, qkey, currpid, k)
  OBVIOUS
<1>. DEFINE T == [SetState(Tables, currpid, st) EXCEPT !.qkey = keys]
<1>1. T.pstate = [pstate EXCEPT ![currpid] = st] /\ T.rdy = rdy /\ T.qkey = keys
  BY DEF SetState, Tables
<1>2. Resched(T, preempt) /\ clockq' = DeltaList(clockq, qkey, currpid, k)
  BY DEF SleepFor
<1>. HIDE DEF T
<1>3. RdyOK' /\ \A r \in Pid : pstate[r] # "PRCURR" \/ r = currpid => qkey'[r] = keys[r]
  BY <1>1, <1>2, SleepKeys, BlockKeys DEF States
<1>4. \A r \in Pid : Contains(clockq', r) => pstate[r] # "PRCURR" \/ r = currpid
  <2>. PICK S : S = StateIs(pstate, {"PRSLEEP", "PRTRECV"})
    OBVIOUS
  <2>1. clockq \in Seq(Pid) /\ Holds(clockq, S) /\ currpid \in Pid /\ currpid \notin S
        /\ \A r \in S : pstate[r] # "PRCURR"
    BY TablesQueued DEF ListsOK, StateIs
  <2>2. Holds(clockq', S \cup {currpid})
    BY <1>2, <2>1, DeltaListHolds
  <2>. QED
    BY <2>1, <2>2 DEF Holds
<1>. QED
  BY <1>2, <1>3, <1>4 DEF ClockSet, ClockBecomes

\* unsleep() changes the key of a sleeping process only.
LEMMA CancelKeys ==
  ASSUME IInv, Ordered, NEW p \in Pid, pstate[p] \in {"PRSLEEP", "PRTRECV"}
  PROVE  /\ Keyed(rdy, UnsleepKeys(p))
         /\ \A r \in Pid : Contains(rdy, r) => UnsleepKeys(p)[r] = qkey[r]
         /\ \A r \in Pid : Contains(Dequeue(clockq, p), r) => r # p /\ Contains(clockq, r)
<1>1. /\ clockq \in Seq(Pid) /\ qkey \in [Pid -> Int] /\ rdy \in Seq(Pid) /\ Sorted(rdy, qkey)
  BY SleeperFacts, TablesTidy DEF Ordered, Keyed
<1>2. PICK i : UnsleepKeys(p) = IF i \in 1..Len(clockq) - 1
                                THEN [qkey EXCEPT ![clockq[i + 1]] = @ + qkey[p]] ELSE qkey
  BY DEF UnsleepKeys
<1>3. UnsleepKeys(p) \in [Pid -> Int] /\ \A r \in Pid : ~Contains(clockq, r) => UnsleepKeys(p)[r] = qkey[r]
  <2>1. CASE i \in 1..Len(clockq) - 1
    <3>1. clockq[i + 1] \in Pid /\ Contains(clockq, clockq[i + 1])
      BY <1>1, <2>1, SleeperFacts
    <3>2. UnsleepKeys(p) = [qkey EXCEPT ![clockq[i + 1]] = @ + qkey[p]]
      BY <1>2, <2>1
    <3>. QED
      BY <1>1, <3>1, <3>2
  <2>2. CASE i \notin 1..Len(clockq) - 1
    BY <1>1, <1>2, <2>2
  <2>. QED
    BY <2>1, <2>2
<1>4. \A r \in Pid : Contains(rdy, r) => UnsleepKeys(p)[r] = qkey[r]
  BY <1>3, SleeperFacts
<1>5. Keyed(rdy, UnsleepKeys(p))
  BY <1>1, <1>3, <1>4, SortedSameKeys DEF Keyed
<1>6. \A r \in Pid : Contains(Dequeue(clockq, p), r) => r # p /\ Contains(clockq, r)
  <2>. PICK S : S = StateIs(pstate, {"PRSLEEP", "PRTRECV"})
    OBVIOUS
  <2>1. clockq \in Seq(Pid) /\ Holds(clockq, S)
    BY TablesQueued DEF ListsOK
  <2>2. Holds(Dequeue(clockq, p), S \ {p})
    BY <2>1, DequeueHolds
  <2>. QED
    BY <2>1, <2>2 DEF Holds
<1>. QED
  BY <1>4, <1>5, <1>6

\* send() may wake a receiver, from recvtim() too (send.c).
LEMMA SendToKeys ==
  ASSUME IInv, Ordered, NEW p \in Int, SendTo(p)
  PROVE  RdyOK' /\ (ClockStays \/ \E r \in Pid : ClockCancel(r))
<1>1. CASE UNCHANGED <<cpuVars, clockVars>>
  BY <1>1, QuietKeys DEF cpuVars, clockVars
<1>2. CASE /\ Accepts(p) /\ pstate[p] = "PRRECV" /\ ReadyNow(Tables, p) /\ UNCHANGED clockVars
  <2>1. p \in Pid \ {NULLPROC}
    BY <1>2, PidFacts DEF Accepts
  <2>2. RdyOK' /\ \A r \in Pid : r # p /\ pstate[r] # "PRCURR" => qkey'[r] = qkey[r]
    BY <1>2, <2>1, TablesTidy, WakeKeys
  <2>3. \A r \in Pid : Contains(clockq, r) => r # p /\ pstate[r] # "PRCURR"
    BY <1>2, SleeperFacts
  <2>. QED
    BY <1>2, <2>2, <2>3 DEF ClockStays, ClockBecomes, clockVars
<1>3. CASE /\ Accepts(p) /\ pstate[p] = "PRTRECV" /\ Unsleep(p)
           /\ ReadyNow([Tables EXCEPT !.qkey = UnsleepKeys(p)], p)
  <2>1. p \in Pid \ {NULLPROC}
    BY <1>3, PidFacts DEF Accepts
  <2>. DEFINE T == [Tables EXCEPT !.qkey = UnsleepKeys(p)]
  <2>2. T.pstate = pstate /\ T.rdy = rdy /\ T.qkey = UnsleepKeys(p) /\ ReadyNow(T, p)
    BY <1>3 DEF Tables
  <2>. HIDE DEF T
  <2>3. /\ Keyed(rdy, UnsleepKeys(p))
        /\ \A r \in Pid : Contains(Dequeue(clockq, p), r) => r # p /\ Contains(clockq, r)
    BY <1>3, <2>1, CancelKeys
  <2>4. Tidy(T)
    BY <2>2, <2>3, TablesQueued DEF Tidy, Queued
  <2>5. RdyOK' /\ \A r \in Pid : r # p /\ pstate[r] # "PRCURR" => qkey'[r] = UnsleepKeys(p)[r]
    BY <1>3, <2>1, <2>2, <2>4, WakeKeys
  <2>6. clockq' = Dequeue(clockq, p) /\ Contains(clockq, p)
        /\ \A r \in Pid : Contains(clockq, r) => pstate[r] # "PRCURR"
    BY <1>3, <2>1, SleeperFacts DEF Unsleep
  <2>. QED
    BY <2>1, <2>3, <2>5, <2>6 DEF ClockCancel, ClockBecomes
<1>. QED
  BY <1>1, <1>2, <1>3 DEF SendTo

\* What a step may do to the delta list.  wakeup() alone works on one whose
\* head is due.
ClockStep ==
  \/ /\ ClockStays
     /\ Running("wakeup") => ~FirstIsDue
  \/ /\ ~Running("wakeup")
     /\ (\E k \in Delays : ClockSet(k)) \/ (\E p \in Pid : ClockCancel(p))
  \/ /\ Running("user") /\ clockq # <<>>
     /\ ClockBecomes(clockq, [qkey EXCEPT ![Head(clockq)] = @ - 1])
     /\ ~(qkey[Head(clockq)] - 1 > 0) => Running("wakeup")'
  \/ /\ Running("wakeup") /\ FirstIsDue
     /\ ClockBecomes(Tail(clockq), qkey)
     /\ Running("wakeup")'

\* Processes created, resumed, suspended.
LEMMA KeyProcessCalls ==
  ASSUME IInv, Ordered, ProcessCall
  PROVE  Ordered' /\ ClockStep
<1>0. ~Running("wakeup")
  BY DEF ProcessCall, Create, CreateRefused, Resume, Suspend, Chprio, Setnok, Kill, Calling, Running
<1>1. pprio' \in [Pid -> Nat]
  <2>1. ASSUME NEW k \in Prios, NEW p \in Pid, pprio' = [pprio EXCEPT ![p] = k]
        PROVE  pprio' \in [Pid -> Nat]
    BY <2>1, PriosAssumption DEF Ordered
  <2>2. ASSUME NEW k \in Prios, Create(k) PROVE pprio' \in [Pid -> Nat]
    BY <2>1, <2>2, ProcessMoves
  <2>3. ASSUME NEW k \in Prios, NEW p \in Pid, Chprio(p, k) PROVE pprio' \in [Pid -> Nat]
    BY <2>1, <2>3 DEF Chprio
  <2>4. ASSUME UNCHANGED pprio PROVE pprio' \in [Pid -> Nat]
    BY <2>4 DEF Ordered
  <2>. QED
    BY <2>2, <2>3, <2>4 DEF ProcessCall, CreateRefused, Resume, Suspend, Setnok, Kill, tableVars
<1>2. RdyOK' /\ (ClockStays \/ \E r \in Pid : ClockCancel(r))
  <2>1. ASSUME UNCHANGED <<preempt, rdy, qkey, clockq>> PROVE RdyOK' /\ ClockStays
    BY <2>1, QuietKeys
  <2>2. ASSUME NEW k, Create(k) PROVE RdyOK' /\ ClockStays
    BY <2>1, <2>2 DEF Create, clockVars
  <2>3. ASSUME NEW k, NEW p, CreateRefused \/ Chprio(p, k) \/ Setnok(k, p)
        PROVE  RdyOK' /\ ClockStays
    BY <2>1, <2>3 DEF CreateRefused, Chprio, Setnok, clockVars, cpuVars
  <2>4. ASSUME NEW p \in Pid, Resume(p) PROVE RdyOK' /\ ClockStays
    <3>1. p \in Pid \ {NULLPROC} /\ pstate[p] = "PRSUSP" /\ ReadyNow(Tables, p) /\ UNCHANGED clockq
      BY <2>4, PidFacts DEF Resume, clockVars
    <3>2. RdyOK' /\ \A r \in Pid : r # p /\ pstate[r] # "PRCURR" => qkey'[r] = qkey[r]
      BY <3>1, TablesTidy, WakeKeys
    <3>3. \A r \in Pid : Contains(clockq, r) => r # p /\ pstate[r] # "PRCURR"
      BY <3>1, SleeperFacts
    <3>. QED
      BY <3>1, <3>2, <3>3 DEF ClockStays, ClockBecomes
  <2>5. ASSUME NEW p \in Pid, Suspend(p) PROVE RdyOK' /\ ClockStays
    <3>1. p # NULLPROC /\ UNCHANGED clockq
      BY <2>5, PidFacts DEF Suspend, clockVars
    <3>2. CASE pstate[p] = "PRREADY"
      <4>1. rdy' = Dequeue(rdy, p) /\ qkey' = qkey /\ UNCHANGED preempt
        BY <2>5, <3>2 DEF Suspend, Keep, SetState, Tables
      <4>2. rdy \in Seq(Pid) /\ Sorted(rdy, qkey)
        BY SleeperFacts DEF Ordered, Keyed
      <4>3. Sorted(Dequeue(rdy, p), qkey)
        BY <4>2, DequeueSorted
      <4>. QED
        BY <3>1, <4>1, <4>3 DEF RdyOK, Keyed, Sorted, Ordered, ClockStays, ClockBecomes
    <3>3. CASE pstate[p] = "PRCURR"
      <4>1. p = currpid /\ Resched(SetState(Tables, p, "PRSUSP"), preempt)
        BY <2>5, <3>3, TablesQueued DEF Suspend, StateIs
      <4>2. PICK T : T = SetState(Tables, currpid, "PRSUSP")
        OBVIOUS
      <4>3. T.pstate = [pstate EXCEPT ![currpid] = "PRSUSP"] /\ T.rdy = rdy /\ T.qkey = qkey
            /\ Resched(T, preempt) /\ currpid # NULLPROC /\ Keyed(rdy, T.qkey)
        BY <3>1, <4>1, <4>2, SetStateFields DEF Ordered
      <4>4. "PRSUSP" \in States \ {"PRREADY", "PRCURR"}
        BY DEF States
      <4>5. RdyOK' /\ \A r \in Pid : pstate[r] # "PRCURR" \/ r = currpid => qkey'[r] = T.qkey[r]
        BY <4>3, <4>4, BlockKeys
      <4>. QED
        BY <3>1, <4>3, <4>5, SleeperFacts DEF ClockStays, ClockBecomes
    <3>. QED
      BY <2>5, <3>2, <3>3 DEF Suspend
  <2>6. ASSUME NEW p \in Pid, Kill(p) PROVE RdyOK' /\ (ClockStays \/ \E r \in Pid : ClockCancel(r))
    BY <2>6, SendToKeys DEF Kill, IInv, Resumable
  <2>. QED
    BY <2>2, <2>3, <2>4, <2>5, <2>6 DEF ProcessCall
<1>. QED
  BY <1>0, <1>1, <1>2 DEF ClockStep, Ordered, RdyOK

\* The running process blocks on no delta list.
LEMMA BlockedKeys ==
  ASSUME IInv, Ordered, currpid # NULLPROC, NEW st \in States \ {"PRREADY", "PRCURR"},
         Resched(SetState(Tables, currpid, st), preempt), UNCHANGED clockq
  PROVE  RdyOK' /\ ClockStays
<1>1. PICK T : T = SetState(Tables, currpid, st)
  OBVIOUS
<1>2. T.pstate = [pstate EXCEPT ![currpid] = st] /\ T.rdy = rdy /\ T.qkey = qkey
      /\ Resched(T, preempt) /\ Keyed(rdy, T.qkey)
  BY <1>1, SetStateFields DEF Ordered
<1>3. RdyOK' /\ \A r \in Pid : pstate[r] # "PRCURR" \/ r = currpid => qkey'[r] = T.qkey[r]
  BY <1>2, BlockKeys
<1>. QED
  BY <1>2, <1>3, SleeperFacts DEF ClockStays, ClockBecomes

\* Waiters woken go to the ready list in order.
LEMMA KeySemaphoreSteps ==
  ASSUME IInv, Ordered, SemaphoreCall \/ SignalnNext \/ SignalnEnd \/ SresetNext \/ SresetEnd
                        \/ SdeleteNext \/ SdeleteEnd
  PROVE  Ordered' /\ ClockStep
<1>0. ~Running("wakeup") /\ UNCHANGED <<pprio, clockq>>
  BY DEF SemaphoreCall, Screate, Wait, Signal, Signaln, Sreset, Sdelete, SignalnNext, SignalnEnd,
         SresetNext, SresetEnd, SdeleteNext, SdeleteEnd, Calling, Running, tableVars, clockVars
<1>1. RdyOK' /\ ClockStays
  <2>1. ASSUME NEW s, NEW c, Screate(c) \/ Signaln(s, c) \/ Sreset(s, c) \/ Sdelete(s)
                                     \/ (Wait(s) /\ semcnt[s] > 0)
        PROVE  RdyOK' /\ ClockStays
    BY <2>1, QuietKeys DEF Screate, Signaln, Sreset, Sdelete, Wait, cpuVars, clockVars
  <2>2. ASSUME NEW s \in Sem, Wait(s), ~(semcnt[s] > 0) PROVE RdyOK' /\ ClockStays
    BY <1>0, <2>2, BlockedKeys DEF Wait, Calling, States
  <2>3. ASSUME SignalnEnd \/ SresetEnd \/ SdeleteEnd PROVE RdyOK' /\ ClockStays
    BY <1>0, <2>3, ReschedKeys DEF SignalnEnd, SresetEnd, SdeleteEnd, Ordered
  <2>4. ASSUME NEW p \in Pid \ {NULLPROC}, pstate[p] = "PRWAIT",
               ReadyNow(Tables, p) \/ (Keep(Ready(Tables, p)) /\ UNCHANGED preempt)
        PROVE  RdyOK' /\ ClockStays
    <3>1. RdyOK' /\ \A r \in Pid : r # p /\ pstate[r] # "PRCURR" => qkey'[r] = qkey[r]
      BY <2>4, TablesTidy, WakeKeys, WakeLaterKeys
    <3>2. \A r \in Pid : Contains(clockq, r) => r # p /\ pstate[r] # "PRCURR"
      BY <2>4, SleeperFacts
    <3>. QED
      BY <1>0, <3>1, <3>2 DEF ClockStays, ClockBecomes
  <2>5. ASSUME NEW s \in Sem, UNCHANGED preempt,
               ReadyNow(Tables, Woken(s)) \/ Keep(Ready(Tables, Woken(s)))
        PROVE  RdyOK' /\ ClockStays
    <3>1. CASE Woken(s) = EMPTY
      <4>1. Keep(Tables)
        BY <2>5, <3>1, EmptyIsBad DEF ReadyNow, Ready
      <4>. QED
        BY <1>0, <2>5, <4>1, KeepStays, QuietKeys
    <3>2. CASE Woken(s) # EMPTY
      BY <2>4, <2>5, <3>2, WokenIsHead
    <3>. QED
      BY <3>1, <3>2
  <2>6. ASSUME NEW s \in Sem, Signal(s) PROVE RdyOK' /\ ClockStays
    <3>1. CASE Woken(s) = EMPTY
      BY <2>5, <2>6, <3>1, EmptyIsBad DEF Signal, ReadyNow
    <3>2. CASE Woken(s) # EMPTY
      BY <2>4, <2>6, <3>2, WokenIsHead DEF Signal
    <3>. QED
      BY <3>1, <3>2
  <2>7. ASSUME SignalnNext PROVE RdyOK' /\ ClockStays
    <3>1. PICK s \in Sem : s = frame[currpid].x
      BY <2>7, SemaphoreMoves
    <3>. QED
      BY <2>5, <2>7, <3>1 DEF SignalnNext
  <2>8. ASSUME SresetNext \/ SdeleteNext PROVE RdyOK' /\ ClockStays
    <3>1. PICK s, p : s = frame[currpid].x /\ p = Head(semq[s])
      OBVIOUS
    <3>2. p \in Pid \ {NULLPROC} /\ pstate[p] = "PRWAIT"
      BY <2>8, <3>1, SemaphoreMoves
    <3>3. Keep(Ready(Tables, p)) /\ UNCHANGED preempt
      BY <2>8, <3>1 DEF SresetNext, SdeleteNext
    <3>. QED
      BY <2>4, <3>2, <3>3
  <2>. QED
    BY <2>1, <2>2, <2>3, <2>6, <2>7, <2>8 DEF SemaphoreCall
<1>. QED
  BY <1>0, <1>1 DEF ClockStep, Ordered, RdyOK

\* Receivers and sleepers.
LEMMA KeyMessageSteps ==
  ASSUME IInv, Ordered, MessageCall \/ SleepCall \/ ReceiveEnd \/ RecvtimEnd
  PROVE  Ordered' /\ ClockStep
<1>0. ~Running("wakeup") /\ UNCHANGED pprio
  BY DEF MessageCall, SleepCall, Send, Receive, Recvtim, Recvclr, Sleep, ReceiveEnd, RecvtimEnd,
         TakeMessage, Calling, Running, tableVars
<1>1. ASSUME NEW p \in Pid, Send(p)
      PROVE  RdyOK' /\ (ClockStays \/ \E r \in Pid : ClockCancel(r))
  <2>1. p \in Int /\ SendTo(p)
    BY <1>1, NPROCAssumption DEF Send, Pid
  <2>. QED
    BY <2>1, SendToKeys
<1>2. ASSUME Receive /\ ~phasmsg[currpid]
      PROVE  RdyOK' /\ ClockStays
  <2>1. /\ currpid # NULLPROC /\ "PRRECV" \in States \ {"PRREADY", "PRCURR"} /\ UNCHANGED clockq
        /\ Resched(SetState(Tables, currpid, "PRRECV"), preempt)
    BY <1>2 DEF Receive, Calling, States, clockVars
  <2>. QED
    BY <2>1, BlockedKeys
<1>3. ASSUME NEW k \in Delays, (Recvtim(k) /\ ~phasmsg[currpid]) \/ (Sleep(k) /\ k # 0)
      PROVE  RdyOK' /\ ClockSet(k)
  <2>1. k \in Nat /\ currpid # NULLPROC
        /\ \E st \in {"PRSLEEP", "PRTRECV"} : \E f : SleepFor(k, st, f)
    BY <1>3, DelaysAssumption DEF Recvtim, Sleep, Calling
  <2>. QED
    BY <2>1, SleepForKeys
<1>4. ASSUME \/ (Receive \/ (\E k : Recvtim(k))) /\ phasmsg[currpid]
             \/ ReceiveEnd \/ RecvtimEnd \/ Recvclr
      PROVE  RdyOK' /\ ClockStays
  BY <1>4, QuietKeys DEF Receive, Recvtim, ReceiveEnd, RecvtimEnd, Recvclr, cpuVars, clockVars
<1>5. ASSUME Sleep(0)
      PROVE  RdyOK' /\ ClockStays
  BY <1>5, ReschedKeys DEF Sleep, Ordered, clockVars
<1>6. /\ RdyOK'
      /\ ClockStays \/ (\E k \in Delays : ClockSet(k)) \/ (\E r \in Pid : ClockCancel(r))
  <2>1. CASE MessageCall \/ ReceiveEnd \/ RecvtimEnd
    BY <1>1, <1>2, <1>3, <1>4, <2>1 DEF MessageCall
  <2>2. CASE SleepCall
    <3>1. PICK k \in Delays : Sleep(k)
      BY <2>2 DEF SleepCall
    <3>2. CASE k = 0
      BY <1>5, <3>1, <3>2
    <3>3. CASE k # 0
      BY <1>3, <3>1, <3>3
    <3>. QED
      BY <3>2, <3>3
  <2>. QED
    BY <2>1, <2>2
<1>. QED
  BY <1>0, <1>6 DEF ClockStep, Ordered, RdyOK

\* The end of kill(): its victim may be on the ready list, or asleep.
LEMMA KeyKillEnd ==
  ASSUME IInv, Ordered, KillEnd
  PROVE  Ordered' /\ ClockStep
<1>. PICK p : p = frame[currpid].x
  OBVIOUS
<1>0. ~Running("wakeup") /\ UNCHANGED pprio /\ p \in Pid \ {NULLPROC}
  BY ProcessMoves DEF KillEnd, Running, tableVars
<1>. PICK freed : freed = SetState(Tables, p, "PRFREE")
  OBVIOUS
<1>1. freed.rdy = rdy /\ freed.qkey = qkey
  BY SetStateFields
<1>2. CASE pstate[p] = "PRCURR"
  <2>1. p = currpid
    BY <1>0, <1>2, TablesQueued DEF StateIs
  <2>2. /\ Resched(SetState(Tables, currpid, "PRFREE"), preempt) /\ UNCHANGED clockq
        /\ currpid # NULLPROC /\ "PRFREE" \in States \ {"PRREADY", "PRCURR"}
    BY <1>0, <1>2, <2>1 DEF KillEnd, clockVars, States
  <2>3. RdyOK' /\ ClockStays
    BY <2>2, BlockedKeys
  <2>. QED
    BY <1>0, <2>3 DEF ClockStep, Ordered, RdyOK
<1>3. CASE pstate[p] \in {"PRWAIT", "PRSUSP", "PRRECV", "PRFREE"}
  <2>1. rdy' = freed.rdy /\ qkey' = freed.qkey /\ UNCHANGED <<preempt, clockq>>
    BY <1>3 DEF KillEnd, Keep, clockVars
  <2>2. RdyOK' /\ ClockStays
    BY <1>1, <2>1, QuietKeys
  <2>. QED
    BY <1>0, <2>2 DEF ClockStep, Ordered, RdyOK
<1>4. CASE pstate[p] = "PRREADY"
  <2>1. rdy' = Dequeue(freed.rdy, p) /\ qkey' = freed.qkey /\ UNCHANGED <<preempt, clockq>>
    BY <1>4 DEF KillEnd, Keep, clockVars
  <2>2. Sorted(rdy, qkey) /\ rdy \in Seq(Pid)
    BY SleeperFacts DEF Ordered, Keyed
  <2>3. Sorted(Dequeue(rdy, p), qkey)
    BY <1>0, <2>2, DequeueSorted
  <2>4. Sorted(rdy', qkey')
    BY <1>1, <2>1, <2>3 DEF Sorted
  <2>. QED
    BY <1>0, <1>1, <2>1, <2>4 DEF ClockStep, ClockStays, ClockBecomes, Ordered, Keyed, Sorted
<1>5. CASE pstate[p] \in {"PRSLEEP", "PRTRECV"}
  <2>1. rdy' = freed.rdy /\ qkey' = UnsleepKeys(p) /\ UNCHANGED preempt /\ clockq' = Dequeue(clockq, p)
    BY <1>5 DEF KillEnd, Keep, Unsleep
  <2>2. Keyed(rdy, UnsleepKeys(p)) /\ Contains(clockq, p)
    BY <1>0, <1>5, CancelKeys, SleeperFacts
  <2>3. Keyed(rdy', qkey')
    BY <1>1, <2>1, <2>2 DEF Keyed, Sorted
  <2>. QED
    BY <1>0, <1>1, <2>1, <2>2, <2>3 DEF ClockStep, ClockCancel, ClockBecomes, Ordered, Keyed, Sorted
<1>. QED
  BY <1>0, <1>2, <1>3, <1>4, <1>5, TablesQueued DEF States

\* The clock interrupt, wakeup(), and the preemption (clkint.S).
LEMMA KeyClockSteps ==
  ASSUME IInv, Ordered, Pointed, Tick \/ WakeupNext \/ WakeupEnd \/ Clpreem
  PROVE  Ordered' /\ ClockStep
<1>0. UNCHANGED pprio
  BY DEF Tick, WakeupNext, WakeupEnd, Clpreem, tableVars
<1>1. CASE Tick
  <2>1. CASE ~slnempty
    <3>1. UNCHANGED <<preempt, rdy, qkey, clockq>> /\ ~Running("wakeup")
      BY <1>1, <2>1 DEF Tick, clockVars, Running
    <3>2. RdyOK' /\ ClockStays
      BY <3>1, QuietKeys
    <3>. QED
      BY <1>0, <3>1, <3>2 DEF ClockStep, Ordered, RdyOK
  <2>2. CASE slnempty
    <3>1. /\ Running("user") /\ clockq # <<>> /\ sltop = Head(clockq)
          /\ UNCHANGED <<preempt, rdy, clockq, currpid>>
      BY <1>1, <2>2 DEF Tick, Pointed, Running, clockVars
    <3>2. PICK h : h = Head(clockq)
      OBVIOUS
    <3>3. qkey' = [qkey EXCEPT ![h] = qkey[h] - 1]
      BY <1>1, <2>2, <3>1, <3>2 DEF Tick
    <3>4. ~(qkey[h] - 1 > 0) => Leave(At("wakeup", 0, 0))
      BY <1>1, <2>2, <3>1, <3>2 DEF Tick
    <3>5. ~(qkey[h] - 1 > 0) => Running("wakeup")'
      BY <3>1, <3>4, LeaveFacts, AtFields DEF Running
    <3>6. h \in Pid /\ Contains(clockq, h)
      <4>1. 1 \in 1..Len(clockq) /\ h = clockq[1]
        BY <3>1, <3>2, SleeperFacts
      <4>. QED
        BY <4>1, SleeperFacts
    <3>7. rdy \in Seq(Pid) /\ Sorted(rdy, qkey) /\ qkey \in [Pid -> Int]
      BY SleeperFacts DEF Ordered, Keyed
    <3>8. qkey' \in [Pid -> Int] /\ \A r \in Pid : Contains(rdy, r) => qkey'[r] = qkey[r]
      <4>1. \A r \in Pid : Contains(rdy, r) => r # h
        BY <3>6, SleeperFacts
      <4>. QED
        BY <3>3, <3>6, <3>7, <4>1
    <3>9. Sorted(rdy, qkey')
      BY <3>7, <3>8, SortedSameKeys
    <3>10. Ordered'
      BY <1>0, <3>1, <3>8, <3>9 DEF Ordered, Keyed, Sorted
    <3>11. ClockBecomes(clockq, [qkey EXCEPT ![Head(clockq)] = @ - 1])
      BY <3>1, <3>2, <3>3, <3>6, <3>7 DEF ClockBecomes
    <3>. QED
      BY <3>1, <3>2, <3>5, <3>10, <3>11 DEF ClockStep
  <2>. QED
    BY <2>1, <2>2
<1>2. CASE WakeupNext
  <2>1. PICK h : h = Head(clockq)
    OBVIOUS
  <2>2. h \in Pid \ {NULLPROC} /\ pstate[h] \in {"PRSLEEP", "PRTRECV"}
    BY <1>2, <2>1, ClockMoves
  <2>3. /\ Keep(Ready(Tables, h)) /\ UNCHANGED <<preempt, frame>> /\ clockq' = Tail(clockq)
        /\ FirstIsDue /\ Running("wakeup")
    BY <1>2, <2>1 DEF WakeupNext
  <2>4. RdyOK' /\ \A r \in Pid : r # h => qkey'[r] = qkey[r]
    BY <2>2, <2>3, WakeLaterKeys
  <2>5. Running("wakeup")'
    BY <2>3 DEF Running, Keep
  <2>6. \A r \in Pid : Contains(Tail(clockq), r) => r # h
    <3>. PICK S : S = StateIs(pstate, {"PRSLEEP", "PRTRECV"})
      OBVIOUS
    <3>1. clockq \in Seq(Pid) /\ Holds(clockq, S) /\ clockq # <<>>
      BY <2>3, TablesQueued DEF ListsOK, FirstIsDue
    <3>2. Holds(Tail(clockq), S \ {h})
      BY <2>1, <3>1, TailHolds
    <3>. QED
      BY <3>2 DEF Holds
  <2>. QED
    BY <1>0, <2>3, <2>4, <2>5, <2>6 DEF ClockStep, ClockBecomes, Ordered, RdyOK
<1>3. CASE WakeupEnd
  <2>1. RdyOK' /\ ClockStays /\ ~FirstIsDue
    BY <1>3, ReschedKeys DEF WakeupEnd, Ordered
  <2>. QED
    BY <1>0, <2>1 DEF ClockStep, Ordered, RdyOK
<1>4. CASE Clpreem
  <2>1. ~Running("wakeup") /\ UNCHANGED clockq
    BY <1>4 DEF Clpreem, Running, clockVars
  <2>. PICK ticks : ticks = IF preempt > 0 THEN preempt - 1 ELSE 0
    OBVIOUS
  <2>2. ticks \in 0..QUANTUM
    BY QUANTUMAssumption DEF Ordered
  <2>3. CASE ticks > 0
    <3>1. preempt' = ticks /\ UNCHANGED <<rdy, qkey>>
      BY <1>4, <2>3 DEF Clpreem
    <3>. QED
      BY <1>0, <2>1, <2>2, <3>1 DEF ClockStep, ClockStays, ClockBecomes, Ordered, Keyed, Sorted
  <2>4. CASE ~(ticks > 0)
    <3>1. Resched(Tables, ticks)
      BY <1>4, <2>4 DEF Clpreem
    <3>2. RdyOK' /\ ClockStays
      BY <2>1, <2>2, <3>1, ReschedKeys
    <3>. QED
      BY <1>0, <2>1, <3>2 DEF ClockStep, Ordered, RdyOK
  <2>. QED
    BY <2>3, <2>4
<1>. QED
  BY <1>1, <1>2, <1>3, <1>4

\* Every step keeps the ready list in order.
LEMMA KeySteps ==
  ASSUME IInv, Ordered, Pointed, Next
  PROVE  Ordered' /\ ClockStep
BY KeyProcessCalls, KeySemaphoreSteps, KeyMessageSteps, KeyKillEnd, KeyClockSteps DEF Next, Continue

\* A step that changes nothing at all.
LEMMA KeyStutter ==
  ASSUME Ordered, UNCHANGED vars
  PROVE  Ordered'
BY DEF Ordered, Keyed, Sorted, vars, cpuVars, tableVars

\* The state main() starts in: the null process alone is ready.
LEMMA InitOrdered == Init => Ordered
<1>. SUFFICES ASSUME Init PROVE Ordered
  OBVIOUS
<1>1. pprio \in [Pid -> Nat]
  <2>1. pprio \in [Pid -> Prios \cup {0}]
    BY Zenon DEF Init
  <2>2. Prios \cup {0} \subseteq Nat
    BY PriosAssumption
  <2>. QED
    BY <2>1, <2>2
<1>2. preempt \in 0..QUANTUM
  BY QUANTUMAssumption DEF Init
<1>3. rdy = <<NULLPROC>> /\ qkey = [p \in Pid |-> 0]
  BY DEF Init
<1>4. Len(rdy) = 1
  BY <1>3
<1>. QED
  BY <1>1, <1>2, <1>3, <1>4 DEF Ordered, Keyed, Sorted

\* insert() searches from the head of the list: it is in order at all times,
\* although chprio() changes the priorities of those on it (insert.c:16).
THEOREM ReadyListAlwaysSorted == Spec => []ReadyListSorted
<1>1. IInv /\ Pointed /\ Ordered /\ [Next]_vars => Ordered'
  BY KeySteps, KeyStutter
<1>2. Ordered => ReadyListSorted
  BY DEF Ordered, Keyed, Sorted, ReadyListSorted
<1>. QED
  BY <1>1, <1>2, InitIInv, NextIInv, PointedInductive, InitOrdered, PTL DEF Spec

-------------------------------------------------------------------------------
(***************************************************************************)
(* Every variable keeps its type.                                          *)
(***************************************************************************)
Flags ==
  /\ slnempty \in BOOLEAN
  /\ sltop \in Pid
  /\ nextsem \in Sem
  /\ numproc \in Int

\* A step moves sltop to the head of a delta list that is not empty, if at all
\* (insertd.c, unsleep.c, wakeup.c).
PointerMoves ==
  /\ slnempty' \in {slnempty, TRUE, FALSE, clockq' # <<>>}
  /\ sltop' # sltop => clockq' # <<>> /\ sltop' = Head(clockq')

\* unsleep() moves it so.
LEMMA UnsleepPointer ==
  ASSUME NEW p, Unsleep(p)
  PROVE  PointerMoves
BY DEF Unsleep, PointerMoves

\* And so does going to sleep.
LEMMA SleepPointer ==
  ASSUME IInv, NEW k, NEW st, NEW f, SleepFor(k, st, f)
  PROVE  PointerMoves
<1>. PICK S : S = StateIs(pstate, {"PRSLEEP", "PRTRECV"})
  OBVIOUS
<1>1. clockq \in Seq(Pid) /\ Holds(clockq, S) /\ currpid \in Pid /\ currpid \notin S
  BY TablesQueued DEF ListsOK, StateIs
<1>2. clockq' = DeltaList(clockq, qkey, currpid, k)
  BY DEF SleepFor
<1>3. Holds(clockq', S \cup {currpid})
  BY <1>1, <1>2, DeltaListHolds
<1>4. clockq' # <<>>
  BY <1>1, <1>3 DEF Holds, Contains
<1>. QED
  BY <1>4 DEF SleepFor, PointerMoves

\* Every step leaves the flag and the pointer with their types.
LEMMA PointerSteps ==
  ASSUME IInv, Next
  PROVE  PointerMoves
<1>1. ASSUME UNCHANGED <<slnempty, sltop>> PROVE PointerMoves
  BY <1>1 DEF PointerMoves
<1>2. ASSUME NEW p, SendTo(p) PROVE PointerMoves
  BY <1>1, <1>2, UnsleepPointer DEF SendTo, clockVars
<1>3. CASE ProcessCall
  BY <1>1, <1>2, <1>3
     DEF ProcessCall, Create, CreateRefused, Resume, Suspend, Chprio, Setnok, Kill, clockVars
<1>4. CASE SemaphoreCall
  BY <1>1, <1>4 DEF SemaphoreCall, Screate, Wait, Signal, Sdelete, Signaln, Sreset, clockVars
<1>5. CASE MessageCall \/ SleepCall
  BY <1>1, <1>2, <1>5, SleepPointer
     DEF MessageCall, SleepCall, Send, Receive, Recvclr, Recvtim, Sleep, clockVars
<1>6. CASE KillEnd
  BY <1>1, <1>6, UnsleepPointer DEF KillEnd, clockVars
<1>7. CASE WakeupEnd
  BY <1>7 DEF WakeupEnd, PointerMoves
<1>8. CASE \/ Tick \/ SignalnNext \/ SignalnEnd \/ SresetNext \/ SresetEnd \/ SdeleteNext
           \/ SdeleteEnd \/ ReceiveEnd \/ RecvtimEnd \/ WakeupNext \/ Clpreem
  BY <1>1, <1>8
     DEF Tick, SignalnNext, SignalnEnd, SresetNext, SresetEnd, SdeleteNext, SdeleteEnd,
         ReceiveEnd, RecvtimEnd, WakeupNext, Clpreem, clockVars
<1>. QED
  BY <1>3, <1>4, <1>5, <1>6, <1>7, <1>8 DEF Next, Continue

\* The counters of create(), kill() and screate() stay in their ranges.
LEMMA CounterSteps ==
  ASSUME Flags, Next
  PROVE  nextsem' \in Sem /\ numproc' \in Int
<1>1. ASSUME UNCHANGED nextsem, numproc' \in {numproc, numproc + 1, numproc - 1}
      PROVE  nextsem' \in Sem /\ numproc' \in Int
  BY <1>1 DEF Flags
<1>2. ASSUME NEW c, Screate(c)
      PROVE  nextsem' \in Sem /\ numproc' \in Int
  <2>1. NSEM \in Nat \ {0} /\ nextsem \in 0..NSEM - 1 /\ FreeSlots(nextsem, NSEM, SemsInUse) # {}
    BY <1>2, NSEMAssumption DEF Flags, Sem, Screate
  <2>2. SlotAfter(FoundSlot(nextsem, NSEM, SemsInUse), 1, NSEM) \in 0..NSEM - 1
    BY <2>1, FoundInTable
  <2>. QED
    BY <1>2, <2>2 DEF Flags, Sem, Screate, tableVars
<1>3. CASE ProcessCall
  BY <1>1, <1>3
     DEF ProcessCall, Create, CreateRefused, Resume, Suspend, Chprio, Setnok, Kill, tableVars, semVars
<1>4. CASE SemaphoreCall
  BY <1>1, <1>2, <1>4 DEF SemaphoreCall, Wait, Signal, Sdelete, Signaln, Sreset, tableVars, semVars
<1>5. CASE MessageCall \/ SleepCall
  BY <1>1, <1>5
     DEF MessageCall, SleepCall, Send, Receive, Recvclr, Recvtim, Sleep, TakeMessage, tableVars, semVars
<1>6. CASE Tick \/ Continue
  BY <1>1, <1>6
     DEF Tick, Continue, KillEnd, SignalnNext, SignalnEnd, SresetNext, SresetEnd, SdeleteNext,
         SdeleteEnd, ReceiveEnd, RecvtimEnd, WakeupNext, WakeupEnd, Clpreem, TakeMessage,
         tableVars, semVars
<1>. QED
  BY <1>3, <1>4, <1>5, <1>6 DEF Next

\* The types that no other invariant gives.
LEMMA FlagsInductive ==
  /\ Init => Flags
  /\ IInv /\ Flags /\ [Next]_vars => Flags'
<1>1. ASSUME Init PROVE Flags
  <2>1. NULLPROC \in Pid /\ NSEM - 1 \in Sem
    BY PidFacts, NSEMAssumption DEF Sem
  <2>2. 1 + NBORN \in Int
    BY NBORNAssumption
  <2>. QED
    BY <1>1, <2>1, <2>2 DEF Init, Flags
<1>2. ASSUME IInv, Flags, Next PROVE Flags'
  <2>1. PointerMoves /\ nextsem' \in Sem /\ numproc' \in Int
    BY <1>2, PointerSteps, CounterSteps
  <2>2. clockq' \in Seq(Pid)
    BY <1>2, NextIInv DEF IInv, Blocked
  <2>3. slnempty' \in BOOLEAN
    BY <1>2, <2>1 DEF Flags, PointerMoves
  <2>4. sltop' \in Pid
    BY <1>2, <2>1, <2>2 DEF Flags, PointerMoves
  <2>. QED
    BY <2>1, <2>3, <2>4 DEF Flags
<1>3. IInv /\ Flags /\ [Next]_vars => Flags'
  BY <1>2 DEF vars, clockVars, semVars, tableVars, Flags
<1>. QED
  BY <1>1, <1>3

\* The tables of the kernel keep their types: every process and semaphore
\* number in them is one (proc.h, sem.h, q.h).
THEOREM TypesHold == Spec => []TypeOK
<1>1. IInv /\ Looping /\ Waiting /\ Mailboxes /\ Counting /\ Ordered /\ Flags => TypeOK
  BY DEF IInv, Dispatched, Blocked, Resumable, Looping, Waiting, Mailboxes, Counting, Ordered,
         Keyed, Flags, TypeOK
<1>2. IInv /\ Pointed /\ Ordered /\ [Next]_vars => Ordered'
  BY KeySteps, KeyStutter
<1>. QED
  BY <1>1, <1>2, InitIInv, NextIInv, LoopingInductive, WaitingInductive, MailboxesInductive,
     CountingInductive, PointedInductive, InitOrdered, FlagsInductive, PTL DEF Spec

-------------------------------------------------------------------------------
(***************************************************************************)
(* The deltas, entry by entry.                                             *)
(***************************************************************************)

\* `new' and `keys' are `list' and `key' with p put in at `at', `left' ticks
\* after the entry ahead of it.
PutIn(list, key, p, at, left, new, keys) ==
  /\ at \in 1..Len(list) + 1 /\ new \in Seq(Pid) /\ Len(new) = Len(list) + 1
  /\ new[at] = p /\ keys[new[at]] = left
  /\ \A j \in 1..Len(list) : j < at => new[j] = list[j] /\ keys[new[j]] = key[list[j]]
  /\ \A j \in 1..Len(list) : j >= at =>
       /\ new[j + 1] = list[j]
       /\ keys[new[j + 1]] = IF j = at THEN key[list[j]] - left ELSE key[list[j]]

\* `new' and `keys' are `list' and `key' with the entry at `at' taken out.
TakenOut(list, key, at, new, keys) ==
  /\ at \in 1..Len(list) /\ new \in Seq(Pid) /\ Len(new) = Len(list) - 1
  /\ \A j \in 1..Len(list) : j < at => new[j] = list[j] /\ keys[new[j]] = key[list[j]]
  /\ \A j \in 1..Len(list) : j > at =>
       /\ new[j - 1] = list[j]
       /\ keys[new[j - 1]] = IF j = at + 1 THEN key[list[j]] + key[list[at]] ELSE key[list[j]]

\* insertd() leaves the entries ahead of its process alone, and takes what its
\* process has left off the next one.
LEMMA SetEntries ==
  ASSUME NEW list \in Seq(Pid), NEW key \in [Pid -> Int], NEW k \in Int,
         \A i, j \in 1..Len(list) : list[i] = list[j] => i = j,
         NEW p \in Pid, ~Contains(list, p)
  PROVE  \E at, sum, left, new, keys :
           /\ new = DeltaList(list, key, p, k) /\ keys = DeltaKeys(list, key, p, k)
           /\ Falls(sum, list, key, k) /\ left = sum[at - 1] /\ left \in Int
           /\ k >= 0 => left >= 0
           /\ at <= Len(list) => key[list[at]] >= left
           /\ PutIn(list, key, p, at, left, new, keys)
<1>0. PICK new, keys, at, sum : /\ new = DeltaList(list, key, p, k)
                                /\ keys = DeltaKeys(list, key, p, k)
                                /\ at = DeltaPosition(list, key, k) /\ sum = Residue(list, key, k)
  OBVIOUS
<1>1. /\ at \in 1..Len(list) + 1 /\ Falls(sum, list, key, k) /\ sum[at - 1] \in Int
      /\ k >= 0 => sum[at - 1] >= 0
      /\ at <= Len(list) => key[list[at]] >= sum[at - 1]
  BY <1>0, DeltaPositionFacts
<1>. PICK left \in Int : left = sum[at - 1]
  BY <1>1
<1>2. new = InsertAt(list, at, p)
  BY <1>0 DEF DeltaList
<1>3. /\ new \in Seq(Pid) /\ Len(new) = Len(list) + 1
      /\ \A j \in 1..Len(list) + 1 :
           new[j] = IF j < at THEN list[j] ELSE IF j = at THEN p ELSE list[j - 1]
  <2>1. /\ InsertAt(list, at, p) \in Seq(Pid) /\ Len(InsertAt(list, at, p)) = Len(list) + 1
        /\ \A j \in 1..Len(list) + 1 :
             InsertAt(list, at, p)[j] = IF j < at THEN list[j] ELSE IF j = at THEN p ELSE list[j - 1]
    BY <1>1, InsertAtProperties
  <2>. QED
    BY <1>2, <2>1, Zenon
<1>4. /\ keys \in [Pid -> Int] /\ keys[p] = left
      /\ at <= Len(list) => list[at] \in Pid /\ keys[list[at]] = key[list[at]] - left
      /\ \A r \in Pid : r # p /\ (at <= Len(list) => r # list[at]) => keys[r] = key[r]
  BY <1>0, DeltaKeysFacts
<1>5. \A j \in 1..Len(list) : list[j] \in Pid /\ list[j] # p
  BY DEF Contains
<1>6. \A j \in 1..Len(list) : j # at => keys[list[j]] = key[list[j]]
  BY <1>1, <1>4, <1>5
<1>7. new[at] = p
  BY <1>1, <1>3
<1>8. ASSUME NEW j \in 1..Len(list), j < at PROVE new[j] = list[j]
  BY <1>3, <1>8
<1>9. ASSUME NEW j \in 1..Len(list), j >= at PROVE new[j + 1] = list[j]
  <2>1. PICK m \in 1..Len(list) + 1 : m = j + 1
    OBVIOUS
  <2>2. ~(m < at) /\ m # at /\ m - 1 = j
    BY <1>1, <1>9, <2>1
  <2>3. new[m] = list[m - 1]
    BY <1>3, <2>2
  <2>. QED
    BY <2>1, <2>2, <2>3
<1>10. \A j \in 1..Len(list) : j < at => new[j] = list[j] /\ keys[new[j]] = key[list[j]]
  BY <1>6, <1>8
<1>11. ASSUME NEW j \in 1..Len(list), j >= at
       PROVE  keys[new[j + 1]] = IF j = at THEN key[list[j]] - left ELSE key[list[j]]
  <2>1. new[j + 1] = list[j]
    BY <1>9, <1>11
  <2>2. CASE j = at
    BY <1>4, <2>1, <2>2
  <2>3. CASE j # at
    BY <1>6, <2>1, <2>3
  <2>. QED
    BY <2>2, <2>3
<1>12. \A j \in 1..Len(list) : j >= at =>
         /\ new[j + 1] = list[j]
         /\ keys[new[j + 1]] = IF j = at THEN key[list[j]] - left ELSE key[list[j]]
  BY <1>9, <1>11
<1>13. keys[new[at]] = left /\ new \in Seq(Pid)
  BY <1>3, <1>4, <1>7
<1>14. PutIn(list, key, p, at, left, new, keys)
  BY <1>1, <1>3, <1>7, <1>10, <1>12, <1>13 DEF PutIn
<1>. QED
  BY <1>0, <1>1, <1>14

\* unsleep() leaves the entries ahead of its process alone, and gives what it
\* had left to the next one (unsleep.c:29-31).
LEMMA CancelEntries ==
  ASSUME IInv, qkey \in [Pid -> Int], NEW p \in Pid, Contains(clockq, p)
  PROVE  \E at, new, keys :
           /\ new = Dequeue(clockq, p) /\ keys = UnsleepKeys(p) /\ clockq[at] = p
           /\ TakenOut(clockq, qkey, at, new, keys)
<1>0. PICK new, keys : new = Dequeue(clockq, p) /\ keys = UnsleepKeys(p)
  OBVIOUS
<1>. DEFINE places == {i \in 1..Len(clockq) : clockq[i] = p}  at == Min(places)
<1>1. places \in SUBSET Nat /\ places # {}
  BY DEF Contains
<1>2. at \in places
  <2>. HIDE DEF places
  <2>. QED
    BY <1>1, MinIsLeast
<1>3. new = RemoveAt(clockq, at)
  BY <1>0, <1>1 DEF Dequeue, RemoveFirst, SelectInSeq
<1>4. keys = IF at \in 1..Len(clockq) - 1 THEN [qkey EXCEPT ![clockq[at + 1]] = @ + qkey[p]] ELSE qkey
  BY <1>0, <1>1 DEF UnsleepKeys, SelectInSeq
<1>. HIDE DEF at, places
<1>5. at \in 1..Len(clockq) /\ clockq[at] = p /\ clockq \in Seq(Pid)
  BY <1>2, SleeperFacts DEF places
<1>6. /\ new \in Seq(Pid) /\ Len(new) = Len(clockq) - 1
      /\ \A j \in 1..Len(clockq) - 1 : new[j] = IF j < at THEN clockq[j] ELSE clockq[j + 1]
  BY <1>3, <1>5, RemoveAtProperties
<1>7. \A j \in 1..Len(clockq) : keys[clockq[j]] = IF j = at + 1 THEN qkey[clockq[j]] + qkey[p] ELSE qkey[clockq[j]]
  <2>1. \A i, j \in 1..Len(clockq) : /\ clockq[i] = clockq[j] => i = j
                                     /\ clockq[i] \in Pid
    BY SleeperFacts
  <2>2. CASE at \in 1..Len(clockq) - 1
    <3>1. at + 1 \in 1..Len(clockq) /\ clockq[at + 1] \in Pid
      BY <1>5, <2>1, <2>2
    <3>2. keys = [qkey EXCEPT ![clockq[at + 1]] = @ + qkey[p]]
      BY <1>4, <2>2
    <3>. QED
      BY <2>1, <3>1, <3>2
  <2>3. CASE at \notin 1..Len(clockq) - 1
    BY <1>4, <1>5, <2>3
  <2>. QED
    BY <2>2, <2>3
<1>8. ASSUME NEW j \in 1..Len(clockq), j < at PROVE new[j] = clockq[j]
  <2>1. j \in 1..Len(clockq) - 1
    BY <1>5, <1>8
  <2>. QED
    BY <1>6, <1>8, <2>1
<1>9. ASSUME NEW j \in 1..Len(clockq), j > at PROVE new[j - 1] = clockq[j]
  <2>1. j - 1 \in 1..Len(clockq) - 1 /\ ~(j - 1 < at) /\ j - 1 + 1 = j
    BY <1>5, <1>9
  <2>. QED
    BY <1>6, <2>1
<1>10. /\ \A j \in 1..Len(clockq) : j < at => new[j] = clockq[j] /\ keys[new[j]] = qkey[clockq[j]]
       /\ \A j \in 1..Len(clockq) : j > at =>
            /\ new[j - 1] = clockq[j]
            /\ keys[new[j - 1]] = IF j = at + 1 THEN qkey[clockq[j]] + qkey[p] ELSE qkey[clockq[j]]
  BY <1>5, <1>7, <1>8, <1>9
<1>11. TakenOut(clockq, qkey, at, new, keys)
  BY <1>5, <1>6, <1>10 DEF TakenOut
<1>. QED
  BY <1>0, <1>5, <1>11

-------------------------------------------------------------------------------
(***************************************************************************)
(* No delta is negative; only the head may be, by the tick that woke it.   *)
(***************************************************************************)
Deltas ==
  \A i \in 1..Len(clockq) : qkey[clockq[i]] >= IF Running("wakeup") /\ i = 1 THEN -1 ELSE 0

\* It is enough that none is.
LEMMA DeltasIfNone ==
  ASSUME qkey' \in [Pid -> Int], clockq' \in Seq(Pid),
         \A i \in 1..Len(clockq') : qkey'[clockq'[i]] >= 0
  PROVE  Deltas'
<1>1. \A i \in 1..Len(clockq') : qkey'[clockq'[i]] \in Int
  OBVIOUS
<1>. QED
  BY <1>1 DEF Deltas

\* Each step keeps the deltas so: insertd() takes no more off an entry than it
\* has, and the interrupt stops at the head (insertd.c:24, clkint.S:21-23).
LEMMA DeltasKept ==
  ASSUME IInv, Ordered, Deltas, ClockStep, IInv', Ordered'
  PROVE  Deltas'
<1>0. /\ clockq \in Seq(Pid) /\ qkey \in [Pid -> Int] /\ clockq' \in Seq(Pid) /\ qkey' \in [Pid -> Int]
      /\ \A i, j \in 1..Len(clockq) : clockq[i] = clockq[j] => i = j
      /\ \A i \in 1..Len(clockq) : clockq[i] \in Pid /\ Contains(clockq, clockq[i])
                                   /\ qkey[clockq[i]] \in Int
  BY SleeperFacts DEF Ordered, Keyed, IInv, Blocked
<1>1. ~Running("wakeup") => \A i \in 1..Len(clockq) : qkey[clockq[i]] >= 0
  BY DEF Deltas
<1>2. CASE ClockStays /\ (Running("wakeup") => ~FirstIsDue)
  <2>1. Running("wakeup") => \A i \in 1..Len(clockq) : qkey[clockq[i]] >= 0
    <3>1. ASSUME Running("wakeup"), NEW i \in 1..Len(clockq) PROVE qkey[clockq[i]] >= 0
      <4>1. CASE i = 1
        <5>1. Head(clockq) = clockq[1] /\ clockq # <<>>
          BY <1>0, <3>1
        <5>2. ~(qkey[Head(clockq)] <= 0)
          BY <1>2, <3>1, <5>1 DEF FirstIsDue
        <5>. QED
          BY <1>0, <3>1, <4>1, <5>1, <5>2
      <4>2. CASE i # 1
        BY <3>1, <4>2 DEF Deltas
      <4>. QED
        BY <4>1, <4>2
    <3>. QED
      BY <3>1
  <2>2. clockq' = clockq /\ \A i \in 1..Len(clockq) : qkey'[clockq[i]] = qkey[clockq[i]]
    BY <1>0, <1>2 DEF ClockStays, ClockBecomes
  <2>. QED
    BY <1>0, <1>1, <2>1, <2>2, DeltasIfNone
<1>3. ASSUME ~Running("wakeup"), NEW k \in Delays, ClockSet(k) PROVE Deltas'
  <2>1. k \in Nat /\ currpid \in Pid /\ ~Contains(clockq, currpid)
    BY DelaysAssumption, SleeperFacts, TablesQueued
  <2>2. k \in Int /\ k >= 0
    BY <2>1
  <2>3. PICK at, sum, left, new, keys :
           /\ new = DeltaList(clockq, qkey, currpid, k) /\ keys = DeltaKeys(clockq, qkey, currpid, k)
           /\ left \in Int /\ (k >= 0 => left >= 0)
           /\ at <= Len(clockq) => qkey[clockq[at]] >= left
           /\ PutIn(clockq, qkey, currpid, at, left, new, keys)
    BY <1>0, <2>1, <2>2, SetEntries
  <2>4. /\ at \in 1..Len(clockq) + 1 /\ new \in Seq(Pid) /\ Len(new) = Len(clockq) + 1
        /\ new[at] = currpid /\ keys[new[at]] = left
        /\ \A j \in 1..Len(clockq) : j < at => new[j] = clockq[j] /\ keys[new[j]] = qkey[clockq[j]]
        /\ \A j \in 1..Len(clockq) : j >= at =>
             /\ new[j + 1] = clockq[j]
             /\ keys[new[j + 1]] = IF j = at THEN qkey[clockq[j]] - left ELSE qkey[clockq[j]]
    BY <2>3 DEF PutIn
  <2>5. clockq' = new /\ \A i \in 1..Len(new) : qkey'[new[i]] = keys[new[i]]
    <3>1. \A i \in 1..Len(new) : new[i] \in Pid /\ Contains(new, new[i])
      BY <2>4 DEF Contains
    <3>. QED
      BY <1>3, <2>3, <3>1 DEF ClockSet, ClockBecomes
  <2>6. ASSUME NEW i \in 1..Len(new) PROVE keys[new[i]] >= 0
    <3>1. CASE i < at
      <4>1. i \in 1..Len(clockq)
        BY <2>4, <3>1
      <4>. QED
        BY <1>1, <1>3, <2>4, <3>1, <4>1
    <3>2. CASE i = at
      BY <2>2, <2>3, <2>4, <3>2
    <3>3. CASE i > at
      <4>1. PICK j \in 1..Len(clockq) : j + 1 = i /\ j >= at
        <5>1. i - 1 \in 1..Len(clockq) /\ i - 1 + 1 = i /\ i - 1 >= at
          BY <2>4, <3>3
        <5>. QED
          BY <5>1
      <4>2. qkey[clockq[j]] \in Int /\ qkey[clockq[j]] >= 0
        BY <1>0, <1>1, <1>3
      <4>. QED
        BY <2>3, <2>4, <4>1, <4>2
    <3>. QED
      BY <2>4, <3>1, <3>2, <3>3
  <2>. QED
    BY <1>0, <2>5, <2>6, DeltasIfNone
<1>4. ASSUME ~Running("wakeup"), NEW p \in Pid, ClockCancel(p) PROVE Deltas'
  <2>1. Contains(clockq, p)
    BY <1>4 DEF ClockCancel
  <2>2. PICK at, new, keys :
           /\ new = Dequeue(clockq, p) /\ keys = UnsleepKeys(p) /\ clockq[at] = p
           /\ TakenOut(clockq, qkey, at, new, keys)
    BY <1>0, <2>1, CancelEntries
  <2>3. /\ at \in 1..Len(clockq) /\ new \in Seq(Pid) /\ Len(new) = Len(clockq) - 1 /\ clockq[at] = p
        /\ \A j \in 1..Len(clockq) : j < at => new[j] = clockq[j] /\ keys[new[j]] = qkey[clockq[j]]
        /\ \A j \in 1..Len(clockq) : j > at =>
             /\ new[j - 1] = clockq[j]
             /\ keys[new[j - 1]] = IF j = at + 1 THEN qkey[clockq[j]] + qkey[p] ELSE qkey[clockq[j]]
    BY <2>2 DEF TakenOut
  <2>4. clockq' = new /\ \A i \in 1..Len(new) : qkey'[new[i]] = keys[new[i]]
    <3>1. \A i \in 1..Len(new) : new[i] \in Pid /\ Contains(new, new[i])
      BY <2>3 DEF Contains
    <3>. QED
      BY <1>4, <2>2, <3>1 DEF ClockCancel, ClockBecomes
  <2>5. ASSUME NEW i \in 1..Len(new) PROVE keys[new[i]] >= 0
    <3>1. CASE i < at
      <4>1. i \in 1..Len(clockq)
        BY <2>3, <3>1
      <4>. QED
        BY <1>1, <1>4, <2>3, <3>1, <4>1
    <3>2. CASE i >= at
      <4>1. PICK j \in 1..Len(clockq) : j - 1 = i /\ j > at
        <5>1. i + 1 \in 1..Len(clockq) /\ i + 1 - 1 = i /\ i + 1 > at
          BY <2>3, <3>2
        <5>. QED
          BY <5>1
      <4>2. qkey[clockq[j]] \in Int /\ qkey[clockq[j]] >= 0 /\ qkey[p] \in Int /\ qkey[p] >= 0
        BY <1>0, <1>1, <1>4, <2>3
      <4>. QED
        BY <2>3, <4>1, <4>2
    <3>. QED
      BY <2>3, <3>1, <3>2
  <2>. QED
    BY <1>0, <2>4, <2>5, DeltasIfNone
<1>5. ASSUME Running("user"), clockq # <<>>,
             ClockBecomes(clockq, [qkey EXCEPT ![Head(clockq)] = @ - 1]),
             ~(qkey[Head(clockq)] - 1 > 0) => Running("wakeup")'
      PROVE  Deltas'
  <2>1. PICK h : h = Head(clockq)
    OBVIOUS
  <2>2. 1 \in 1..Len(clockq) /\ h = clockq[1] /\ h \in Pid /\ qkey[h] \in Int /\ qkey[h] >= 0
    <3>1. 1 \in 1..Len(clockq) /\ h = clockq[1]
      BY <1>0, <1>5, <2>1
    <3>. QED
      BY <1>0, <1>1, <1>5, <3>1 DEF Running
  <2>3. /\ clockq' = clockq
        /\ \A i \in 1..Len(clockq) : qkey'[clockq[i]] = IF i = 1 THEN qkey[h] - 1 ELSE qkey[clockq[i]]
    <3>1. \A i \in 1..Len(clockq) : qkey'[clockq[i]] = [qkey EXCEPT ![h] = qkey[h] - 1][clockq[i]]
      BY <1>0, <1>5, <2>1, <2>2 DEF ClockBecomes
    <3>. QED
      BY <1>0, <1>5, <2>2, <3>1 DEF ClockBecomes
  <2>4. \A i \in 1..Len(clockq) : i # 1 => qkey[clockq[i]] >= 0
    BY <1>1, <1>5 DEF Running
  <2>5. qkey[h] - 1 >= 0 \/ (Running("wakeup")' /\ qkey[h] - 1 >= -1)
    BY <1>5, <2>1, <2>2
  <2>. QED
    BY <1>0, <2>2, <2>3, <2>4, <2>5 DEF Deltas
<1>6. ASSUME Running("wakeup"), FirstIsDue, ClockBecomes(Tail(clockq), qkey) PROVE Deltas'
  <2>1. /\ Len(clockq) >= 1 /\ Len(clockq') = Len(clockq) - 1
        /\ \A i \in 1..Len(clockq') : clockq'[i] = clockq[i + 1]
    <3>1. clockq # <<>> /\ clockq' = Tail(clockq)
      BY <1>6 DEF FirstIsDue, ClockBecomes
    <3>. QED
      BY <1>0, <3>1, HeadTailProperties
  <2>2. \A i \in 1..Len(clockq') : qkey'[clockq'[i]] = qkey[clockq'[i]]
    <3>1. \A i \in 1..Len(clockq') : clockq'[i] \in Pid /\ Contains(clockq', clockq'[i])
      BY <1>0 DEF Contains
    <3>. QED
      BY <1>6, <3>1 DEF ClockBecomes
  <2>3. \A i \in 1..Len(clockq') : qkey'[clockq'[i]] >= 0
    <3>1. ASSUME NEW i \in 1..Len(clockq') PROVE qkey'[clockq'[i]] >= 0
      <4>1. i + 1 \in 1..Len(clockq) /\ i + 1 # 1
        BY <2>1
      <4>. QED
        BY <2>1, <2>2, <4>1 DEF Deltas
    <3>. QED
      BY <3>1
  <2>. QED
    BY <1>0, <2>3, DeltasIfNone
<1>. QED
  BY <1>2, <1>3, <1>4, <1>5, <1>6 DEF ClockStep

\* Every step keeps the deltas, and the kernel starts without any.
LEMMA DeltasInductive ==
  /\ Init => Deltas
  /\ IInv /\ Pointed /\ Ordered /\ Deltas /\ [Next]_vars => Deltas'
<1>1. ASSUME Init PROVE Deltas
  <2>1. clockq = <<>>
    BY <1>1 DEF Init
  <2>. QED
    BY <2>1 DEF Deltas
<1>2. ASSUME IInv, Pointed, Ordered, Deltas, Next PROVE Deltas'
  <2>1. ClockStep /\ Ordered' /\ IInv'
    BY <1>2, KeySteps, NextIInv
  <2>. QED
    BY <1>2, <2>1, DeltasKept
<1>3. ASSUME Deltas, UNCHANGED vars PROVE Deltas'
  BY <1>3 DEF vars, cpuVars, tableVars, clockVars, Deltas, Running
<1>. QED
  BY <1>1, <1>2, <1>3

\* When the clock interrupt can come no delta is below 0: what it takes off
\* the head never holds up those behind it (clkint.S:21, wakeup.c:18).
THEOREM DeltasNeverNegative == Spec => []DeltasNotNegative
<1>1. IInv /\ Pointed /\ Ordered /\ [Next]_vars => Ordered'
  BY KeySteps, KeyStutter
<1>2. Deltas => DeltasNotNegative
  BY DEF Deltas, DeltasNotNegative, Running
<1>. QED
  BY <1>1, <1>2, InitIInv, NextIInv, PointedInductive, InitOrdered, DeltasInductive, PTL DEF Spec

-------------------------------------------------------------------------------
(***************************************************************************)
(* The delta list keeps the alarms of Alarms: what each sleeper has left   *)
(* is minus what is left of 0 ticks at its place.                          *)
(***************************************************************************)
Distinct(list) == \A i, j \in 1..Len(list) : list[i] = list[j] => i = j

\* `times' has what those on `list' have left, as `sum' counts it.
Gives(times, list, sum) ==
  /\ \E on : /\ times = [p \in on |-> times[p]]
             /\ \A p : p \in on <=> p \in Pid /\ Contains(list, p)
  /\ \A i \in 1..Len(list) : times[list[i]] = -sum[i]

Shows(times, list, key, sum) ==
  /\ list \in Seq(Pid) /\ key \in [Pid -> Int] /\ Distinct(list)
  /\ Falls(sum, list, key, 0) /\ Gives(times, list, sum)

\* Remaining counts what the sleepers have left (insertd.c:16).
LEMMA TimesShow ==
  ASSUME NEW list \in Seq(Pid), NEW key \in [Pid -> Int], Distinct(list),
         NEW times,
         times = [p \in ToSet(list) |->
                    -Residue(list, key, 0)[SelectInSeq(list, LAMBDA r : r = p)]]
  PROVE  \E sum : Shows(times, list, key, sum)
<1>. PICK sum : sum = Residue(list, key, 0)
  OBVIOUS
<1>1. Falls(sum, list, key, 0)
  BY ResidueFalls
<1>2. ASSUME NEW i \in 1..Len(list)
      PROVE  list[i] \in ToSet(list) /\ SelectInSeq(list, LAMBDA r : r = list[i]) = i
  <2>. DEFINE places == {j \in 1..Len(list) : list[j] = list[i]}
  <2>1. places \in SUBSET Nat /\ places # {}
    OBVIOUS
  <2>2. Min(places) \in places
    <3>. HIDE DEF places
    <3>. QED
      BY <2>1, MinIsLeast
  <2>3. SelectInSeq(list, LAMBDA r : r = list[i]) = Min(places)
    BY <2>1 DEF SelectInSeq
  <2>4. Min(places) = i
    <3>. PICK m : m = Min(places)
      OBVIOUS
    <3>. QED
      BY <2>2 DEF Distinct
  <2>5. list[i] \in ToSet(list)
    BY DEF ToSet
  <2>. QED
    BY <2>3, <2>4, <2>5
<1>3. \A i \in 1..Len(list) : times[list[i]] = -sum[i]
  BY <1>2
<1>4. \A p : p \in ToSet(list) <=> p \in Pid /\ Contains(list, p)
  BY SMTT(30) DEF ToSet, Contains
<1>5. times = [p \in ToSet(list) |-> times[p]]
  BY Zenon
<1>. QED
  BY <1>1, <1>3, <1>4, <1>5 DEF Shows, Gives

\* What the entries of a list have left is all there is to its times.
LEMMA TimesAre ==
  ASSUME NEW list, NEW key, NEW sum, NEW times, Shows(times, list, key, sum),
         NEW want, Gives(want, list, sum)
  PROVE  times = want
<1>1. PICK at : times = [p \in at |-> times[p]] /\ \A p : p \in at <=> p \in Pid /\ Contains(list, p)
  BY DEF Shows, Gives
<1>0. PICK on : want = [p \in on |-> want[p]] /\ \A p : p \in on <=> p \in Pid /\ Contains(list, p)
  BY DEF Gives
<1>2. at = on
  BY <1>0, <1>1
<1>3. \A p \in on : times[p] = want[p]
  BY <1>0 DEF Shows, Gives, Contains
<1>. QED
  BY <1>0, <1>1, <1>2, <1>3

\* The shape of the counts and of the times.
Counted(times, list, key, sum) ==
  /\ list \in Seq(Pid) /\ key \in [Pid -> Int]
  /\ sum \in [0..Len(list) -> Int] /\ sum[0] = 0
  /\ \A i \in 1..Len(list) : /\ list[i] \in Pid /\ Contains(list, list[i])
                             /\ key[list[i]] \in Int
                             /\ sum[i] \in Int /\ sum[i - 1] \in Int
                             /\ sum[i] = sum[i - 1] - key[list[i]]
                             /\ sum[i] - sum[i - 1] = -key[list[i]]
                             /\ times[list[i]] = -sum[i]
  /\ \A p : p \in DOMAIN times <=> p \in Pid /\ Contains(list, p)
  /\ times = [p \in DOMAIN times |-> times[p]]

\* What counting them off gives.
LEMMA ShownFacts ==
  ASSUME NEW list, NEW key, NEW sum, NEW times, Shows(times, list, key, sum)
  PROVE  Counted(times, list, key, sum)
<1>1. /\ list \in Seq(Pid) /\ key \in [Pid -> Int]
      /\ sum \in [0..Len(list) -> Int] /\ sum[0] = 0
      /\ \A i \in 1..Len(list) : sum[i] = sum[i - 1] - key[list[i]] /\ times[list[i]] = -sum[i]
  BY DEF Shows, Gives, Falls
<1>2. ASSUME NEW i \in 1..Len(list)
      PROVE  /\ list[i] \in Pid /\ Contains(list, list[i]) /\ key[list[i]] \in Int
             /\ sum[i] \in Int /\ sum[i - 1] \in Int
  <2>1. i \in 0..Len(list) /\ i - 1 \in 0..Len(list)
    BY <1>1
  <2>. QED
    BY <1>1, <2>1 DEF Contains
<1>3. \A i \in 1..Len(list) : sum[i] - sum[i - 1] = -key[list[i]]
  BY <1>1, <1>2
<1>4. PICK on : times = [p \in on |-> times[p]] /\ \A p : p \in on <=> p \in Pid /\ Contains(list, p)
  BY DEF Shows, Gives
<1>5. on = DOMAIN times
  BY <1>4
<1>. QED
  BY <1>1, <1>2, <1>3, <1>4, <1>5 DEF Counted

\* A step that leaves the delta list alone leaves everybody what it had left.
LEMMA TimesStay ==
  ASSUME NEW list, NEW key, NEW keys, NEW sum, NEW sum2, NEW times, NEW times2,
         Shows(times, list, key, sum), Shows(times2, list, keys, sum2),
         \A i \in 1..Len(list) : keys[list[i]] = key[list[i]]
  PROVE  times2 = times
<1>1. /\ list \in Seq(Pid) /\ sum \in [0..Len(list) -> Int] /\ sum[0] = 0
      /\ \A i \in 1..Len(list) : sum[i] - sum[i - 1] = -key[list[i]] /\ times[list[i]] = -sum[i]
      /\ times = [p \in DOMAIN times |-> times[p]]
      /\ \A p : p \in DOMAIN times <=> p \in Pid /\ Contains(list, p)
  BY ShownFacts DEF Counted
<1>2. /\ sum2 \in [0..Len(list) -> Int] /\ sum2[0] = 0
      /\ \A i \in 1..Len(list) : sum2[i] - sum2[i - 1] = -keys[list[i]]
  BY ShownFacts DEF Counted
<1>3. \A i \in 0..Len(list) : sum2[i] = sum[i + 0] + 0
  <2>1. /\ Len(list) \in Nat
        /\ \A i \in 0..Len(list) : sum2[i] \in Int /\ sum[i + 0] \in Int
        /\ 0 <= Len(list) => sum2[0] = sum[0 + 0] + 0
    BY <1>1, <1>2
  <2>2. \A i \in 0 + 1..Len(list) : sum2[i] - sum2[i - 1] = sum[i + 0] - sum[i + 0 - 1]
    BY <1>1, <1>2
  <2>3. Alike(0, Len(list), 0, 0, sum2, sum)
    BY <2>1, <2>2 DEF Alike
  <2>. QED
    BY <2>3, SameSteps
<1>4. \A i \in 1..Len(list) : times[list[i]] = -sum2[i]
  <2>1. ASSUME NEW i \in 1..Len(list) PROVE sum2[i] = sum[i]
    <3>1. i \in 0..Len(list) /\ i + 0 = i /\ sum[i] \in Int
      BY <1>1
    <3>. QED
      BY <1>3, <3>1
  <2>. QED
    BY <1>1, <2>1
<1>5. Gives(times, list, sum2)
  BY <1>1, <1>4 DEF Gives
<1>. QED
  BY <1>5, TimesAre

\* A tick takes one from everybody: the deltas are counted from the head
\* (clkint.S:21).
LEMMA TimesAdvance ==
  ASSUME NEW list, NEW key, NEW keys, NEW sum, NEW sum2, NEW times, NEW times2,
         Shows(times, list, key, sum), Shows(times2, list, keys, sum2), Len(list) >= 1,
         \A i \in 1..Len(list) : keys[list[i]] = IF i = 1 THEN key[list[i]] - 1 ELSE key[list[i]],
         \A i \in 1..Len(list) : key[list[i]] >= 0
  PROVE  /\ \A p \in DOMAIN times : times[p] >= 0
         /\ times2 = [p \in DOMAIN times |-> times[p] - 1]
<1>b. Counted(times, list, key, sum) /\ Counted(times2, list, keys, sum2)
  BY ShownFacts
<1>1. /\ list \in Seq(Pid) /\ sum \in [0..Len(list) -> Int] /\ sum[0] = 0
      /\ \A i \in 1..Len(list) : /\ sum[i] - sum[i - 1] = -key[list[i]]
                                 /\ sum[i] = sum[i - 1] - key[list[i]]
                                 /\ sum[i] \in Int /\ sum[i - 1] \in Int /\ key[list[i]] \in Int
                                 /\ times[list[i]] = -sum[i]
      /\ \A p : p \in DOMAIN times <=> p \in Pid /\ Contains(list, p)
  BY <1>b DEF Counted
<1>2. /\ sum2 \in [0..Len(list) -> Int] /\ sum2[0] = 0
      /\ \A i \in 1..Len(list) : sum2[i] - sum2[i - 1] = -keys[list[i]] /\ sum2[i] \in Int
  BY <1>b DEF Counted
<1>3. PICK n \in Nat : n = Len(list) /\ n >= 1
  <2>1. Len(list) \in Nat /\ Len(list) >= 1
    BY <1>1
  <2>. QED
    BY <2>1
<1>4. \A i \in 1..n : sum2[i] = sum[i + 0] + 1
  <2>1. \A i \in 1..n : sum2[i] \in Int /\ sum[i + 0] \in Int
    BY <1>1, <1>2, <1>3
  <2>2. sum2[1] = sum[1 + 0] + 1
    <3>1. 1 \in 1..Len(list)
      BY <1>3
    <3>2. /\ sum[1] - sum[1 - 1] = -key[list[1]] /\ key[list[1]] \in Int /\ sum[1] \in Int
          /\ sum2[1] - sum2[1 - 1] = -keys[list[1]] /\ keys[list[1]] = key[list[1]] - 1
          /\ sum2[1] \in Int
      BY <1>1, <1>2, <3>1
    <3>. QED
      BY <1>1, <1>2, <3>2
  <2>3. ASSUME NEW i \in 1 + 1..n PROVE sum2[i] - sum2[i - 1] = sum[i + 0] - sum[i + 0 - 1]
    <3>1. i \in 1..Len(list) /\ i # 1 /\ i + 0 = i
      BY <1>3
    <3>2. keys[list[i]] = key[list[i]]
      BY <3>1
    <3>3. sum2[i] - sum2[i - 1] = -keys[list[i]] /\ sum[i] - sum[i - 1] = -key[list[i]]
      BY <1>1, <1>2, <3>1
    <3>. QED
      BY <3>1, <3>2, <3>3
  <2>4. Alike(1, n, 0, 1, sum2, sum)
    BY <2>1, <2>2, <2>3 DEF Alike
  <2>. QED
    BY <2>4, SameSteps
<1>5. \A i \in 1..n : sum[i] <= 0
  <2>. DEFINE up == {i \in 1..n : ~(sum[i] <= 0)}
  <2>. SUFFICES ASSUME up # {} PROVE FALSE
    OBVIOUS
  <2>1. up \in SUBSET Nat
    OBVIOUS
  <2>2. PICK i \in up : \A j \in up : i <= j
    <3>. HIDE DEF up
    <3>. QED
      BY <2>1, MinIsLeast
  <2>3. i \in 1..Len(list) /\ ~(sum[i] <= 0)
    BY <1>3, <2>2
  <2>4. /\ sum[i] = sum[i - 1] - key[list[i]] /\ key[list[i]] >= 0
        /\ key[list[i]] \in Int /\ sum[i - 1] \in Int
    BY <1>1, <2>3
  <2>5. CASE i = 1
    BY <1>1, <2>3, <2>4, <2>5
  <2>6. CASE i # 1
    <3>1. i - 1 \in 1..n /\ i - 1 < i /\ ~(i <= i - 1)
      BY <1>3, <2>3, <2>6
    <3>2. sum[i - 1] <= 0
      BY <2>2, <3>1
    <3>. QED
      BY <2>3, <2>4, <3>2
  <2>. QED
    BY <2>5, <2>6
<1>6. ASSUME NEW p \in DOMAIN times PROVE times[p] >= 0
  <2>1. PICK i \in 1..Len(list) : list[i] = p
    BY <1>1 DEF Contains
  <2>2. times[p] = -sum[i] /\ sum[i] \in Int /\ sum[i] <= 0
    BY <1>1, <1>3, <1>5, <2>1
  <2>. QED
    BY <2>2
<1>0. PICK on, want : on = DOMAIN times /\ want = [p \in on |-> times[p] - 1]
  OBVIOUS
<1>7. ASSUME NEW i \in 1..Len(list) PROVE want[list[i]] = -sum2[i]
  <2>1. i \in 1..n /\ i + 0 = i
    BY <1>3
  <2>2. sum2[i] = sum[i] + 1 /\ sum[i] \in Int
    BY <1>1, <1>4, <2>1
  <2>3. list[i] \in on
    BY <1>0, <1>b DEF Counted
  <2>4. times[list[i]] = -sum[i]
    BY <1>1
  <2>. QED
    BY <1>0, <2>2, <2>3, <2>4
<1>8. want = [p \in on |-> want[p]] /\ \A p : p \in on <=> p \in Pid /\ Contains(list, p)
  BY <1>0, <1>1
<1>9. times2 = want
  <2>1. Gives(want, list, sum2)
    BY <1>7, <1>8 DEF Gives
  <2>. QED
    BY <2>1, TimesAre
<1>. QED
  BY <1>0, <1>6, <1>9

\* `new' is `list' without its head.
Popped(list, new, key, keys) ==
  /\ Len(list) = Len(new) + 1
  /\ \A i \in 1..Len(new) : new[i] = list[i + 1] /\ keys[new[i]] = key[new[i]]

\* The head goes off; those behind it gain what it was overdue, if anything
\* (wakeup.c:18-19).
LEMMA TimesExpire ==
  ASSUME NEW list, NEW new, NEW key, NEW keys, NEW sum, NEW sum2, NEW times, NEW times2,
         Shows(times, list, key, sum), Shows(times2, new, keys, sum2),
         Popped(list, new, key, keys)
  PROVE  \E h : /\ h = list[1] /\ h \in DOMAIN times /\ times[h] = key[h]
                /\ times2 = [p \in DOMAIN times \ {h} |-> times[p] + -times[h]]
<1>h. PICK h : h = list[1]
  OBVIOUS
<1>b. Counted(times, list, key, sum) /\ Counted(times2, new, keys, sum2)
  BY ShownFacts
<1>1. /\ list \in Seq(Pid) /\ sum \in [0..Len(list) -> Int] /\ sum[0] = 0
      /\ \A i \in 1..Len(list) : /\ sum[i] - sum[i - 1] = -key[list[i]]
                                 /\ sum[i] = sum[i - 1] - key[list[i]]
                                 /\ sum[i] \in Int /\ sum[i - 1] \in Int /\ key[list[i]] \in Int
                                 /\ times[list[i]] = -sum[i]
      /\ \A p : p \in DOMAIN times <=> p \in Pid /\ Contains(list, p)
  BY <1>b DEF Counted
<1>2. /\ sum2 \in [0..Len(new) -> Int] /\ sum2[0] = 0
      /\ \A i \in 1..Len(new) : sum2[i] - sum2[i - 1] = -keys[new[i]] /\ sum2[i] \in Int
  BY <1>b DEF Counted
<1>3. PICK n \in Nat : /\ n = Len(new) /\ Len(list) = n + 1
                       /\ \A i \in 1..n : new[i] = list[i + 1]
                       /\ h = list[1] /\ 1 \in 1..Len(list)
                       /\ \A i \in 1..n : keys[new[i]] = key[new[i]]
  <2>1. Len(new) \in Nat
    BY <1>b DEF Counted
  <2>. QED
    BY <1>h, <2>1 DEF Popped
<1>4. /\ key[h] \in Int /\ sum[1] = -key[h] /\ times[h] = key[h] /\ h \in DOMAIN times
  <2>1. /\ sum[1] = sum[1 - 1] - key[h] /\ key[h] \in Int /\ times[h] = -sum[1]
        /\ h \in Pid /\ Contains(list, h)
    BY <1>1, <1>3 DEF Contains
  <2>. QED
    BY <1>1, <2>1
<1>5. \A i \in 0..n : sum2[i] = sum[i + 1] + key[h]
  <2>1. \A i \in 0..n : sum2[i] \in Int /\ sum[i + 1] \in Int
    BY <1>1, <1>2, <1>3
  <2>2. sum2[0] = sum[0 + 1] + key[h]
    BY <1>2, <1>4
  <2>3. ASSUME NEW i \in 0 + 1..n PROVE sum2[i] - sum2[i - 1] = sum[i + 1] - sum[i + 1 - 1]
    <3>1. i \in 1..Len(new) /\ i + 1 \in 1..Len(list) /\ keys[new[i]] = key[list[i + 1]]
      BY <1>3
    <3>2. sum2[i] - sum2[i - 1] = -keys[new[i]]
      BY <1>2, <3>1
    <3>3. sum[i + 1] - sum[i + 1 - 1] = -key[list[i + 1]]
      <4>1. PICK j \in 1..Len(list) : j = i + 1
        BY <3>1
      <4>2. sum[j] - sum[j - 1] = -key[list[j]]
        BY <1>1
      <4>. QED
        BY <4>1, <4>2
    <3>. QED
      BY <3>1, <3>2, <3>3
  <2>4. Alike(0, n, 1, key[h], sum2, sum)
    BY <1>4, <2>1, <2>2, <2>3 DEF Alike
  <2>. QED
    BY <2>4, SameSteps
<1>6. \A p : p \in DOMAIN times \ {h} <=> p \in Pid /\ Contains(new, p)
  <2>1. ASSUME NEW p, p \in DOMAIN times, p # h PROVE p \in Pid /\ Contains(new, p)
    <3>1. PICK i \in 1..Len(list) : list[i] = p
      BY <1>1, <2>1 DEF Contains
    <3>2. PICK j \in 1..n : j + 1 = i
      <4>1. i - 1 \in 1..n /\ i - 1 + 1 = i
        BY <1>3, <2>1, <3>1
      <4>. QED
        BY <4>1
    <3>3. j \in 1..Len(new) /\ new[j] = p
      BY <1>3, <3>1, <3>2
    <3>. QED
      BY <1>1, <2>1, <3>3 DEF Contains
  <2>2. ASSUME NEW p, p \in Pid, Contains(new, p) PROVE p \in DOMAIN times /\ p # h
    <3>1. PICK i \in 1..Len(new) : new[i] = p
      BY <2>2 DEF Contains
    <3>2. i + 1 \in 1..Len(list) /\ list[i + 1] = p /\ i + 1 # 1
      BY <1>3, <3>1
    <3>3. \A a, b \in 1..Len(list) : list[a] = list[b] => a = b
      BY DEF Shows, Distinct
    <3>4. p # h
      BY <1>3, <3>2, <3>3
    <3>5. Contains(list, p)
      BY <3>2 DEF Contains
    <3>. QED
      BY <1>1, <2>2, <3>4, <3>5
  <2>. QED
    BY <2>1, <2>2
<1>a. PICK on, want : on = DOMAIN times \ {h} /\ want = [p \in on |-> times[p] + -times[h]]
  OBVIOUS
<1>7. ASSUME NEW i \in 1..Len(new) PROVE want[new[i]] = -sum2[i]
  <2>1. i \in 0..n /\ i + 1 \in 1..Len(list) /\ new[i] = list[i + 1]
    BY <1>3
  <2>2. sum2[i] = sum[i + 1] + key[h] /\ sum[i + 1] \in Int /\ times[new[i]] = -sum[i + 1]
    BY <1>1, <1>5, <2>1
  <2>3. new[i] \in on
    BY <1>a, <1>6, <1>b DEF Counted
  <2>. QED
    BY <1>a, <1>4, <2>2, <2>3
<1>8. want = [p \in on |-> want[p]] /\ \A p : p \in on <=> p \in Pid /\ Contains(new, p)
  BY <1>a, <1>6
<1>9. times2 = want
  <2>1. Gives(want, new, sum2)
    BY <1>7, <1>8 DEF Gives
  <2>. QED
    BY <2>1, TimesAre
<1>. QED
  BY <1>a, <1>h, <1>4, <1>9

\* A process that goes to sleep has k ticks left, and nobody else's time
\* changes (insertd.c:14-26).
LEMMA TimesSet ==
  ASSUME NEW list, NEW new, NEW key, NEW keys, NEW sum, NEW sum2, NEW times, NEW times2,
         Shows(times, list, key, sum), Shows(times2, new, keys, sum2),
         NEW p \in Pid, ~Contains(list, p), NEW k \in Int, NEW at, NEW from,
         Falls(from, list, key, k), PutIn(list, key, p, at, from[at - 1], new, keys)
  PROVE  /\ p \notin DOMAIN times
         /\ times2 = [r \in DOMAIN times \cup {p} |-> IF r = p THEN k ELSE times[r]]
<1>a. PICK left : left = from[at - 1]
  OBVIOUS
<1>b. Counted(times, list, key, sum) /\ Counted(times2, new, keys, sum2)
  BY ShownFacts
<1>1. /\ list \in Seq(Pid) /\ sum \in [0..Len(list) -> Int] /\ sum[0] = 0
      /\ \A i \in 1..Len(list) : /\ sum[i] - sum[i - 1] = -key[list[i]]
                                 /\ sum[i] \in Int /\ sum[i - 1] \in Int /\ key[list[i]] \in Int
                                 /\ times[list[i]] = -sum[i]
      /\ \A r : r \in DOMAIN times <=> r \in Pid /\ Contains(list, r)
  BY <1>b DEF Counted
<1>2. /\ new \in Seq(Pid) /\ sum2 \in [0..Len(new) -> Int] /\ sum2[0] = 0
      /\ \A i \in 1..Len(new) : /\ sum2[i] - sum2[i - 1] = -keys[new[i]]
                                /\ sum2[i] \in Int /\ sum2[i - 1] \in Int
      /\ \A r : r \in DOMAIN times2 <=> r \in Pid /\ Contains(new, r)
  BY <1>b DEF Counted
<1>3. PICK n \in Nat : n = Len(list) /\ at \in 1..n + 1 /\ Len(new) = n + 1
  BY <1>1 DEF PutIn
<1>4. /\ new[at] = p /\ keys[new[at]] = left
      /\ \A j \in 1..n : j < at => new[j] = list[j] /\ keys[new[j]] = key[list[j]]
      /\ \A j \in 1..n : j >= at =>
           /\ new[j + 1] = list[j]
           /\ keys[new[j + 1]] = IF j = at THEN key[list[j]] - left ELSE key[list[j]]
  BY <1>a, <1>3 DEF PutIn
<1>5. /\ from \in [0..n -> Int] /\ from[0] = k
      /\ \A i \in 1..n : from[i] = from[i - 1] - key[list[i]]
  BY <1>3 DEF Falls
<1>6. left = sum[at - 1] + k
  <2>1. ASSUME NEW i \in 0..n PROVE from[i] \in Int /\ sum[i + 0] \in Int
    <3>1. i + 0 = i /\ sum[i] \in Int
      BY <1>1, <1>3
    <3>. QED
      BY <1>5, <3>1
  <2>2. from[0] = sum[0 + 0] + k
    BY <1>1, <1>5
  <2>3. ASSUME NEW i \in 0 + 1..n PROVE from[i] - from[i - 1] = sum[i + 0] - sum[i + 0 - 1]
    <3>1. i \in 1..n /\ i - 1 \in 0..n /\ i + 0 = i
      OBVIOUS
    <3>2. from[i] = from[i - 1] - key[list[i]] /\ from[i - 1] \in Int /\ key[list[i]] \in Int
      BY <1>1, <1>3, <1>5, <3>1
    <3>3. sum[i] = sum[i - 1] - key[list[i]] /\ sum[i - 1] \in Int
      <4>1. i \in 1..Len(list)
        BY <1>3, <3>1
      <4>2. /\ sum[i] - sum[i - 1] = -key[list[i]]
            /\ sum[i] \in Int /\ sum[i - 1] \in Int /\ key[list[i]] \in Int
        BY <1>1, <4>1
      <4>. QED
        BY <4>2
    <3>4. from[i] - from[i - 1] = sum[i] - sum[i - 1]
      BY <3>2, <3>3
    <3>5. i + 0 - 1 = i - 1
      OBVIOUS
    <3>. QED
      BY <3>1, <3>4, <3>5
  <2>4. Alike(0, n, 0, k, from, sum)
    BY <2>1, <2>2, <2>3 DEF Alike
  <2>5. \A i \in 0..n : from[i] = sum[i + 0] + k
    BY <2>4, SameSteps
  <2>6. at - 1 \in 0..n /\ at - 1 + 0 = at - 1
    BY <1>3
  <2>. QED
    BY <1>a, <2>5, <2>6
<1>7. \A i \in 0..at - 1 : sum2[i] = sum[i + 0] + 0
  <2>1. \A i \in 0..at - 1 : sum2[i] \in Int /\ sum[i + 0] \in Int
    BY <1>1, <1>2, <1>3
  <2>2. ASSUME NEW i \in 0 + 1..at - 1 PROVE sum2[i] - sum2[i - 1] = sum[i + 0] - sum[i + 0 - 1]
    <3>1. i \in 1..n /\ i \in 1..Len(new) /\ i < at /\ i + 0 = i
      BY <1>3
    <3>2. keys[new[i]] = key[list[i]]
      BY <1>4, <3>1
    <3>3. sum2[i] - sum2[i - 1] = -keys[new[i]] /\ sum[i] - sum[i - 1] = -key[list[i]]
      BY <1>1, <1>2, <1>3, <3>1
    <3>. QED
      BY <3>1, <3>2, <3>3
  <2>3. sum2[0] = sum[0 + 0] + 0
    BY <1>1, <1>2
  <2>4. Alike(0, at - 1, 0, 0, sum2, sum)
    <3>1. at - 1 \in Nat
      BY <1>3
    <3>. QED
      BY <2>1, <2>2, <2>3, <3>1 DEF Alike
  <2>. QED
    BY <2>4, SameSteps
<1>8. sum2[at] = -k
  <2>1. at - 1 \in 0..at - 1 /\ at - 1 + 0 = at - 1 /\ at \in 1..Len(new) /\ at - 1 \in 0..n
    BY <1>3
  <2>2. sum2[at - 1] = sum[at - 1] /\ sum[at - 1] \in Int
    BY <1>1, <1>3, <1>7, <2>1
  <2>3. sum2[at] - sum2[at - 1] = -left /\ sum2[at] \in Int
    BY <1>2, <1>4, <2>1
  <2>. QED
    BY <1>6, <2>2, <2>3
<1>9. \A i \in at..n : sum[i] = sum2[i + 1] + 0
  <2>1. \A i \in at..n : sum[i] \in Int /\ sum2[i + 1] \in Int
    BY <1>1, <1>2, <1>3
  <2>2. at <= n => sum[at] = sum2[at + 1] + 0
    <3>1. SUFFICES ASSUME at <= n PROVE sum[at] = sum2[at + 1] + 0
      OBVIOUS
    <3>2. at \in 1..n /\ at + 1 \in 1..Len(new) /\ at + 1 - 1 = at
      BY <1>3, <3>1
    <3>3. keys[new[at + 1]] = key[list[at]] - left
      BY <1>4, <3>2
    <3>4. /\ sum2[at + 1] - sum2[at] = -keys[new[at + 1]] /\ sum2[at + 1] \in Int
          /\ sum[at] - sum[at - 1] = -key[list[at]] /\ sum[at] \in Int /\ sum[at - 1] \in Int
          /\ key[list[at]] \in Int
      BY <1>1, <1>2, <1>3, <3>2
    <3>5. /\ sum2[at + 1] - -k = -(key[list[at]] - (sum[at - 1] + k))
          /\ sum[at] = sum[at - 1] - key[list[at]]
      BY <1>6, <1>8, <3>3, <3>4
    <3>. QED
      BY <3>4, <3>5
  <2>3. ASSUME NEW i \in at + 1..n PROVE sum[i] - sum[i - 1] = sum2[i + 1] - sum2[i + 1 - 1]
    <3>1. i \in 1..n /\ i + 1 \in 1..Len(new) /\ i >= at /\ i # at
      BY <1>3
    <3>2. keys[new[i + 1]] = key[list[i]]
      BY <1>4, <3>1
    <3>3. sum2[i + 1] - sum2[i + 1 - 1] = -keys[new[i + 1]]
      BY <1>2, <3>1
    <3>4. sum[i] - sum[i - 1] = -key[list[i]]
      BY <1>1, <1>3, <3>1
    <3>. QED
      BY <3>2, <3>3, <3>4
  <2>4. Alike(at, n, 1, 0, sum, sum2)
    <3>1. at \in Nat /\ n \in Nat
      BY <1>3
    <3>. QED
      BY <2>1, <2>2, <2>3, <3>1 DEF Alike
  <2>. QED
    BY <2>4, SameSteps
<1>10. PICK on, want : /\ on = DOMAIN times \cup {p}
                       /\ want = [r \in on |-> IF r = p THEN k ELSE times[r]]
  OBVIOUS
<1>11. \A r : r \in on <=> r \in Pid /\ Contains(new, r)
  <2>1. ASSUME NEW r, r \in on PROVE r \in Pid /\ Contains(new, r)
    <3>1. CASE r = p
      <4>1. at \in 1..Len(new)
        BY <1>3
      <4>. QED
        BY <1>4, <3>1, <4>1 DEF Contains
    <3>2. CASE r # p
      <4>1. r \in Pid
        BY <1>1, <1>10, <2>1, <3>2
      <4>2. PICK i \in 1..n : list[i] = r
        BY <1>1, <1>3, <1>10, <2>1, <3>2 DEF Contains
      <4>3. CASE i < at
        <5>1. i \in 1..Len(new) /\ new[i] = r
          BY <1>3, <1>4, <4>2, <4>3
        <5>. QED
          BY <4>1, <5>1 DEF Contains
      <4>4. CASE ~(i < at)
        <5>1. i + 1 \in 1..Len(new) /\ i >= at
          BY <1>3, <4>4
        <5>2. new[i + 1] = r
          BY <1>4, <4>2, <5>1
        <5>. QED
          BY <4>1, <5>1, <5>2 DEF Contains
      <4>. QED
        BY <4>3, <4>4
    <3>. QED
      BY <3>1, <3>2
  <2>2. ASSUME NEW r, r \in Pid, Contains(new, r) PROVE r \in on
    <3>1. PICK i \in 1..Len(new) : new[i] = r
      BY <2>2 DEF Contains
    <3>2. CASE i < at
      <4>1. i \in 1..n /\ list[i] = r
        BY <1>3, <1>4, <3>1, <3>2
      <4>. QED
        BY <1>1, <1>3, <1>10, <2>2, <4>1 DEF Contains
    <3>3. CASE i = at
      BY <1>4, <1>10, <3>1, <3>3
    <3>4. CASE i > at
      <4>1. i - 1 \in 1..n /\ i - 1 >= at /\ i - 1 + 1 = i
        BY <1>3, <3>4
      <4>2. list[i - 1] = r
        BY <1>4, <3>1, <4>1
      <4>. QED
        BY <1>1, <1>3, <1>10, <2>2, <4>1, <4>2 DEF Contains
    <3>. QED
      BY <1>3, <3>2, <3>3, <3>4
  <2>. QED
    BY <2>1, <2>2
<1>12. ASSUME NEW i \in 1..Len(new) PROVE want[new[i]] = -sum2[i]
  <2>0. new[i] \in on
    BY <1>b, <1>11 DEF Counted
  <2>1. CASE i < at
    <3>1. i \in 1..n /\ i \in 0..at - 1 /\ i + 0 = i
      BY <1>3, <2>1
    <3>2. new[i] = list[i] /\ times[list[i]] = -sum[i] /\ sum[i] \in Int /\ list[i] # p
      BY <1>1, <1>3, <1>4, <2>1, <3>1 DEF Contains
    <3>3. sum2[i] = sum[i]
      BY <1>7, <3>1, <3>2
    <3>. QED
      BY <1>10, <2>0, <3>2, <3>3
  <2>2. CASE i = at
    BY <1>4, <1>8, <1>10, <2>0, <2>2
  <2>3. CASE i > at
    <3>1. PICK j \in 1..n : j + 1 = i /\ j >= at /\ j \in at..n
      <4>1. i - 1 \in 1..n /\ i - 1 >= at /\ i - 1 + 1 = i /\ i - 1 \in at..n
        BY <1>3, <2>3
      <4>. QED
        BY <4>1
    <3>2. new[i] = list[j] /\ times[list[j]] = -sum[j] /\ sum[j] \in Int /\ list[j] # p
      BY <1>1, <1>3, <1>4, <3>1 DEF Contains
    <3>3. sum2[i] = sum[j]
      <4>1. sum[j] = sum2[j + 1] + 0 /\ sum2[i] \in Int
        BY <1>2, <1>9, <3>1
      <4>. QED
        BY <3>1, <4>1
    <3>. QED
      BY <1>10, <2>0, <3>2, <3>3
  <2>. QED
    BY <1>3, <2>1, <2>2, <2>3
<1>13. times2 = want
  <2>1. want = [r \in on |-> want[r]]
    BY <1>10
  <2>2. Gives(want, new, sum2)
    BY <1>11, <1>12, <2>1 DEF Gives
  <2>. QED
    BY <2>2, TimesAre
<1>. QED
  BY <1>1, <1>10, <1>13

\* A sleeper taken off the list leaves everybody else the time it had
\* (unsleep.c:29-31).
LEMMA TimesCancel ==
  ASSUME NEW list, NEW new, NEW key, NEW keys, NEW sum, NEW sum2, NEW times, NEW times2,
         Shows(times, list, key, sum), Shows(times2, new, keys, sum2),
         NEW at, TakenOut(list, key, at, new, keys), NEW p, p = list[at]
  PROVE  /\ p \in DOMAIN times
         /\ times2 = [r \in DOMAIN times \ {p} |-> times[r]]
<1>b. Counted(times, list, key, sum) /\ Counted(times2, new, keys, sum2)
  BY ShownFacts
<1>1. /\ list \in Seq(Pid) /\ sum \in [0..Len(list) -> Int] /\ sum[0] = 0
      /\ \A i \in 1..Len(list) : /\ sum[i] - sum[i - 1] = -key[list[i]]
                                 /\ sum[i] \in Int /\ sum[i - 1] \in Int /\ key[list[i]] \in Int
                                 /\ times[list[i]] = -sum[i]
      /\ \A r : r \in DOMAIN times <=> r \in Pid /\ Contains(list, r)
      /\ \A i, j \in 1..Len(list) : list[i] = list[j] => i = j
  BY <1>b DEF Counted, Shows, Distinct
<1>2. /\ new \in Seq(Pid) /\ sum2 \in [0..Len(new) -> Int] /\ sum2[0] = 0
      /\ \A i \in 1..Len(new) : /\ sum2[i] - sum2[i - 1] = -keys[new[i]]
                                /\ sum2[i] \in Int /\ sum2[i - 1] \in Int
      /\ \A r : r \in DOMAIN times2 <=> r \in Pid /\ Contains(new, r)
  BY <1>b DEF Counted
<1>3. PICK n \in Nat : n = Len(list) /\ at \in 1..n /\ Len(new) = n - 1
  BY <1>1 DEF TakenOut
<1>4. /\ \A j \in 1..n : j < at => new[j] = list[j] /\ keys[new[j]] = key[list[j]]
      /\ \A j \in 1..n : j > at =>
           /\ new[j - 1] = list[j]
           /\ keys[new[j - 1]] = IF j = at + 1 THEN key[list[j]] + key[list[at]] ELSE key[list[j]]
  BY <1>3 DEF TakenOut
<1>5. \A i \in 0..at - 1 : sum2[i] = sum[i + 0] + 0
  <2>1. \A i \in 0..at - 1 : sum2[i] \in Int /\ sum[i + 0] \in Int
    BY <1>1, <1>2, <1>3
  <2>2. ASSUME NEW i \in 0 + 1..at - 1 PROVE sum2[i] - sum2[i - 1] = sum[i + 0] - sum[i + 0 - 1]
    <3>1. i \in 1..n /\ i \in 1..Len(new) /\ i < at /\ i + 0 = i
      BY <1>3
    <3>2. keys[new[i]] = key[list[i]]
      BY <1>4, <3>1
    <3>3. sum2[i] - sum2[i - 1] = -keys[new[i]] /\ sum[i] - sum[i - 1] = -key[list[i]]
      BY <1>1, <1>2, <1>3, <3>1
    <3>. QED
      BY <3>1, <3>2, <3>3
  <2>3. sum2[0] = sum[0 + 0] + 0
    BY <1>1, <1>2
  <2>4. Alike(0, at - 1, 0, 0, sum2, sum)
    <3>1. at - 1 \in Nat
      BY <1>3
    <3>. QED
      BY <2>1, <2>2, <2>3, <3>1 DEF Alike
  <2>. QED
    BY <2>4, SameSteps
<1>6. \A i \in at + 1..n : sum[i] = sum2[i + -1] + 0
  <2>1. ASSUME NEW i \in at + 1..n PROVE sum[i] \in Int /\ sum2[i + -1] \in Int
    <3>1. i \in 1..Len(list) /\ i + -1 \in 0..Len(new)
      BY <1>3
    <3>. QED
      BY <1>1, <1>2, <3>1
  <2>2. at + 1 <= n => sum[at + 1] = sum2[at + 1 + -1] + 0
    <3>1. SUFFICES ASSUME at + 1 <= n PROVE sum[at + 1] = sum2[at + 1 + -1] + 0
      OBVIOUS
    <3>2. /\ at \in 1..n /\ at + 1 \in 1..n /\ at \in 1..Len(new) /\ at + 1 - 1 = at /\ at + 1 + -1 = at
          /\ at - 1 \in 0..at - 1 /\ at - 1 + 0 = at - 1 /\ at + 1 > at
      BY <1>3, <3>1
    <3>3. keys[new[at]] = key[list[at + 1]] + key[list[at]]
      BY <1>4, <3>2
    <3>4. /\ sum2[at] - sum2[at - 1] = -keys[new[at]] /\ sum2[at] \in Int
          /\ sum[at] - sum[at - 1] = -key[list[at]] /\ sum[at] \in Int /\ sum[at - 1] \in Int
          /\ key[list[at]] \in Int
      BY <1>1, <1>2, <1>3, <3>2
    <3>5. /\ sum[at + 1] - sum[at + 1 - 1] = -key[list[at + 1]] /\ sum[at + 1] \in Int
          /\ key[list[at + 1]] \in Int
      BY <1>1, <1>3, <3>2
    <3>6. sum2[at - 1] = sum[at - 1]
      BY <1>5, <3>2, <3>4
    <3>7. sum[at + 1] - sum[at] = -key[list[at + 1]]
      BY <3>2, <3>5
    <3>8. sum2[at] = sum[at - 1] - (key[list[at + 1]] + key[list[at]])
      BY <3>3, <3>4, <3>5, <3>6
    <3>9. sum[at + 1] = sum2[at]
      BY SMTT(30), <3>4, <3>5, <3>7, <3>8
    <3>. QED
      BY <3>2, <3>4, <3>9
  <2>3. ASSUME NEW i \in at + 1 + 1..n PROVE sum[i] - sum[i - 1] = sum2[i + -1] - sum2[i + -1 - 1]
    <3>1. i \in 1..n /\ i - 1 \in 1..Len(new) /\ i > at /\ i # at + 1 /\ i + -1 = i - 1
      BY <1>3
    <3>2. keys[new[i - 1]] = key[list[i]]
      BY <1>4, <3>1
    <3>3. sum2[i - 1] - sum2[i - 1 - 1] = -keys[new[i - 1]]
      BY <1>2, <3>1
    <3>4. sum[i] - sum[i - 1] = -key[list[i]]
      BY <1>1, <1>3, <3>1
    <3>. QED
      BY <3>1, <3>2, <3>3, <3>4
  <2>4. Alike(at + 1, n, -1, 0, sum, sum2)
    <3>1. at + 1 \in Nat /\ n \in Nat
      BY <1>3
    <3>. QED
      BY <2>1, <2>2, <2>3, <3>1 DEF Alike
  <2>. QED
    BY <2>4, SameSteps
<1>7. PICK on, want : on = DOMAIN times \ {p} /\ want = [r \in on |-> times[r]]
  OBVIOUS
<1>8. \A r : r \in on <=> r \in Pid /\ Contains(new, r)
  <2>1. ASSUME NEW r, r \in on PROVE r \in Pid /\ Contains(new, r)
    <3>1. PICK i \in 1..n : list[i] = r /\ r \in Pid /\ r # p
      BY <1>1, <1>3, <1>7, <2>1 DEF Contains
    <3>2. CASE i < at
      <4>1. i \in 1..Len(new) /\ new[i] = r
        BY <1>3, <1>4, <3>1, <3>2
      <4>. QED
        BY <3>1, <4>1 DEF Contains
    <3>3. CASE i > at
      <4>1. i - 1 \in 1..Len(new) /\ new[i - 1] = r
        BY <1>3, <1>4, <3>1, <3>3
      <4>. QED
        BY <3>1, <4>1 DEF Contains
    <3>. QED
      BY <1>3, <3>1, <3>2, <3>3
  <2>2. ASSUME NEW r, r \in Pid, Contains(new, r) PROVE r \in on
    <3>0. PICK i \in 1..Len(new) : new[i] = r
      BY <2>2 DEF Contains
    <3>1. PICK j \in 1..n : list[j] = r /\ j # at
      <4>1. CASE i < at
        <5>1. i \in 1..n /\ list[i] = r
          BY <1>3, <1>4, <3>0, <4>1
        <5>. QED
          BY <4>1, <5>1
      <4>2. CASE ~(i < at)
        <5>1. i + 1 \in 1..n /\ i + 1 > at /\ i + 1 - 1 = i
          BY <1>3, <4>2
        <5>2. list[i + 1] = r
          BY <1>4, <3>0, <5>1
        <5>. QED
          BY <1>3, <5>1, <5>2
      <4>. QED
        BY <4>1, <4>2
    <3>2. r # p
      BY <1>1, <1>3, <3>1
    <3>3. Contains(list, r)
      BY <1>3, <3>1 DEF Contains
    <3>. QED
      BY <1>1, <1>7, <2>2, <3>2, <3>3
  <2>. QED
    BY <2>1, <2>2
<1>9. ASSUME NEW i \in 1..Len(new) PROVE want[new[i]] = -sum2[i]
  <2>0. new[i] \in on
    BY <1>b, <1>8 DEF Counted
  <2>1. CASE i < at
    <3>1. i \in 1..n /\ i \in 0..at - 1 /\ i + 0 = i
      BY <1>3, <2>1
    <3>2. new[i] = list[i] /\ times[list[i]] = -sum[i] /\ sum[i] \in Int
      BY <1>1, <1>3, <1>4, <2>1, <3>1
    <3>3. sum2[i] = sum[i]
      BY <1>5, <3>1, <3>2
    <3>. QED
      BY <1>7, <2>0, <3>2, <3>3
  <2>2. CASE ~(i < at)
    <3>1. PICK j \in 1..n : j - 1 = i /\ j + -1 = i /\ j > at /\ j \in at + 1..n
      <4>1. i + 1 \in 1..n /\ i + 1 - 1 = i /\ i + 1 + -1 = i /\ i + 1 > at /\ i + 1 \in at + 1..n
        BY <1>3, <2>2
      <4>. QED
        BY <4>1
    <3>2. new[i] = list[j] /\ times[list[j]] = -sum[j] /\ sum[j] \in Int
      BY <1>1, <1>3, <1>4, <3>1
    <3>3. sum2[i] = sum[j]
      <4>1. sum[j] = sum2[j + -1] + 0 /\ sum2[i] \in Int
        BY <1>2, <1>6, <3>1
      <4>. QED
        BY <3>1, <4>1
    <3>. QED
      BY <1>7, <2>0, <3>2, <3>3
  <2>. QED
    BY <2>1, <2>2
<1>10. times2 = want
  <2>1. want = [r \in on |-> want[r]]
    BY <1>7
  <2>2. Gives(want, new, sum2)
    BY <1>8, <1>9, <2>1 DEF Gives
  <2>. QED
    BY <2>2, TimesAre
<1>11. p \in DOMAIN times
  BY <1>1, <1>3 DEF Contains
<1>. QED
  BY <1>7, <1>10, <1>11

\* Only the keys of those on the list matter to what is put in or taken out.
LEMMA PutInSameKeys ==
  ASSUME NEW list \in Seq(Pid), NEW key, NEW p, NEW at, NEW left, NEW new, NEW keys, NEW keys2,
         PutIn(list, key, p, at, left, new, keys),
         \A i \in 1..Len(new) : keys2[new[i]] = keys[new[i]]
  PROVE  PutIn(list, key, p, at, left, new, keys2)
<1>1. PICK n \in Nat : n = Len(list) /\ at \in 1..n + 1 /\ Len(new) = n + 1
  BY DEF PutIn
<1>2. \A j \in 1..n : j \in 1..Len(new) /\ j + 1 \in 1..Len(new)
  BY <1>1
<1>3. at \in 1..Len(new)
  BY <1>1
<1>. QED
  BY <1>1, <1>2, <1>3 DEF PutIn

\* The same of dequeue(), which unsleep() takes a sleeper out with.
LEMMA TakenOutSameKeys ==
  ASSUME NEW list \in Seq(Pid), NEW key, NEW at, NEW new, NEW keys, NEW keys2,
         TakenOut(list, key, at, new, keys),
         \A i \in 1..Len(new) : keys2[new[i]] = keys[new[i]]
  PROVE  TakenOut(list, key, at, new, keys2)
<1>1. PICK n \in Nat : n = Len(list) /\ at \in 1..n /\ Len(new) = n - 1
  BY DEF TakenOut
<1>2. \A j \in 1..n : /\ j < at => j \in 1..Len(new)
                      /\ j > at => j - 1 \in 1..Len(new)
  BY <1>1
<1>. QED
  BY <1>1, <1>2 DEF TakenOut

\* What the sleepers have left, before a step and after it.
LEMMA RemainingShows ==
  IInv /\ Ordered => \E sum : Shows(Remaining, clockq, qkey, sum)
<1>1. ASSUME IInv, Ordered PROVE \E sum : Shows(Remaining, clockq, qkey, sum)
  <2>1. clockq \in Seq(Pid) /\ qkey \in [Pid -> Int] /\ Distinct(clockq)
    BY <1>1, SleeperFacts DEF Ordered, Keyed, Distinct
  <2>2. Remaining = [p \in ToSet(clockq) |->
                       -Residue(clockq, qkey, 0)[SelectInSeq(clockq, LAMBDA r : r = p)]]
    BY DEF Remaining
  <2>. QED
    BY <2>1, <2>2, TimesShow
<1>. QED
  BY <1>1

\* The same after a step: the deltas it leaves are the times that are left.
LEMMA RemainingShowsNext ==
  IInv' /\ Ordered' => \E sum : Shows(Remaining', clockq', qkey', sum)
<1>1. (IInv /\ Ordered => \E sum : Shows(Remaining, clockq, qkey, sum))'
  BY RemainingShows, PTL
<1>. QED
  BY <1>1

\* Each step on the delta list is a step of the alarms, or none.
LEMMA AlarmStep ==
  ASSUME IInv, Ordered, Deltas, ClockStep, IInv', Ordered'
  PROVE  SleepAlarms!Next \/ Remaining' = Remaining
<1>. PICK times, times2 : times = Remaining /\ times2 = Remaining'
  OBVIOUS
<1>0. /\ clockq \in Seq(Pid) /\ qkey \in [Pid -> Int] /\ clockq' \in Seq(Pid) /\ qkey' \in [Pid -> Int]
      /\ \A i, j \in 1..Len(clockq) : clockq[i] = clockq[j] => i = j
      /\ \A i \in 1..Len(clockq) : clockq[i] \in Pid /\ Contains(clockq, clockq[i])
                                   /\ qkey[clockq[i]] \in Int
  BY SleeperFacts DEF Ordered, Keyed, IInv, Blocked
<1>1. PICK sum : Shows(times, clockq, qkey, sum)
  BY RemainingShows
<1>2. PICK sum2 : Shows(times2, clockq', qkey', sum2)
  BY RemainingShowsNext
<1>3. CASE ClockStays
  <2>1. clockq' = clockq /\ \A i \in 1..Len(clockq) : qkey'[clockq[i]] = qkey[clockq[i]]
    BY <1>0, <1>3 DEF ClockStays, ClockBecomes
  <2>2. Shows(times2, clockq, qkey', sum2)
    BY <1>2, <2>1
  <2>3. times2 = times
    BY <1>1, <2>1, <2>2, TimesStay
  <2>. QED
    BY <2>3
<1>4. ASSUME NEW k \in Delays, ClockSet(k) PROVE SleepAlarms!Next
  <2>1. k \in Int /\ currpid \in Pid /\ ~Contains(clockq, currpid)
    BY DelaysAssumption, SleeperFacts, TablesQueued
  <2>2. PICK at, from, left, new, keys :
           /\ new = DeltaList(clockq, qkey, currpid, k) /\ keys = DeltaKeys(clockq, qkey, currpid, k)
           /\ Falls(from, clockq, qkey, k) /\ left = from[at - 1]
           /\ PutIn(clockq, qkey, currpid, at, left, new, keys)
    BY <1>0, <2>1, SetEntries
  <2>3. clockq' = new /\ \A i \in 1..Len(new) : qkey'[new[i]] = keys[new[i]]
    <3>1. clockq' = new /\ \A r \in Pid : Contains(new, r) => qkey'[r] = keys[r]
      BY <1>4, <2>2 DEF ClockSet, ClockBecomes
    <3>2. \A i \in 1..Len(new) : new[i] \in Pid /\ Contains(new, new[i])
      BY <1>0, <3>1 DEF Contains
    <3>. QED
      BY <3>1, <3>2
  <2>4. PutIn(clockq, qkey, currpid, at, left, new, qkey')
    <3>1. PutIn(clockq, qkey, currpid, at, left, new, keys)
      BY <2>2
    <3>2. clockq \in Seq(Pid) /\ \A i \in 1..Len(new) : qkey'[new[i]] = keys[new[i]]
      BY <1>0, <2>3
    <3>. QED
      BY <3>1, <3>2, PutInSameKeys
  <2>5. Shows(times2, new, qkey', sum2)
    BY <1>2, <2>3
  <2>6. /\ currpid \notin DOMAIN times
        /\ times2 = [r \in DOMAIN times \cup {currpid} |-> IF r = currpid THEN k ELSE times[r]]
    <3>1. Falls(from, clockq, qkey, k) /\ PutIn(clockq, qkey, currpid, at, from[at - 1], new, qkey')
      BY <2>2, <2>4
    <3>. QED
      BY SMTT(30), <1>1, <2>1, <2>5, <3>1, TimesSet
  <2>7. SleepAlarms!Set(currpid, k)
    BY <2>6 DEF SleepAlarms!Set
  <2>. QED
    BY <2>1, <2>7 DEF SleepAlarms!Next
<1>5. ASSUME NEW p \in Pid, ClockCancel(p) PROVE SleepAlarms!Next
  <2>1. Contains(clockq, p)
    BY <1>5 DEF ClockCancel
  <2>2. PICK at, new, keys :
           /\ new = Dequeue(clockq, p) /\ keys = UnsleepKeys(p) /\ clockq[at] = p
           /\ TakenOut(clockq, qkey, at, new, keys)
    BY <1>0, <2>1, CancelEntries
  <2>3. clockq' = new /\ \A i \in 1..Len(new) : qkey'[new[i]] = keys[new[i]]
    <3>1. clockq' = new /\ \A r \in Pid : Contains(new, r) => qkey'[r] = keys[r]
      BY <1>5, <2>2 DEF ClockCancel, ClockBecomes
    <3>2. \A i \in 1..Len(new) : new[i] \in Pid /\ Contains(new, new[i])
      BY <1>0, <3>1 DEF Contains
    <3>. QED
      BY <3>1, <3>2
  <2>4. TakenOut(clockq, qkey, at, new, qkey')
    BY <1>0, <2>2, <2>3, TakenOutSameKeys
  <2>5. Shows(times2, new, qkey', sum2)
    BY <1>2, <2>3
  <2>6. p \in DOMAIN times /\ times2 = [r \in DOMAIN times \ {p} |-> times[r]]
    BY <1>1, <2>2, <2>4, <2>5, TimesCancel
  <2>7. SleepAlarms!Cancel(p)
    BY <2>6 DEF SleepAlarms!Cancel
  <2>. QED
    BY <2>7 DEF SleepAlarms!Next
<1>6. ASSUME Running("user"), clockq # <<>>,
             ClockBecomes(clockq, [qkey EXCEPT ![Head(clockq)] = @ - 1])
      PROVE  SleepAlarms!Next
  <2>1. PICK h : h = Head(clockq)
    OBVIOUS
  <2>2. Len(clockq) >= 1 /\ 1 \in 1..Len(clockq) /\ h = clockq[1] /\ h \in Pid /\ qkey[h] \in Int
    <3>1. Len(clockq) >= 1 /\ 1 \in 1..Len(clockq) /\ h = clockq[1]
      BY <1>0, <1>6, <2>1
    <3>. QED
      BY <1>0, <3>1
  <2>3. /\ clockq' = clockq
        /\ \A i \in 1..Len(clockq) :
             qkey'[clockq[i]] = IF i = 1 THEN qkey[clockq[i]] - 1 ELSE qkey[clockq[i]]
    <3>1. \A i \in 1..Len(clockq) : qkey'[clockq[i]] = [qkey EXCEPT ![h] = qkey[h] - 1][clockq[i]]
      BY <1>0, <1>6, <2>1, <2>2 DEF ClockBecomes
    <3>. QED
      BY <1>0, <1>6, <2>2, <3>1 DEF ClockBecomes
  <2>4. \A i \in 1..Len(clockq) : qkey[clockq[i]] >= 0
    BY <1>6 DEF Deltas, Running
  <2>5. Shows(times2, clockq, qkey', sum2)
    BY <1>2, <2>3
  <2>6. /\ \A p \in DOMAIN times : times[p] >= 0
        /\ times2 = [p \in DOMAIN times |-> times[p] - 1]
    BY <1>1, <2>2, <2>3, <2>4, <2>5, TimesAdvance
  <2>7. SleepAlarms!Advance
    BY <2>6 DEF SleepAlarms!Advance
  <2>. QED
    BY <2>7 DEF SleepAlarms!Next
<1>7. ASSUME Running("wakeup"), FirstIsDue, ClockBecomes(Tail(clockq), qkey) PROVE SleepAlarms!Next
  <2>1. PICK h, new : h = Head(clockq) /\ new = Tail(clockq)
    OBVIOUS
  <2>2. clockq # <<>> /\ clockq' = new /\ qkey[h] <= 0
    BY <1>7, <2>1 DEF FirstIsDue, ClockBecomes
  <2>3. /\ Len(clockq) = Len(new) + 1 /\ 1 \in 1..Len(clockq) /\ h = clockq[1]
        /\ \A i \in 1..Len(new) : new[i] = clockq[i + 1]
    BY <1>0, <2>1, <2>2, HeadTailProperties
  <2>4. \A i \in 1..Len(new) : qkey'[new[i]] = qkey[new[i]]
    <3>1. \A i \in 1..Len(new) : new[i] \in Pid /\ Contains(new, new[i])
      BY <1>0, <2>2 DEF Contains
    <3>. QED
      BY <1>7, <2>1, <3>1 DEF ClockBecomes
  <2>5. h \in Pid /\ qkey[h] \in Int /\ qkey[h] >= -1
    BY <1>0, <1>7, <2>3 DEF Deltas
  <2>6. Shows(times2, new, qkey', sum2)
    BY <1>2, <2>2
  <2>7. /\ h \in DOMAIN times /\ times[h] = qkey[h]
        /\ times2 = [p \in DOMAIN times \ {h} |-> times[p] + -times[h]]
    <3>1. Popped(clockq, new, qkey, qkey')
      BY <2>3, <2>4 DEF Popped
    <3>2. \E g : /\ g = clockq[1] /\ g \in DOMAIN times /\ times[g] = qkey[g]
                 /\ times2 = [p \in DOMAIN times \ {g} |-> times[p] + -times[g]]
      BY <1>1, <2>6, <3>1, TimesExpire
    <3>. QED
      BY <2>3, <3>2
  <2>8. SleepAlarms!Expire(h)
    BY <2>2, <2>5, <2>7 DEF SleepAlarms!Expire
  <2>. QED
    BY <2>5, <2>8 DEF SleepAlarms!Next
<1>. QED
  BY <1>3, <1>4, <1>5, <1>6, <1>7 DEF ClockStep

\* Nobody sleeps when main() starts.
LEMMA InitRemaining == Init => SleepAlarms!Init
<1>1. ASSUME Init PROVE SleepAlarms!Init
  <2>1. ToSet(clockq) = {}
    BY <1>1 DEF Init, ToSet
  <2>2. Remaining = [p \in {} |-> 0]
    BY <2>1 DEF Remaining
  <2>. QED
    BY <2>2 DEF SleepAlarms!Init
<1>. QED
  BY <1>1

\* The sleep queue implements the alarms: what each process has left of its
\* delay does not depend on who else goes to sleep, wakes, is sent a message or
\* is killed (insertd.c, unsleep.c, wakeup.c, clkint.S).
THEOREM SleepQueueImplementsAlarms == Spec => SleepImplementsAlarms
<1>1. IInv /\ Pointed /\ Ordered /\ [Next]_vars => Ordered'
  BY KeySteps, KeyStutter
<1>2. /\ IInv /\ Pointed /\ Ordered /\ Deltas /\ IInv' /\ Ordered' /\ [Next]_vars
      => [SleepAlarms!Next]_Remaining
  <2>1. ASSUME IInv, Pointed, Ordered, Deltas, IInv', Ordered', Next
        PROVE  SleepAlarms!Next \/ Remaining' = Remaining
    BY <2>1, KeySteps, AlarmStep
  <2>2. ASSUME UNCHANGED vars PROVE Remaining' = Remaining
    <3>1. clockq' = clockq /\ qkey' = qkey
      BY <2>2 DEF vars, cpuVars, clockVars
    <3>. QED
      BY <3>1 DEF Remaining, SelectInSeq
  <2>. QED
    BY <2>1, <2>2
<1>. QED
  BY <1>1, <1>2, InitIInv, NextIInv, PointedInductive, InitOrdered, DeltasInductive, InitRemaining,
     PTL DEF Spec, SleepImplementsAlarms, SleepAlarms!Spec

-------------------------------------------------------------------------------
(***************************************************************************)
(* The CPU goes to the highest priority: DispatchesHighest of Kernel, for  *)
(* processes that never call chprio(), which changes a priority without a  *)
(* look at the ready list (chprio.c).                                      *)
(***************************************************************************)
\* On the ready list a process has the key of its priority.
Ranks(ps, key) == \A r \in Pid : ps[r] = "PRREADY" => key[r] = pprio[r]
Ranked == Ranks(pstate, qkey)

\* Nobody ready has a higher priority than the running process.
TopNow == \A r \in Pid : pstate[r] = "PRREADY" => pprio[r] <= pprio[currpid]

\* Only the loops that wake several processes let one of them wait for the
\* resched() at their end.
Fair == Ranked /\ (frame[currpid].at \notin Loops => TopNow)

-------------------------------------------------------------------------------
(***************************************************************************)
(* What ready() and resched() do to the priorities.                        *)
(***************************************************************************)
\* Tables a call may pass to resched().
Clean(T) ==
  /\ Tidy(T)
  /\ Ranks(T.pstate, T.qkey)
  /\ T.pstate[currpid] # "PRREADY"
  /\ StateIs(T.pstate, {"PRCURR"}) \subseteq {currpid}

\* resched() keeps the running process if its priority is above the last key,
\* and takes the last otherwise (resched.c:145-177).
LEMMA ReschedTop ==
  ASSUME NEW T, Clean(T), NEW ticks, Resched(T, ticks),
         pprio \in [Pid -> Nat], currpid \in Pid, UNCHANGED pprio
  PROVE  Ranked' /\ TopNow'
<1>0. /\ T.rdy \in Seq(Pid) /\ T.qkey \in [Pid -> Int] /\ Sorted(T.rdy, T.qkey)
      /\ Holds(T.rdy, StateIs(T.pstate, {"PRREADY"})) /\ T.pstate \in [Pid -> States]
      /\ ~Contains(T.rdy, currpid)
  BY OffReady DEF Clean, Tidy, Keyed, Queued
<1>1. CASE T.pstate[currpid] = "PRCURR" /\ (T.rdy = <<>> \/ T.qkey[Last(T.rdy)] < pprio[currpid])
  <2>1. pstate' = T.pstate /\ qkey' = T.qkey /\ currpid' = currpid
    BY <1>1 DEF Resched, Keep
  <2>2. ASSUME NEW r \in Pid, T.pstate[r] = "PRREADY" PROVE pprio[r] <= pprio[currpid]
    <3>1. Contains(T.rdy, r)
      BY <1>0, <2>2 DEF Holds, StateIs
    <3>2. T.rdy # <<>>
      BY <3>1 DEF Contains
    <3>3. T.qkey[r] <= T.qkey[Last(T.rdy)] /\ Last(T.rdy) \in Pid
      BY <1>0, <3>1, <3>2, LastIsHighest
    <3>4. T.qkey[r] = pprio[r] /\ T.qkey[Last(T.rdy)] < pprio[currpid]
      BY <1>1, <2>2, <3>2 DEF Clean, Ranks
    <3>. QED
      BY <1>0, <3>3, <3>4
  <2>. QED
    BY <2>1, <2>2 DEF Ranked, Ranks, TopNow, Clean
<1>2. CASE ~(T.pstate[currpid] = "PRCURR" /\ (T.rdy = <<>> \/ T.qkey[Last(T.rdy)] < pprio[currpid]))
  <2>. DEFINE yields == T.pstate[currpid] = "PRCURR"
              key  == IF yields THEN [T.qkey EXCEPT ![currpid] = pprio[currpid]] ELSE T.qkey
              list == IF yields THEN Insert(T.rdy, T.qkey, currpid, pprio[currpid]) ELSE T.rdy
              old  == IF yields THEN [T.pstate EXCEPT ![currpid] = "PRREADY"] ELSE T.pstate
  <2>1. /\ currpid' = Last(list) /\ pstate' = [old EXCEPT ![Last(list)] = "PRCURR"]
        /\ qkey' = key
    BY <1>2 DEF Resched
  <2>2. Sorted(list, key) /\ key \in [Pid -> Int]
    BY <1>0, InsertSorted
  <2>3. \A r \in Pid : old[r] = "PRREADY" => key[r] = pprio[r]
    BY <1>0 DEF Clean, Ranks
  <2>4. list \in Seq(Pid) /\ Holds(list, StateIs(old, {"PRREADY"}))
    <3>1. CASE yields
      <4>1. currpid \notin StateIs(T.pstate, {"PRREADY"})
        BY DEF StateIs, Clean
      <4>2. StateIs(old, {"PRREADY"}) = StateIs(T.pstate, {"PRREADY"}) \cup {currpid}
        BY <1>0, <3>1 DEF StateIs
      <4>. PICK S : S = StateIs(T.pstate, {"PRREADY"})
        OBVIOUS
      <4>3. /\ Insert(T.rdy, T.qkey, currpid, pprio[currpid]) \in Seq(Pid)
            /\ Holds(Insert(T.rdy, T.qkey, currpid, pprio[currpid]), S \cup {currpid})
        BY <1>0, <4>1, InsertHolds
      <4>. QED
        BY <3>1, <4>2, <4>3
    <3>2. CASE ~yields
      BY <1>0, <3>2
    <3>. QED
      BY <3>1, <3>2
  <2>5. old \in [Pid -> States]
    BY <1>0 DEF States
  <2>6. NULLPROC \in Pid /\ old[NULLPROC] = "PRREADY"
    BY <1>0, PidFacts DEF Clean, Tidy, Queued, StateIs
  <2>. HIDE DEF list, old, key
  <2>7. list # <<>>
    BY <2>4, <2>6 DEF Holds, Contains, StateIs
  <2>8. /\ Last(list) \in Pid
        /\ \A r \in Pid : Contains(list, r) => key[r] <= key[Last(list)]
    BY <2>2, <2>4, <2>7, LastIsHighest
  <2>9. old[Last(list)] = "PRREADY"
    <3>1. Contains(list, Last(list))
      BY <2>4, <2>7 DEF Contains, Last
    <3>. QED
      BY <2>4, <2>8, <3>1 DEF Holds, StateIs
  <2>10. ASSUME NEW r \in Pid, pstate'[r] = "PRREADY"
         PROVE  key[r] = pprio[r] /\ pprio[r] <= pprio[currpid']
    <3>1. old[r] = "PRREADY"
      BY <2>1, <2>5, <2>8, <2>10
    <3>2. Contains(list, r)
      BY <2>4, <3>1 DEF Holds, StateIs
    <3>3. key[r] = pprio[r] /\ key[Last(list)] = pprio[Last(list)]
      BY <2>3, <2>8, <2>9, <3>1
    <3>. QED
      BY <2>1, <2>8, <3>2, <3>3
  <2>. QED
    BY <2>1, <2>10 DEF Ranked, Ranks, TopNow
<1>. QED
  BY <1>1, <1>2

\* ready() gives its process the key of its priority (ready.c:24-25).
LEMMA ReadyRanks ==
  ASSUME NEW T, Tidy(T), Ranks(T.pstate, T.qkey), pprio \in [Pid -> Nat],
         NEW p \in Pid \ {NULLPROC}, T.pstate[p] # "PRREADY"
  PROVE  Ranks(Ready(T, p).pstate, Ready(T, p).qkey)
<1>1. /\ Ready(T, p).pstate = [T.pstate EXCEPT ![p] = "PRREADY"]
      /\ Ready(T, p).qkey = [T.qkey EXCEPT ![p] = pprio[p]]
  BY PidFacts DEF Ready
<1>2. T.pstate \in [Pid -> States] /\ T.qkey \in [Pid -> Int]
  BY DEF Tidy, Keyed, Queued
<1>. QED
  BY <1>1, <1>2 DEF Ranks

-------------------------------------------------------------------------------
(***************************************************************************)
(* What each step does to them.                                            *)
(***************************************************************************)
\* Nobody becomes ready, and nobody's priority changes who is.
Lessens ==
  /\ UNCHANGED currpid
  /\ pprio'[currpid] = pprio[currpid]
  /\ \A r \in Pid : pstate'[r] = "PRREADY" =>
       pstate[r] = "PRREADY" /\ qkey'[r] = qkey[r] /\ pprio'[r] = pprio[r]

\* The order that calls keep survives a process that blocks or is taken away.
LEMMA FairLess ==
  ASSUME Fair, Lessens, Running("user") \/ frame[currpid].at \notin Loops
  PROVE  Fair'
BY DEF Fair, Lessens, Ranked, Ranks, TopNow, Running, Loops

\* The tables as they are may be passed to resched().
LEMMA TablesClean ==
  ASSUME IInv, Ordered, Fair
  PROVE  Clean(Tables)
BY TablesTidy DEF Clean, Fair, Ranked

\* resched() alone.
LEMMA ReschedFair ==
  ASSUME IInv, Ordered, Fair, NEW ticks, Resched(Tables, ticks), UNCHANGED pprio
  PROVE  Fair'
BY TablesClean, TablesTidy, ReschedTop DEF Fair

\* Waking p for the CPU.
LEMMA WakeFair ==
  ASSUME IInv, Ordered, NEW T, Tidy(T), T.pstate = pstate, Ranks(pstate, T.qkey),
         NEW p \in Pid \ {NULLPROC}, pstate[p] \notin {"PRREADY", "PRCURR"}, ReadyNow(T, p),
         UNCHANGED pprio
  PROVE  Fair'
<1>. PICK R : R = Ready(T, p)
  OBVIOUS
<1>1. Resched(R, preempt)
  BY PidFacts DEF ReadyNow
<1>2. Tidy(R) /\ R.pstate = [pstate EXCEPT ![p] = "PRREADY"] /\ Ranks(R.pstate, R.qkey)
  BY TablesTidy, ReadyTidy, ReadyQueued, ReadyRanks DEF Tidy
<1>3. pstate \in [Pid -> States] /\ currpid \in Pid /\ pstate[currpid] = "PRCURR"
      /\ StateIs(pstate, {"PRCURR"}) = {currpid}
  BY TablesQueued
<1>4. Clean(R)
  BY <1>2, <1>3 DEF Clean, StateIs
<1>. QED
  BY <1>1, <1>4, TablesTidy, ReschedTop DEF Fair

\* Waking p in a loop.
LEMMA WakeLaterFair ==
  ASSUME IInv, Ordered, Fair, NEW p \in Pid \ {NULLPROC}, pstate[p] # "PRREADY",
         Keep(Ready(Tables, p)), UNCHANGED pprio, frame'[currpid].at \in Loops
  PROVE  Fair'
<1>1. Ranks(Ready(Tables, p).pstate, Ready(Tables, p).qkey)
  BY TablesClean, TablesTidy, ReadyRanks DEF Clean
<1>. QED
  BY <1>1 DEF Fair, Ranked, Ranks, Keep

\* Whoever blocks or ends leaves the CPU to the highest priority.
LEMMA BlockFair ==
  ASSUME IInv, Ordered, currpid # NULLPROC, NEW st \in States \ {"PRREADY", "PRCURR"},
         NEW T, T.pstate = [pstate EXCEPT ![currpid] = st], T.rdy = rdy, Keyed(rdy, T.qkey),
         Ranks(pstate, T.qkey), Resched(T, preempt), UNCHANGED pprio
  PROVE  Fair'
<1>1. pstate \in [Pid -> States] /\ currpid \in Pid /\ pstate[currpid] = "PRCURR"
      /\ StateIs(pstate, {"PRCURR"}) = {currpid} /\ Queued(Tables) /\ Tables.pstate = pstate
      /\ Tables.rdy = rdy
  BY TablesQueued
<1>2. Queued(T)
  <2>1. /\ Queued(Tables) /\ currpid \in Pid \ {NULLPROC} /\ Tables.pstate[currpid] # "PRREADY"
        /\ T.pstate = [Tables.pstate EXCEPT ![currpid] = st] /\ T.rdy = Tables.rdy
    BY <1>1
  <2>. QED
    BY <2>1, SetStateQueued
<1>3. Clean(T)
  BY <1>1, <1>2 DEF Clean, Tidy, StateIs, Ranks
<1>. QED
  BY <1>1, <1>3, ReschedTop DEF Fair, Ordered

\* It blocks on no delta list.
LEMMA BlockedFair ==
  ASSUME IInv, Ordered, Fair, currpid # NULLPROC, NEW st \in States \ {"PRREADY", "PRCURR"},
         Resched(SetState(Tables, currpid, st), preempt), UNCHANGED pprio
  PROVE  Fair'
<1>1. PICK T : T = SetState(Tables, currpid, st)
  OBVIOUS
<1>2. T.pstate = [pstate EXCEPT ![currpid] = st] /\ T.rdy = rdy /\ T.qkey = qkey
      /\ Resched(T, preempt) /\ Keyed(rdy, T.qkey) /\ Ranks(pstate, T.qkey)
  BY <1>1, SetStateFields DEF Ordered, Fair, Ranked
<1>. QED
  BY <1>2, BlockFair

\* Going to sleep (sleep10.c, recvtim.c).
LEMMA SleepForFair ==
  ASSUME IInv, Ordered, Fair, currpid # NULLPROC, NEW k \in Nat,
         NEW st \in {"PRSLEEP", "PRTRECV"}, NEW f, SleepFor(k, st, f), UNCHANGED pprio
  PROVE  Fair'
<1>. PICK keys : keys = DeltaKeys(clockq, qkey, currpid, k)
  OBVIOUS
<1>. DEFINE T == [SetState(Tables, currpid, st) EXCEPT !.qkey = keys]
<1>1. T.pstate = [pstate EXCEPT ![currpid] = st] /\ T.rdy = rdy /\ T.qkey = keys
  BY DEF SetState, Tables
<1>2. Resched(T, preempt)
  BY DEF SleepFor
<1>. HIDE DEF T
<1>3. Keyed(rdy, keys) /\ \A r \in Pid : Contains(rdy, r) => keys[r] = qkey[r]
  BY SleepKeys
<1>4. Ranks(pstate, keys)
  BY <1>3, SleeperFacts DEF Fair, Ranked, Ranks
<1>. QED
  BY <1>1, <1>2, <1>3, <1>4, BlockFair DEF States

\* unsleep() leaves the ready ones alone.
LEMMA CancelRanks ==
  ASSUME IInv, Ordered, Fair, NEW p \in Pid, pstate[p] \in {"PRSLEEP", "PRTRECV"}
  PROVE  /\ Keyed(rdy, UnsleepKeys(p)) /\ Ranks(pstate, UnsleepKeys(p))
         /\ \A r \in Pid : pstate[r] = "PRREADY" => UnsleepKeys(p)[r] = qkey[r]
<1>1. /\ Keyed(rdy, UnsleepKeys(p))
      /\ \A r \in Pid : Contains(rdy, r) => UnsleepKeys(p)[r] = qkey[r]
  BY CancelKeys
<1>. QED
  BY <1>1, SleeperFacts DEF Fair, Ranked, Ranks

\* send() wakes a receiver (send.c).
LEMMA SendToFair ==
  ASSUME IInv, Ordered, Fair, NEW p \in Int, SendTo(p), Running("user"), UNCHANGED pprio
  PROVE  Fair'
<1>1. CASE UNCHANGED cpuVars
  BY <1>1, FairLess DEF cpuVars, Lessens
<1>2. CASE Accepts(p) /\ pstate[p] = "PRRECV" /\ ReadyNow(Tables, p)
  <2>1. p \in Pid \ {NULLPROC}
    BY <1>2, PidFacts DEF Accepts
  <2>. QED
    BY <1>2, <2>1, TablesTidy, WakeFair DEF Fair, Ranked
<1>3. CASE /\ Accepts(p) /\ pstate[p] = "PRTRECV"
           /\ ReadyNow([Tables EXCEPT !.qkey = UnsleepKeys(p)], p)
  <2>1. p \in Pid \ {NULLPROC}
    BY <1>3, PidFacts DEF Accepts
  <2>. DEFINE T == [Tables EXCEPT !.qkey = UnsleepKeys(p)]
  <2>2. T.pstate = pstate /\ T.rdy = rdy /\ T.qkey = UnsleepKeys(p) /\ ReadyNow(T, p)
    BY <1>3 DEF Tables
  <2>. HIDE DEF T
  <2>3. Keyed(rdy, UnsleepKeys(p)) /\ Ranks(pstate, UnsleepKeys(p))
    BY <1>3, <2>1, CancelRanks
  <2>4. Tidy(T)
    BY <2>2, <2>3, TablesQueued DEF Tidy, Queued
  <2>. QED
    BY <1>3, <2>1, <2>2, <2>3, <2>4, WakeFair
<1>. QED
  BY <1>1, <1>2, <1>3 DEF SendTo

\* Processes created, resumed, suspended, killed.
LEMMA FairProcessSteps ==
  ASSUME IInv, Ordered, Fair, "chprio" \notin Calls, ProcessCall \/ KillEnd
  PROVE  Fair'
<1>0. pstate \in [Pid -> States] /\ currpid \in Pid /\ pstate[currpid] = "PRCURR"
      /\ StateIs(pstate, {"PRCURR"}) = {currpid}
  BY TablesQueued
<1>1. ASSUME NEW k, Create(k) PROVE Fair'
  <2>1. /\ UNCHANGED <<currpid, qkey>> /\ Running("user") /\ pprio \in [Pid -> Nat]
        /\ \E p \in Pid \ {currpid} : /\ pstate' = [pstate EXCEPT ![p] = "PRSUSP"]
                                      /\ pprio' = [pprio EXCEPT ![p] = k]
    BY <1>1, ProcessMoves DEF Create, Calling, Ordered
  <2>2. Lessens
    BY <1>0, <2>1 DEF Lessens
  <2>. QED
    BY <2>1, <2>2, FairLess
<1>2. ASSUME NEW k, NEW p, CreateRefused \/ Setnok(k, p) PROVE Fair'
  <2>1. UNCHANGED <<currpid, pstate, qkey, pprio>> /\ Running("user")
    BY <1>2 DEF CreateRefused, Setnok, cpuVars, Calling
  <2>. QED
    BY <2>1, FairLess DEF Lessens
<1>3. ASSUME NEW p, NEW k, Chprio(p, k) PROVE FALSE
  BY <1>3 DEF Chprio, Calling
<1>4. ASSUME NEW p \in Pid, Resume(p) PROVE Fair'
  <2>1. p \in Pid \ {NULLPROC} /\ pstate[p] = "PRSUSP" /\ ReadyNow(Tables, p) /\ UNCHANGED pprio
    BY <1>4, PidFacts DEF Resume, tableVars
  <2>. QED
    BY <2>1, TablesTidy, WakeFair DEF Fair, Ranked
<1>5. ASSUME NEW p \in Pid, Suspend(p) PROVE Fair'
  <2>1. p # NULLPROC /\ UNCHANGED pprio /\ Running("user")
    BY <1>5, PidFacts DEF Suspend, tableVars, Calling
  <2>2. CASE pstate[p] = "PRREADY"
    <3>1. UNCHANGED <<currpid, qkey>> /\ pstate' = [pstate EXCEPT ![p] = "PRSUSP"]
      BY <1>5, <2>2 DEF Suspend, Keep, SetState, Tables
    <3>2. Lessens
      BY <1>0, <2>1, <3>1 DEF Lessens
    <3>. QED
      BY <2>1, <3>2, FairLess
  <2>3. CASE pstate[p] = "PRCURR"
    <3>1. p = currpid /\ Resched(SetState(Tables, p, "PRSUSP"), preempt)
      BY <1>0, <1>5, <2>3 DEF Suspend, StateIs
    <3>. QED
      BY <2>1, <3>1, BlockedFair DEF States
  <2>. QED
    BY <1>5, <2>2, <2>3 DEF Suspend
<1>6. ASSUME NEW p \in Pid, Kill(p) PROVE Fair'
  <2>1. Running("user") /\ SendTo(pnxtkin[p]) /\ pnxtkin[p] \in Int /\ UNCHANGED pprio
    BY <1>6 DEF Kill, Calling, IInv, Resumable
  <2>. QED
    BY <2>1, SendToFair
<1>7. ASSUME KillEnd PROVE Fair'
  <2>. PICK p : p = frame[currpid].x
    OBVIOUS
  <2>0. p \in Pid \ {NULLPROC} /\ UNCHANGED pprio /\ Running("kill")
    BY <1>7, ProcessMoves DEF KillEnd, tableVars
  <2>. PICK freed : freed = SetState(Tables, p, "PRFREE")
    OBVIOUS
  <2>1. freed.pstate = [pstate EXCEPT ![p] = "PRFREE"] /\ freed.qkey = qkey
    BY SetStateFields
  <2>2. CASE pstate[p] = "PRCURR"
    <3>1. p = currpid
      BY <1>0, <2>0, <2>2 DEF StateIs
    <3>2. /\ Resched(SetState(Tables, currpid, "PRFREE"), preempt)
          /\ currpid # NULLPROC /\ "PRFREE" \in States \ {"PRREADY", "PRCURR"}
      BY <1>7, <2>0, <2>2, <3>1 DEF KillEnd, States
    <3>. QED
      BY <2>0, <3>2, BlockedFair
  <2>3. CASE pstate[p] # "PRCURR"
    <3>1. /\ UNCHANGED currpid /\ pstate' = freed.pstate
          /\ \/ qkey' = freed.qkey
             \/ pstate[p] \in {"PRSLEEP", "PRTRECV"} /\ qkey' = UnsleepKeys(p)
      BY <1>7, <2>3 DEF KillEnd, Keep
    <3>2. \A r \in Pid : pstate[r] = "PRREADY" => qkey'[r] = qkey[r]
      BY <2>0, <2>1, <3>1, CancelRanks
    <3>3. Lessens
      BY <1>0, <2>0, <2>1, <3>1, <3>2 DEF Lessens
    <3>. QED
      BY <2>0, <3>3, FairLess DEF Running, Loops
  <2>. QED
    BY <2>2, <2>3
<1>. QED
  BY <1>1, <1>2, <1>3, <1>4, <1>5, <1>6, <1>7 DEF ProcessCall

\* Waiters woken go to the ready list; resched() ends each loop.
LEMMA FairSemaphoreSteps ==
  ASSUME IInv, Ordered, Fair, SemaphoreCall \/ SignalnNext \/ SignalnEnd \/ SresetNext \/ SresetEnd
                        \/ SdeleteNext \/ SdeleteEnd
  PROVE  Fair'
<1>0. UNCHANGED pprio
  BY DEF SemaphoreCall, Screate, Wait, Signal, Signaln, Sreset, Sdelete, SignalnNext, SignalnEnd,
         SresetNext, SresetEnd, SdeleteNext, SdeleteEnd, tableVars
<1>1. ASSUME NEW s, NEW c, Screate(c) \/ Signaln(s, c) \/ Sreset(s, c) \/ Sdelete(s)
                           \/ (Wait(s) /\ semcnt[s] > 0)
      PROVE  Fair'
  <2>1. UNCHANGED <<currpid, pstate, qkey>> /\ Running("user")
    BY <1>1 DEF Screate, Signaln, Sreset, Sdelete, Wait, cpuVars, Calling
  <2>. QED
    BY <1>0, <2>1, FairLess DEF Lessens
<1>2. ASSUME NEW s \in Sem, Wait(s), ~(semcnt[s] > 0) PROVE Fair'
  BY <1>0, <1>2, BlockedFair DEF Wait, Calling, States
<1>3. ASSUME SignalnEnd \/ SresetEnd \/ SdeleteEnd PROVE Fair'
  BY <1>0, <1>3, ReschedFair DEF SignalnEnd, SresetEnd, SdeleteEnd
<1>4. ASSUME NEW s \in Sem, Signal(s) PROVE Fair'
  <2>1. CASE Woken(s) = EMPTY
    <3>1. Keep(Tables) /\ Running("user")
      BY <1>4, <2>1, EmptyIsBad DEF Signal, ReadyNow, Calling
    <3>. QED
      BY <1>0, <3>1, KeepStays, FairLess DEF Lessens
  <2>2. CASE Woken(s) # EMPTY
    <3>1. Woken(s) \in Pid \ {NULLPROC} /\ pstate[Woken(s)] = "PRWAIT" /\ ReadyNow(Tables, Woken(s))
      BY <1>4, <2>2, WokenIsHead DEF Signal
    <3>. QED
      BY <1>0, <3>1, TablesTidy, WakeFair DEF Fair, Ranked
  <2>. QED
    BY <2>1, <2>2
<1>5. ASSUME SignalnNext PROVE Fair'
  <2>1. PICK s \in Sem : s = frame[currpid].x
    BY <1>5, SemaphoreMoves
  <2>2. Keep(Ready(Tables, Woken(s))) /\ \E n : Leave(At("signaln", s, n))
    BY <1>5, <2>1 DEF SignalnNext
  <2>3. frame'[currpid].at \in Loops /\ UNCHANGED currpid
    BY <2>2, LeaveFacts, AtFields DEF Keep, Loops
  <2>4. CASE Woken(s) = EMPTY
    <3>1. Keep(Tables)
      BY <2>2, <2>4, EmptyIsBad DEF Ready
    <3>. QED
      BY <1>0, <2>3, <3>1, KeepStays DEF Fair, Ranked, Ranks
  <2>5. CASE Woken(s) # EMPTY
    <3>1. Woken(s) \in Pid \ {NULLPROC} /\ pstate[Woken(s)] = "PRWAIT"
      BY <2>5, WokenIsHead
    <3>. QED
      BY <1>0, <2>2, <2>3, <3>1, WakeLaterFair
  <2>. QED
    BY <2>4, <2>5
<1>6. ASSUME SresetNext \/ SdeleteNext PROVE Fair'
  <2>1. PICK s, p : s = frame[currpid].x /\ p = Head(semq[s])
    OBVIOUS
  <2>2. p \in Pid \ {NULLPROC} /\ pstate[p] = "PRWAIT"
    BY <1>6, <2>1, SemaphoreMoves
  <2>3. Keep(Ready(Tables, p)) /\ frame'[currpid].at \in Loops
    BY <1>6, <2>1 DEF SresetNext, SdeleteNext, Running, Loops
  <2>. QED
    BY <1>0, <2>2, <2>3, WakeLaterFair
<1>. QED
  BY <1>1, <1>2, <1>3, <1>4, <1>5, <1>6 DEF SemaphoreCall

\* Messages, sleeps and the clock.
LEMMA FairClockSteps ==
  ASSUME IInv, Ordered, Pointed, Fair, MessageCall \/ SleepCall \/ ReceiveEnd \/ RecvtimEnd
                                 \/ Tick \/ WakeupNext \/ WakeupEnd \/ Clpreem
  PROVE  Fair'
<1>0. UNCHANGED pprio
  BY DEF MessageCall, SleepCall, Send, Receive, Recvtim, Recvclr, Sleep, ReceiveEnd, RecvtimEnd,
         TakeMessage, Tick, WakeupNext, WakeupEnd, Clpreem, tableVars
<1>1. ASSUME NEW p \in Pid, Send(p) PROVE Fair'
  <2>1. p \in Int /\ SendTo(p) /\ Running("user")
    BY <1>1, NPROCAssumption DEF Send, Pid, Calling
  <2>. QED
    BY <1>0, <2>1, SendToFair
<1>2. ASSUME Receive /\ ~phasmsg[currpid] PROVE Fair'
  <2>1. /\ currpid # NULLPROC /\ "PRRECV" \in States \ {"PRREADY", "PRCURR"}
        /\ Resched(SetState(Tables, currpid, "PRRECV"), preempt)
    BY <1>2 DEF Receive, Calling, States
  <2>. QED
    BY <1>0, <2>1, BlockedFair
<1>3. ASSUME NEW k \in Delays, (Recvtim(k) /\ ~phasmsg[currpid]) \/ (Sleep(k) /\ k # 0) PROVE Fair'
  <2>1. k \in Nat /\ currpid # NULLPROC
        /\ \E st \in {"PRSLEEP", "PRTRECV"} : \E f : SleepFor(k, st, f)
    BY <1>3, DelaysAssumption DEF Recvtim, Sleep, Calling
  <2>. QED
    BY <1>0, <2>1, SleepForFair
<1>4. ASSUME \/ (Receive \/ (\E k : Recvtim(k))) /\ phasmsg[currpid]
             \/ ReceiveEnd \/ RecvtimEnd \/ Recvclr
      PROVE  Fair'
  <2>1. UNCHANGED <<currpid, pstate, qkey>> /\ frame[currpid].at \notin Loops
    BY <1>4 DEF Receive, Recvtim, ReceiveEnd, RecvtimEnd, Recvclr, cpuVars, Running, Calling, Loops
  <2>. QED
    BY <1>0, <2>1, FairLess DEF Lessens
<1>5. ASSUME Sleep(0) \/ WakeupEnd PROVE Fair'
  BY <1>0, <1>5, ReschedFair DEF Sleep, WakeupEnd
<1>6. ASSUME Tick PROVE Fair'
  <2>1. /\ UNCHANGED <<currpid, pstate>> /\ Running("user")
        /\ UNCHANGED qkey \/ (slnempty /\ qkey' = [qkey EXCEPT ![sltop] = qkey[sltop] - 1])
    BY <1>6 DEF Tick
  <2>2. slnempty => sltop \in Pid /\ pstate[sltop] # "PRREADY"
    <3>1. slnempty => clockq # <<>> /\ sltop = Head(clockq)
      BY <2>1 DEF Pointed, Running
    <3>2. clockq # <<>> => 1 \in 1..Len(clockq) /\ Head(clockq) = clockq[1]
      BY SleeperFacts
    <3>. QED
      BY <3>1, <3>2, SleeperFacts
  <2>3. \A r \in Pid : pstate[r] = "PRREADY" => qkey'[r] = qkey[r]
    BY <2>1, <2>2, TablesTidy
  <2>. QED
    BY <1>0, <2>1, <2>3, FairLess DEF Lessens
<1>7. ASSUME WakeupNext PROVE Fair'
  <2>1. PICK h : h = Head(clockq)
    OBVIOUS
  <2>2. h \in Pid \ {NULLPROC} /\ pstate[h] \in {"PRSLEEP", "PRTRECV"}
    BY <1>7, <2>1, ClockMoves
  <2>3. Keep(Ready(Tables, h)) /\ frame'[currpid].at \in Loops
    BY <1>7, <2>1 DEF WakeupNext, Running, Loops
  <2>. QED
    BY <1>0, <2>2, <2>3, WakeLaterFair
<1>8. ASSUME Clpreem PROVE Fair'
  <2>. PICK ticks : ticks = IF preempt > 0 THEN preempt - 1 ELSE 0
    OBVIOUS
  <2>1. CASE ticks > 0
    <3>1. UNCHANGED <<currpid, pstate, qkey>> /\ frame[currpid].at \notin Loops
      BY <1>8, <2>1 DEF Clpreem, Running, Loops
    <3>. QED
      BY <1>0, <3>1, FairLess DEF Lessens
  <2>2. CASE ~(ticks > 0)
    BY <1>0, <1>8, <2>2, ReschedFair DEF Clpreem
  <2>. QED
    BY <2>1, <2>2
<1>. QED
  <2>1. CASE MessageCall \/ ReceiveEnd \/ RecvtimEnd
    BY <1>1, <1>2, <1>3, <1>4, <2>1 DEF MessageCall
  <2>2. CASE SleepCall
    <3>1. PICK k \in Delays : Sleep(k)
      BY <2>2 DEF SleepCall
    <3>. QED
      BY <1>3, <1>5, <3>1
  <2>. QED
    BY <1>5, <1>6, <1>7, <1>8, <2>1, <2>2

\* The state main() starts in: the null process, of priority 0, alone is ready.
LEMMA InitFair == Init => Fair
<1>. SUFFICES ASSUME Init PROVE Fair
  OBVIOUS
<1>1. /\ pprio \in [Pid -> Prios \cup {0}] /\ \A p \in Pid : pprio[p] = 0 <=> p \notin Born \cup {Main}
  BY Zenon DEF Init
<1>2. /\ currpid = Main /\ qkey = [p \in Pid |-> 0]
      /\ \A r \in Pid : pstate[r] = "PRREADY" => r = NULLPROC
  BY DEF Init
<1>3. NULLPROC \notin Born \cup {Main} /\ Main \in Pid
  BY NPROCAssumption, NBORNAssumption DEF Born, Main, NULLPROC, Pid
<1>4. pprio[NULLPROC] = 0 /\ pprio[Main] \in Nat
  BY <1>1, <1>3, PidFacts, PriosAssumption
<1>. QED
  BY <1>2, <1>4 DEF Fair, Ranked, Ranks, TopNow, NULLPROC

\* Every step does: the inductive invariant.
LEMMA NextFair ==
  ASSUME "chprio" \notin Calls
  PROVE  IInv /\ Ordered /\ Pointed /\ Fair /\ [Next]_vars => Fair'
<1>1. ASSUME IInv, Ordered, Pointed, Fair, Next PROVE Fair'
  BY <1>1, FairProcessSteps, FairSemaphoreSteps, FairClockSteps DEF Next, Continue
<1>2. ASSUME Fair, UNCHANGED vars PROVE Fair'
  BY <1>2 DEF Fair, Ranked, Ranks, TopNow, vars, cpuVars, tableVars
<1>. QED
  BY <1>1, <1>2

\* So in user code nobody ready has a key above the priority that runs.
TopInUserCode ==
  frame[currpid].at = "user" => \A i \in 1..Len(rdy) : qkey[rdy[i]] <= pprio[currpid]

\* The last of a sorted ready list is the most urgent, and not above the current.
LEMMA FairIsTop == IInv /\ Ordered /\ Fair => TopInUserCode
<1>. SUFFICES ASSUME IInv, Ordered, Fair, frame[currpid].at = "user", NEW i \in 1..Len(rdy)
              PROVE  qkey[rdy[i]] <= pprio[currpid]
  BY DEF TopInUserCode
<1>1. rdy[i] \in Pid /\ Contains(rdy, rdy[i])
  BY SleeperFacts DEF Contains
<1>2. pstate[rdy[i]] = "PRREADY"
  BY <1>1, SleeperFacts
<1>. QED
  BY <1>1, <1>2 DEF Fair, Ranked, Ranks, TopNow, Loops

\* A call or an interrupt that wakes somebody, or ends in resched(), returns to
\* no process of lower priority than one that is ready, unless chprio() is used
\* (resched.c:157-167).
THEOREM HighestAlwaysDispatched ==
  ASSUME "chprio" \notin Calls
  PROVE  Spec => DispatchesHighest
<1>1. Init => IInv /\ Ordered /\ Pointed /\ Fair
  BY InitIInv, PointedInductive, InitOrdered, InitFair
<1>2. IInv /\ Ordered /\ Pointed /\ Fair /\ [Next]_vars => IInv' /\ Ordered' /\ Pointed' /\ Fair'
  BY NextIInv, PointedInductive, KeySteps, KeyStutter, NextFair
<1>3. TopInUserCode' =>
        [frame'[currpid'].at = "user" /\ (currpid' # currpid \/ Len(rdy') > Len(rdy)
                                        \/ frame[currpid].at # "user")
          => \A i \in 1..Len(rdy') : qkey'[rdy'[i]] <= pprio'[currpid']]_vars
  BY DEF TopInUserCode
<1>. QED
  BY <1>1, <1>2, <1>3, FairIsTop, PTL DEF Spec, DispatchesHighest
===============================================================================
