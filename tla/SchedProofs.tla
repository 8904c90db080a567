------------------------------- MODULE SchedProofs -------------------------------
(***************************************************************************)
(* The Linux-like class deals shares out fairly (RunsOnItsShare,           *)
(* IdleOnlyWhenNobodyReady and EpochOnlyWhenSpent of SchedClasses) and     *)
(* aging lets whoever waits catch up (AgingCatchesUp), for any number of   *)
(* processes, any priorities and any debt of main()'s.                     *)
(***************************************************************************)
EXTENDS SchedClasses, ListProofs

St == {"PRCURR", "PRREADY", "PRSUSP", "PRSLEEP", "PRFREE"}
Fields == {"currpid", "preempt", "epoch", "pstate", "pprio", "goodness",
           "quantum", "unused", "rdy", "qkey"}

ReadyIn(T) == {p \in Pid : T.pstate[p] = "PRREADY"}

\* The tables linuxsched() works on: the ready list holds who is ready.
Shape(T) ==
  /\ T = [x \in Fields |-> T[x]]
  /\ T.currpid \in Pid
  /\ T.pstate \in [Pid -> St]
  /\ T.rdy \in Seq(Pid)
  /\ HoldsIn(Pid, T.rdy, ReadyIn(T))
  /\ T.pstate[NULLPROC] \in {"PRCURR", "PRREADY"}

\* Nobody but currpid is marked as running, and it is not on the ready list.
Alone(T) ==
  /\ T.pstate[T.currpid] # "PRREADY"
  /\ \A p \in Pid : T.pstate[p] = "PRCURR" => p = T.currpid

\* What a process has left of its share, and its goodness: main() may owe ticks.
Shares(T) ==
  /\ T.preempt \in Int
  /\ T.pprio \in [Pid -> Nat]
  /\ T.goodness \in [Pid -> Int]
  /\ T.quantum \in [Pid -> Int]
  /\ T.unused \in [Pid -> Int]
  /\ T.goodness[NULLPROC] = 0 /\ T.unused[NULLPROC] = 0
  /\ \A p \in User : /\ T.unused[p] <= T.goodness[p]
                     /\ T.pstate[p] # "PRFREE" => T.pprio[p] >= 1
  /\ \A p \in User \ {Main} : /\ T.unused[p] >= 0
                              /\ T.unused[p] = 0 <=> T.goodness[p] = 0

\* The running process has at least n ticks left, and no more than its share.
Left(T, n) == T.currpid \in User \ {Main} => T.preempt \in n..T.unused[T.currpid]

\* The null process leaves nobody waiting but a main() that owes ticks.
Idle(T) ==
  T.currpid = NULLPROC =>
    ReadyIn(T) = {} \/ (T.pstate[Main] = "PRREADY" /\ T.unused[Main] < 0)

\* What a call may pass to linuxsched(), and what linuxsched() comes back with.
Payable(T) == Shape(T) /\ Alone(T) /\ Shares(T) /\ Left(T, 0)
Settled(T) ==
  /\ Shape(T) /\ Alone(T) /\ Shares(T) /\ Left(T, 1) /\ Idle(T)
  /\ T.pstate[T.currpid] = "PRCURR"

\* The inductive invariant: the aging class leaves the shares at nothing.
SchedInv ==
  /\ schedclass \in {"AGESCHED", "LINUXSCHED"}
  /\ schedclass = "AGESCHED" => unused_quantum = [p \in Pid |-> 0]
  /\ schedclass = "LINUXSCHED" =>
       /\ Settled(Tables)
       /\ \A p \in Pid : pstate[p] = "PRFREE" => unused_quantum[p] = 0

-------------------------------------------------------------------------------
(***************************************************************************)
(* The helpers of linuxsched(), one by one.                                *)
(***************************************************************************)
LEMMA PidIsFinite == NULLPROC \in Pid /\ Main \in Pid /\ NPROC \in Nat
BY NPROCAssumption DEF Pid, NULLPROC, Main

\* What maximumgoodness() compares, and what it returns.
Values(f, n) == {f[i] : i \in 1..n} \cup {-1}
HasGreatest(S) == \E x \in S : \A y \in S : x >= y

\* A finite list of integers has a greatest element, if -1 counts as one.
LEMMA GreatestExists ==
  ASSUME NEW n \in Nat, NEW f \in [1..n -> Int]
  PROVE  HasGreatest(Values(f, n))
<1>. DEFINE Upto(m) == \E x \in {f[i] : i \in 1..m} \cup {-1} :
                         \A y \in {f[i] : i \in 1..m} \cup {-1} : x >= y
            bad == {m \in 0..n : ~Upto(m)}
<1>1. Upto(0)
  OBVIOUS
<1>2. ASSUME NEW m \in 1..n, Upto(m - 1) PROVE Upto(m)
  <2>1. PICK x \in {f[i] : i \in 1..m - 1} \cup {-1} :
          \A y \in {f[i] : i \in 1..m - 1} \cup {-1} : x >= y
    BY <1>2
  <2>2. x \in Int /\ f[m] \in Int
    OBVIOUS
  <2>3. \A y \in {f[i] : i \in 1..m} \cup {-1} :
          y \in {f[i] : i \in 1..m - 1} \cup {-1} \/ y = f[m]
    OBVIOUS
  <2>4. x \in {f[i] : i \in 1..m} \cup {-1} /\ f[m] \in {f[i] : i \in 1..m} \cup {-1}
    OBVIOUS
  <2>5. CASE x >= f[m]
    BY <2>1, <2>2, <2>3, <2>4, <2>5
  <2>6. CASE ~(x >= f[m])
    <3>1. ASSUME NEW y \in {f[i] : i \in 1..m - 1} \cup {-1} PROVE f[m] >= y
      <4>1. y \in Int
        <5>1. ASSUME NEW i \in 1..m - 1, y = f[i] PROVE y \in Int
          <6>1. i \in 1..n
            OBVIOUS
          <6>. QED
            BY <5>1, <6>1
        <5>. QED
          BY <5>1
      <4>2. x >= y
        BY <2>1
      <4>. QED
        BY <2>2, <2>6, <4>1, <4>2
    <3>2. f[m] >= f[m]
      BY <2>2
    <3>3. \A y \in {f[i] : i \in 1..m} \cup {-1} : f[m] >= y
      BY <2>3, <3>1, <3>2
    <3>. QED
      BY <2>4, <3>3
  <2>. QED
    BY <2>5, <2>6
<1>3. bad = {}
  <2>. SUFFICES ASSUME bad # {} PROVE FALSE
    OBVIOUS
  <2>1. bad \in SUBSET Nat
    OBVIOUS
  <2>2. PICK m \in bad : \A j \in bad : m <= j
    <3>. HIDE DEF bad
    <3>. QED
      BY <2>1, MinIsLeast
  <2>. HIDE DEF Upto
  <2>3. m \in 1..n /\ ~Upto(m)
    BY <1>1, <2>2
  <2>4. m - 1 \in 0..n /\ m - 1 < m
    BY <2>3
  <2>5. Upto(m - 1)
    BY <2>2, <2>4
  <2>. QED
    BY <1>2, <2>3, <2>5
<1>. QED
  <2>. HIDE DEF Upto
  <2>1. Upto(n)
    BY <1>3
  <2>. QED
    BY <2>1 DEF Upto, HasGreatest, Values

\* maximumgoodness() is -1 or that of somebody on the list, and
\* maximumgoodnessproc() one who has it (resched.c:16-46).
LEMMA MaximumFacts ==
  ASSUME NEW T, T.rdy \in Seq(Pid), T.goodness \in [Pid -> Int]
  PROVE  /\ maximumgoodness(T) \in Int /\ maximumgoodness(T) >= -1
         /\ \A p \in Pid : Contains(T.rdy, p) => T.goodness[p] <= maximumgoodness(T)
         /\ maximumgoodness(T) # -1 =>
              \E p \in Pid : Contains(T.rdy, p) /\ T.goodness[p] = maximumgoodness(T)
         /\ maximumgoodness(T) # -1 =>
              /\ maximumgoodnessproc(T) \in Pid /\ Contains(T.rdy, maximumgoodnessproc(T))
              /\ T.goodness[maximumgoodnessproc(T)] = maximumgoodness(T)
<1>. PICK n, list, g : list = T.rdy /\ n = Len(list) /\ g = T.goodness
  OBVIOUS
<1>. DEFINE f == [i \in 1..n |-> g[list[i]]]
            S == {g[list[i]] : i \in 1..n} \cup {-1}
            m == maximumgoodness(T)
<1>1. n \in Nat /\ f \in [1..n -> Int] /\ list \in Seq(Pid) /\ g \in [Pid -> Int]
  OBVIOUS
<1>2. S = Values(f, n) /\ S \subseteq Int
  <2>1. ASSUME NEW i \in 1..n PROVE f[i] = g[list[i]] /\ g[list[i]] \in Int
    BY <1>1
  <2>. HIDE DEF f
  <2>2. Values(f, n) \subseteq S
    BY <2>1 DEF Values
  <2>4. S \subseteq Values(f, n)
    BY <2>1 DEF Values
  <2>3. S \subseteq Int
    BY <2>1
  <2>. QED
    BY <2>2, <2>3, <2>4
<1>3. \E x \in S : \A y \in S : x >= y
  <2>. HIDE DEF f, S
  <2>. QED
    BY <1>1, <1>2, GreatestExists DEF HasGreatest
<1>4. m = Max(S)
  BY DEF maximumgoodness
<1>5. m \in S /\ \A y \in S : m >= y
  <2>. HIDE DEF S, m
  <2>. QED
    BY <1>3, <1>4 DEF Max
<1>. DEFINE places == {i \in 1..n : g[list[i]] = m}
<1>6. ASSUME m # -1
      PROVE  /\ places # {} /\ places \in SUBSET Nat
             /\ maximumgoodnessproc(T) = list[Min(places)]
  <2>. HIDE DEF m
  <2>1. PICK i \in 1..n : m = g[list[i]]
    BY <1>5, <1>6
  <2>2. maximumgoodnessproc(T) = list[Min(places)]
    BY DEF maximumgoodnessproc, m
  <2>. QED
    BY <2>1, <2>2
<1>7. ASSUME m # -1
      PROVE  Min(places) \in places
  <2>. HIDE DEF places
  <2>. QED
    BY <1>6, <1>7, MinIsLeast
<1>8. ASSUME m # -1
      PROVE  /\ maximumgoodnessproc(T) \in Pid /\ Contains(list, maximumgoodnessproc(T))
             /\ g[maximumgoodnessproc(T)] = m
  <2>. HIDE DEF m
  <2>1. PICK i \in places : i = Min(places)
    BY <1>7, <1>8
  <2>2. i \in 1..n /\ g[list[i]] = m
    BY <2>1
  <2>5. list[i] \in Pid
    BY <1>1, <2>2
  <2>3. maximumgoodnessproc(T) = list[i]
    BY <1>6, <1>8, <2>1
  <2>4. Contains(list, list[i])
    BY <2>2 DEF Contains
  <2>. QED
    BY <2>2, <2>3, <2>4, <2>5
<1>9. \A p \in Pid : Contains(list, p) => g[p] <= m
  <2>1. ASSUME NEW i \in 1..n PROVE g[list[i]] <= m
    <3>1. g[list[i]] \in S /\ g[list[i]] \in Int
      BY <1>1
    <3>. HIDE DEF S, m
    <3>. QED
      BY <1>2, <1>5, <3>1
  <2>. HIDE DEF m
  <2>. QED
    BY <2>1 DEF Contains
<1>10. m \in Int /\ m >= -1
  <2>1. -1 \in S
    OBVIOUS
  <2>. HIDE DEF S, m
  <2>. QED
    BY <1>2, <1>5, <2>1
<1>. QED
  BY <1>8, <1>9, <1>10

-------------------------------------------------------------------------------
(***************************************************************************)
(* The running process pays for what it used (resched.c:58-79).            *)
(***************************************************************************)
Charged(T) ==
  IF T.preempt = 0 THEN 0 ELSE T.goodness[T.currpid] - (T.unused[T.currpid] - T.preempt)

\* Paying changes the share and the goodness of the running process only.
LEMMA PayFields ==
  ASSUME NEW T, T = [x \in Fields |-> T[x]]
  PROVE  /\ Pay(T) = [x \in Fields |-> Pay(T)[x]]
         /\ Pay(T).currpid = T.currpid /\ Pay(T).preempt = T.preempt
         /\ Pay(T).pstate = T.pstate /\ Pay(T).pprio = T.pprio
         /\ Pay(T).quantum = T.quantum /\ Pay(T).rdy = T.rdy
         /\ T.currpid = NULLPROC => /\ Pay(T).goodness = T.goodness
                                    /\ Pay(T).unused = T.unused
         /\ T.currpid # NULLPROC =>
              /\ Pay(T).goodness = [T.goodness EXCEPT ![T.currpid] = Charged(T)]
              /\ Pay(T).unused = [T.unused EXCEPT ![T.currpid] = T.preempt]
<1>. DEFINE K == [T EXCEPT !.qkey = [p \in Pid |->
                           IF Contains(T.rdy, p) THEN T.goodness[p] ELSE @[p]]]
<1>1. /\ K = [x \in Fields |-> K[x]]
      /\ K.currpid = T.currpid /\ K.preempt = T.preempt
      /\ K.pstate = T.pstate /\ K.pprio = T.pprio
      /\ K.quantum = T.quantum /\ K.rdy = T.rdy
      /\ K.goodness = T.goodness /\ K.unused = T.unused
  BY DEF Fields
<1>2. Pay(T) = IF T.currpid = NULLPROC THEN K ELSE Charge(K)
  BY DEF Pay
<1>. HIDE DEF K
<1>3. /\ Charge(K) = [x \in Fields |-> Charge(K)[x]]
      /\ Charge(K).currpid = K.currpid /\ Charge(K).preempt = K.preempt
      /\ Charge(K).pstate = K.pstate /\ Charge(K).pprio = K.pprio
      /\ Charge(K).quantum = K.quantum /\ Charge(K).rdy = K.rdy
      /\ Charge(K).goodness = [K.goodness EXCEPT ![K.currpid] = Charged(K)]
      /\ Charge(K).unused = [K.unused EXCEPT ![K.currpid] = K.preempt]
  BY <1>1 DEF Charge, Charged, Fields
<1>4. Charged(K) = Charged(T)
  BY <1>1 DEF Charged
<1>. QED
  BY <1>1, <1>2, <1>3, <1>4

\* What is the same in two tables: who is in which state, on which list.
SameProcs(R, T) ==
  /\ R.currpid = T.currpid /\ R.preempt = T.preempt
  /\ R.pstate = T.pstate /\ R.pprio = T.pprio /\ R.rdy = T.rdy

\* Once it has paid, the running process has as much left as preempt says, and
\* its goodness runs out with it; nobody else pays.
LEMMA PayFacts ==
  ASSUME NEW T, Payable(T)
  PROVE  /\ Shape(Pay(T)) /\ Alone(Pay(T)) /\ Shares(Pay(T)) /\ SameProcs(Pay(T), T)
         /\ \A p \in Pid \ {T.currpid} : /\ Pay(T).goodness[p] = T.goodness[p]
                                         /\ Pay(T).unused[p] = T.unused[p]
         /\ T.currpid # NULLPROC =>
              /\ Pay(T).unused[T.currpid] = T.preempt
              /\ Pay(T).goodness[T.currpid] = 0 => T.preempt <= 0
<1>. DEFINE P == Pay(T)
            c == T.currpid
<1>1. Shape(T) /\ Alone(T) /\ Shares(T) /\ Left(T, 0) /\ T = [x \in Fields |-> T[x]]
  BY DEF Payable, Shape
<1>2. /\ P = [x \in Fields |-> P[x]] /\ SameProcs(P, T) /\ P.quantum = T.quantum
      /\ T.currpid = NULLPROC => P.goodness = T.goodness /\ P.unused = T.unused
      /\ T.currpid # NULLPROC =>
              /\ P.goodness = [T.goodness EXCEPT ![T.currpid] = Charged(T)]
              /\ P.unused = [T.unused EXCEPT ![T.currpid] = T.preempt]
  BY <1>1, PayFields DEF SameProcs
<1>. HIDE DEF P
<1>3. Shape(P) /\ Alone(P)
  BY <1>1, <1>2 DEF Shape, Alone, SameProcs, ReadyIn
<1>4. CASE c = NULLPROC
  BY <1>1, <1>2, <1>3, <1>4 DEF Shares, SameProcs, P
<1>5. CASE c # NULLPROC
  <2>1. /\ c \in User /\ T.preempt \in Int /\ T.goodness[c] \in Int /\ T.unused[c] \in Int
        /\ T.unused[c] <= T.goodness[c] /\ c \in Pid
    BY <1>1, <1>5 DEF Shares, Shape, User
  <2>2. /\ Charged(T) \in Int /\ T.preempt <= Charged(T)
        /\ Charged(T) = 0 => T.preempt <= 0
        /\ T.preempt = 0 => Charged(T) = 0
    BY <2>1 DEF Charged
  <2>3. c # Main => T.preempt >= 0
    BY <1>1, <2>1 DEF Left
  <2>4. /\ P.goodness[c] = Charged(T) /\ P.unused[c] = T.preempt
        /\ P.goodness \in [Pid -> Int] /\ P.unused \in [Pid -> Int]
        /\ \A p \in Pid \ {c} : P.goodness[p] = T.goodness[p] /\ P.unused[p] = T.unused[p]
    BY <1>1, <1>2, <1>5, <2>1, <2>2 DEF Shares
  <2>5. /\ P.goodness[NULLPROC] = 0 /\ P.unused[NULLPROC] = 0
        /\ P.preempt \in Int /\ P.pprio \in [Pid -> Nat] /\ P.quantum \in [Pid -> Int]
    BY <1>1, <1>2, <1>5, <2>4, PidIsFinite DEF Shares, SameProcs
  <2>6. ASSUME NEW p \in User
        PROVE  /\ P.unused[p] <= P.goodness[p]
               /\ P.pstate[p] # "PRFREE" => P.pprio[p] >= 1
    BY <1>1, <1>2, <2>2, <2>4 DEF Shares, SameProcs, User
  <2>7. ASSUME NEW p \in User \ {Main}
        PROVE  /\ P.unused[p] >= 0
               /\ P.unused[p] = 0 <=> P.goodness[p] = 0
    <3>1. CASE p = c
      BY <2>1, <2>2, <2>3, <2>4, <3>1
    <3>2. CASE p # c
      BY <1>1, <2>4, <3>2 DEF Shares, User
    <3>. QED
      BY <3>1, <3>2
  <2>8. Shares(P)
    BY <2>4, <2>5, <2>6, <2>7 DEF Shares
  <2>. QED
    BY <1>2, <1>3, <2>2, <2>4, <2>8 DEF P
<1>. QED
  BY <1>4, <1>5

-------------------------------------------------------------------------------
(***************************************************************************)
(* A new epoch (resched.c:82-107).                                         *)
(***************************************************************************)
\* A new share takes at least the priority over, if no ticks are owed.
LEMMA HalfFacts ==
  ASSUME NEW u \in Int, NEW k \in Nat
  PROVE  /\ Half(u, k) \in Int
         /\ u >= 0 => Half(u, k) >= k
<1>1. PICK d \in Int : d = u + 2 * k
  OBVIOUS
<1>2. Half(u, k) = IF d >= 0 THEN d \div 2 ELSE -((-d) \div 2)
  BY <1>1 DEF Half
<1>3. CASE d >= 0
  <2>1. d \div 2 \in Int /\ (u >= 0 => d \div 2 >= k)
    BY <1>1, <1>3
  <2>. QED
    BY <1>2, <1>3, <2>1
<1>4. CASE d < 0
  <2>1. ~(u >= 0) /\ -d \in Int
    BY <1>1, <1>4
  <2>2. (-d) \div 2 \in Int
    BY <2>1
  <2>. QED
    BY <1>2, <1>4, <2>1, <2>2
<1>. QED
  BY <1>1, <1>3, <1>4

LiveIn(T) == {p \in Pid \ {NULLPROC} : T.pstate[p] # "PRFREE"}

\* A new epoch changes shares only, and those of living processes only.
LEMMA EpochFields ==
  ASSUME NEW T, T = [x \in Fields |-> T[x]],
         T.quantum \in [Pid -> Int], T.unused \in [Pid -> Int], T.goodness \in [Pid -> Int]
  PROVE  /\ NewEpoch(T) = [x \in Fields |-> NewEpoch(T)[x]]
         /\ SameProcs(NewEpoch(T), T)
         /\ NewEpoch(T).quantum =
              [p \in Pid |-> IF p \in LiveIn(T) THEN NewQuantum(T, p) ELSE T.quantum[p]]
         /\ NewEpoch(T).unused =
              [p \in Pid |-> IF p \in LiveIn(T) THEN NewQuantum(T, p) ELSE T.unused[p]]
         /\ NewEpoch(T).goodness =
              [p \in Pid |-> IF p = NULLPROC THEN 0
                 ELSE IF p \in LiveIn(T) THEN NewQuantum(T, p) + T.pprio[p] ELSE T.goodness[p]]
<1>. DEFINE share == [p \in Pid |-> IF p \in LiveIn(T) THEN NewQuantum(T, p) ELSE T.quantum[p]]
<1>1. PICK sum : sum = MapThenSumSet(LAMBDA p : share[p], LiveIn(T))
  OBVIOUS
<1>2. NewEpoch(T) =
        [T EXCEPT !.epoch = sum,
                !.quantum = share,
                !.unused = [p \in Pid |-> IF p \in LiveIn(T) THEN share[p] ELSE @[p]],
                !.goodness = [p \in Pid |-> IF p = NULLPROC THEN 0
                                ELSE IF p \in LiveIn(T) THEN share[p] + T.pprio[p] ELSE @[p]]]
  BY <1>1 DEF NewEpoch, LiveIn
<1>3. \A p \in Pid : p \in LiveIn(T) => share[p] = NewQuantum(T, p)
  OBVIOUS
<1>. HIDE DEF share
<1>4. /\ NewEpoch(T) = [x \in Fields |-> NewEpoch(T)[x]]
      /\ SameProcs(NewEpoch(T), T)
      /\ NewEpoch(T).quantum = share
      /\ NewEpoch(T).unused = [p \in Pid |-> IF p \in LiveIn(T) THEN share[p] ELSE T.unused[p]]
      /\ NewEpoch(T).goodness =
           [p \in Pid |-> IF p = NULLPROC THEN 0
              ELSE IF p \in LiveIn(T) THEN share[p] + T.pprio[p] ELSE T.goodness[p]]
  BY <1>2 DEF Fields, SameProcs
<1>. QED
  BY <1>3, <1>4 DEF share

\* With a new epoch every living process has a share and goodness, but for a
\* main() that owes more than its new share.
LEMMA EpochFacts ==
  ASSUME NEW T, Shape(T), Alone(T), Shares(T)
  PROVE  /\ Shape(NewEpoch(T)) /\ Alone(NewEpoch(T)) /\ Shares(NewEpoch(T))
         /\ SameProcs(NewEpoch(T), T)
         /\ \A p \in User : T.pstate[p] # "PRFREE" =>
              \/ NewEpoch(T).goodness[p] >= 1
              \/ p = Main /\ NewEpoch(T).unused[p] < 0
<1>. DEFINE E == NewEpoch(T)
            nq == [p \in Pid |-> NewQuantum(T, p)]
<1>1. T = [x \in Fields |-> T[x]]
  BY DEF Shape
<1>2. /\ E = [x \in Fields |-> E[x]] /\ SameProcs(E, T)
      /\ E.quantum = [p \in Pid |-> IF p \in LiveIn(T) THEN NewQuantum(T, p) ELSE T.quantum[p]]
      /\ E.unused = [p \in Pid |-> IF p \in LiveIn(T) THEN NewQuantum(T, p) ELSE T.unused[p]]
      /\ E.goodness = [p \in Pid |-> IF p = NULLPROC THEN 0
              ELSE IF p \in LiveIn(T) THEN NewQuantum(T, p) + T.pprio[p] ELSE T.goodness[p]]
  BY <1>1, EpochFields DEF Shares
<1>. HIDE DEF E
<1>3. ASSUME NEW p \in Pid
      PROVE  /\ NewQuantum(T, p) \in Int
             /\ T.unused[p] >= 0 => NewQuantum(T, p) >= T.pprio[p]
  <2>1. T.unused[p] \in Int /\ T.pprio[p] \in Nat
    BY DEF Shares
  <2>2. NewQuantum(T, p) \in {T.pprio[p], Half(T.unused[p], T.pprio[p])}
    BY DEF NewQuantum
  <2>3. PICK h : h = Half(T.unused[p], T.pprio[p])
    OBVIOUS
  <2>4. h \in Int /\ (T.unused[p] >= 0 => h >= T.pprio[p])
    BY <2>1, <2>3, HalfFacts
  <2>. QED
    BY <2>1, <2>2, <2>3, <2>4
<1>4. Shape(E) /\ Alone(E)
  BY <1>2 DEF Shape, Alone, SameProcs, ReadyIn
<1>5. /\ E.preempt \in Int /\ E.pprio \in [Pid -> Nat] /\ E.quantum \in [Pid -> Int]
      /\ E.goodness \in [Pid -> Int] /\ E.unused \in [Pid -> Int]
  <2>1. T.pprio \in [Pid -> Nat] /\ T.preempt \in Int
    BY DEF Shares
  <2>2. ASSUME NEW p \in Pid
        PROVE  /\ NewQuantum(T, p) \in Int /\ NewQuantum(T, p) + T.pprio[p] \in Int
               /\ T.quantum[p] \in Int /\ T.goodness[p] \in Int /\ T.unused[p] \in Int
    BY <1>3, <2>1 DEF Shares
  <2>3. E.quantum \in [Pid -> Int]
    BY <1>2, <2>2
  <2>4. E.unused \in [Pid -> Int]
    BY <1>2, <2>2
  <2>5. E.goodness \in [Pid -> Int]
    BY <1>2, <2>2
  <2>. QED
    BY <1>2, <2>1, <2>3, <2>4, <2>5 DEF SameProcs
<1>6. E.goodness[NULLPROC] = 0 /\ E.unused[NULLPROC] = 0
  BY <1>2, PidIsFinite DEF Shares, LiveIn
<1>7. ASSUME NEW p \in User
      PROVE  /\ E.unused[p] <= E.goodness[p]
             /\ E.pstate[p] # "PRFREE" => E.pprio[p] >= 1
             /\ p # Main => E.unused[p] >= 0 /\ (E.unused[p] = 0 <=> E.goodness[p] = 0)
             /\ T.pstate[p] # "PRFREE" =>
                  E.goodness[p] >= 1 \/ (p = Main /\ E.unused[p] < 0)
  <2>1. p \in Pid /\ p # NULLPROC /\ T.pprio[p] \in Nat /\ E.pprio[p] = T.pprio[p]
        /\ E.pstate[p] = T.pstate[p]
    BY <1>2 DEF User, Shares, SameProcs
  <2>2. CASE T.pstate[p] = "PRFREE"
    <3>1. E.unused[p] = T.unused[p] /\ E.goodness[p] = T.goodness[p]
      BY <1>2, <2>1, <2>2 DEF LiveIn
    <3>. QED
      BY <2>1, <2>2, <3>1 DEF Shares
  <2>3. CASE T.pstate[p] # "PRFREE"
    <3>1. E.unused[p] = NewQuantum(T, p) /\ E.goodness[p] = NewQuantum(T, p) + T.pprio[p]
      BY <1>2, <2>1, <2>3 DEF LiveIn
    <3>2. T.pprio[p] >= 1 /\ T.unused[p] \in Int /\ (p # Main => T.unused[p] >= 0)
      BY <2>1, <2>3 DEF Shares
    <3>3. PICK n \in Int : n = NewQuantum(T, p)
      BY <1>3, <2>1
    <3>4. T.unused[p] >= 0 => n >= T.pprio[p]
      BY <1>3, <2>1, <3>3
    <3>. QED
      BY <2>1, <3>1, <3>2, <3>3, <3>4
  <2>. QED
    BY <2>2, <2>3
<1>8. Shares(E)
  BY <1>5, <1>6, <1>7 DEF Shares
<1>. QED
  BY <1>2, <1>4, <1>7, <1>8 DEF E

-------------------------------------------------------------------------------
(***************************************************************************)
(* Onto the ready list and off it again (insert.c, resched.c:109-150).     *)
(***************************************************************************)
\* What is the same in two tables: everybody's share.
SameShares(R, T) ==
  /\ R.pprio = T.pprio /\ R.goodness = T.goodness
  /\ R.quantum = T.quantum /\ R.unused = T.unused

PutOn(T, p, k) == Insert([T EXCEPT !.pstate[p] = "PRREADY"], p, k)

\* ready(), or a running process that steps down: onto the list, whatever its
\* key and whatever order the list is in.
LEMMA PutOnFacts ==
  ASSUME NEW T, Shape(T), NEW p \in Pid, T.pstate[p] # "PRREADY", NEW k
  PROVE  /\ Shape(PutOn(T, p, k)) /\ SameShares(PutOn(T, p, k), T)
         /\ PutOn(T, p, k).currpid = T.currpid /\ PutOn(T, p, k).preempt = T.preempt
         /\ PutOn(T, p, k).pstate = [T.pstate EXCEPT ![p] = "PRREADY"]
<1>. DEFINE M == [T EXCEPT !.pstate[p] = "PRREADY"]
            stop == {i \in 1..Len(M.rdy) : M.qkey[M.rdy[i]] >= k} \cup {Len(M.rdy) + 1}
            U == PutOn(T, p, k)
<1>1. T = [x \in Fields |-> T[x]] /\ T.rdy \in Seq(Pid) /\ T.pstate \in [Pid -> St]
  BY DEF Shape
<1>2. /\ M = [x \in Fields |-> M[x]] /\ SameShares(M, T)
      /\ M.currpid = T.currpid /\ M.preempt = T.preempt /\ M.rdy = T.rdy
      /\ M.pstate = [T.pstate EXCEPT ![p] = "PRREADY"]
  BY <1>1 DEF Fields, SameShares
<1>3. PICK at : at = Min(stop)
  OBVIOUS
<1>4. U = [M EXCEPT !.rdy = InsertAt(@, at, p), !.qkey[p] = k]
  BY <1>3 DEF PutOn, Insert
<1>5. at \in 1..Len(T.rdy) + 1
  <2>1. stop \in SUBSET Nat /\ stop # {} /\ stop \subseteq 1..Len(T.rdy) + 1
    <3>1. Len(M.rdy) = Len(T.rdy) /\ Len(T.rdy) \in Nat
      BY <1>1, <1>2
    <3>. HIDE DEF M
    <3>. QED
      BY <3>1
  <2>. HIDE DEF stop
  <2>. QED
    BY <1>3, <2>1, MinIsLeast
<1>. HIDE DEF M, U, stop
<1>6. /\ U = [x \in Fields |-> U[x]] /\ SameShares(U, T)
      /\ U.currpid = T.currpid /\ U.preempt = T.preempt
      /\ U.rdy = InsertAt(T.rdy, at, p)
      /\ U.pstate = [T.pstate EXCEPT ![p] = "PRREADY"]
  BY <1>2, <1>4 DEF Fields, SameShares
<1>7. HoldsIn(Pid, T.rdy, ReadyIn(T)) /\ p \notin ReadyIn(T)
  BY DEF Shape, ReadyIn
<1>8. U.rdy \in Seq(Pid) /\ HoldsIn(Pid, U.rdy, ReadyIn(T) \cup {p})
  <2>1. PICK list, R : list = T.rdy /\ R = ReadyIn(T)
    OBVIOUS
  <2>2. /\ InsertAt(list, at, p) \in Seq(Pid)
        /\ HoldsIn(Pid, InsertAt(list, at, p), R \cup {p})
    BY <1>1, <1>5, <1>7, <2>1, InsertAtHoldsIn
  <2>. QED
    BY <1>6, <2>1, <2>2
<1>9. ReadyIn(U) = ReadyIn(T) \cup {p}
  BY <1>1, <1>6 DEF ReadyIn
<1>10. Shape(U)
  BY <1>1, <1>6, <1>8, <1>9, PidIsFinite DEF Shape, St
<1>. QED
  BY <1>6, <1>10 DEF U

\* The one dispatched leaves the list and is the only one that runs.
LEMMA DispatchFacts ==
  ASSUME NEW T, Shape(T), NEW p \in Pid, T.pstate[p] = "PRREADY", NEW n,
         \A x \in Pid : T.pstate[x] # "PRCURR"
  PROVE  /\ Shape(Dispatch(T, p, n)) /\ Alone(Dispatch(T, p, n))
         /\ SameShares(Dispatch(T, p, n), T)
         /\ Dispatch(T, p, n).currpid = p /\ Dispatch(T, p, n).preempt = n
         /\ Dispatch(T, p, n).pstate = [T.pstate EXCEPT ![p] = "PRCURR"]
<1>. DEFINE D == Dispatch(T, p, n)
<1>1. T = [x \in Fields |-> T[x]] /\ T.rdy \in Seq(Pid) /\ T.pstate \in [Pid -> St]
  BY DEF Shape
<1>2. /\ D = [x \in Fields |-> D[x]] /\ SameShares(D, T)
      /\ D.currpid = p /\ D.preempt = n /\ D.rdy = RemoveFirst(T.rdy, p)
      /\ D.pstate = [T.pstate EXCEPT ![p] = "PRCURR"]
  BY <1>1 DEF Dispatch, Fields, SameShares
<1>. HIDE DEF D
<1>3. HoldsIn(Pid, T.rdy, ReadyIn(T))
  BY DEF Shape
<1>4. D.rdy \in Seq(Pid) /\ HoldsIn(Pid, D.rdy, ReadyIn(T) \ {p})
  <2>1. PICK list, R : list = T.rdy /\ R = ReadyIn(T)
    OBVIOUS
  <2>2. RemoveFirst(list, p) \in Seq(Pid) /\ HoldsIn(Pid, RemoveFirst(list, p), R \ {p})
    BY <1>1, <1>3, <2>1, RemoveFirstHoldsIn
  <2>. QED
    BY <1>2, <2>1, <2>2
<1>5. ReadyIn(D) = ReadyIn(T) \ {p}
  BY <1>1, <1>2 DEF ReadyIn
<1>6. Shape(D)
  BY <1>1, <1>2, <1>4, <1>5, PidIsFinite DEF Shape, St
<1>7. Alone(D)
  BY <1>1, <1>2 DEF Alone
<1>. QED
  BY <1>2, <1>6, <1>7 DEF D

-------------------------------------------------------------------------------
(***************************************************************************)
(* Who runs next (resched.c:109-150).                                      *)
(***************************************************************************)
\* Shares stay in order while nobody's share changes and nobody comes to life.
LEMMA SharesCarry ==
  ASSUME NEW T, NEW R, Shares(T), SameShares(R, T), R.preempt \in Int,
         \A p \in User : R.pstate[p] # "PRFREE" => T.pstate[p] # "PRFREE"
  PROVE  Shares(R)
BY DEF Shares, SameShares

\* The running process, if it may go on, steps down: now nobody runs.
LEMMA StepDownFacts ==
  ASSUME NEW T, Shape(T), Alone(T), NEW k
  PROVE  /\ Shape(StepDown(T, k)) /\ SameShares(StepDown(T, k), T)
         /\ StepDown(T, k).currpid = T.currpid /\ StepDown(T, k).preempt = T.preempt
         /\ StepDown(T, k).pstate = IF Yields(T) THEN [T.pstate EXCEPT ![T.currpid] = "PRREADY"]
                                    ELSE T.pstate
         /\ \A x \in Pid : StepDown(T, k).pstate[x] # "PRCURR"
<1>. DEFINE S == StepDown(T, k)
            c == T.currpid
<1>1. c \in Pid /\ T.pstate \in [Pid -> St]
  BY DEF Shape
<1>2. CASE Yields(T)
  <2>1. S = PutOn(T, c, k) /\ T.pstate[c] # "PRREADY"
    BY <1>2 DEF StepDown, PutOn, Yields
  <2>. HIDE DEF S
  <2>2. /\ Shape(S) /\ SameShares(S, T) /\ S.currpid = c /\ S.preempt = T.preempt
        /\ S.pstate = [T.pstate EXCEPT ![c] = "PRREADY"]
    BY <1>1, <2>1, PutOnFacts
  <2>3. \A x \in Pid : S.pstate[x] # "PRCURR"
    BY <1>1, <2>2 DEF Alone
  <2>. QED
    BY <1>2, <2>2, <2>3 DEF S
<1>3. CASE ~Yields(T)
  <2>1. S = T
    BY <1>3 DEF StepDown
  <2>. HIDE DEF S
  <2>. QED
    BY <1>3, <2>1 DEF S, Alone, Yields, SameShares
<1>. QED
  BY <1>2, <1>3

\* The CPU goes to one with goodness, who has a share then, or else to the null
\* process, if nobody on the list has any.
LEMMA GiveAwayFacts ==
  ASSUME NEW T, Shape(T), Shares(T), \A x \in Pid : T.pstate[x] # "PRCURR"
  PROVE  /\ Shape(GiveAway(T)) /\ Alone(GiveAway(T)) /\ Shares(GiveAway(T))
         /\ Left(GiveAway(T), 1) /\ SameShares(GiveAway(T), T)
         /\ GiveAway(T).pstate = [T.pstate EXCEPT ![GiveAway(T).currpid] = "PRCURR"]
         /\ GiveAway(T).currpid \in Pid /\ T.pstate[GiveAway(T).currpid] = "PRREADY"
         /\ GiveAway(T).currpid = NULLPROC => \A p \in ReadyIn(T) : T.goodness[p] <= 0
<1>. DEFINE R == GiveAway(T)
<1>1. /\ T.pstate \in [Pid -> St] /\ T.pstate[NULLPROC] = "PRREADY" /\ T.rdy \in Seq(Pid)
      /\ T.goodness \in [Pid -> Int] /\ T.unused \in [Pid -> Int]
      /\ \A x \in Pid : Contains(T.rdy, x) <=> T.pstate[x] = "PRREADY"
  BY PidIsFinite DEF Shape, Shares, HoldsIn, ReadyIn
<1>2. PICK m, b : m = maximumgoodness(T) /\ b = maximumgoodnessproc(T)
  OBVIOUS
<1>3. /\ m \in Int /\ m >= -1
      /\ \A p \in Pid : Contains(T.rdy, p) => T.goodness[p] <= m
      /\ m # -1 => b \in Pid /\ Contains(T.rdy, b) /\ T.goodness[b] = m
  BY <1>1, <1>2, MaximumFacts
<1>4. CASE m > 0
  <2>1. /\ b \in Pid /\ T.pstate[b] = "PRREADY" /\ T.goodness[b] = m /\ b # NULLPROC
        /\ b \in User
    BY <1>1, <1>3, <1>4 DEF Shares, User
  <2>2. R = Dispatch(T, b, T.unused[b])
    BY <1>2, <1>4, <2>1 DEF GiveAway, Pid, NULLPROC
  <2>. HIDE DEF R
  <2>3. /\ Shape(R) /\ Alone(R) /\ SameShares(R, T)
        /\ R.currpid = b /\ R.preempt = T.unused[b]
        /\ R.pstate = [T.pstate EXCEPT ![b] = "PRCURR"]
    BY <2>1, <2>2, DispatchFacts
  <2>4. R.preempt \in Int
    BY <1>1, <2>1, <2>3
  <2>5. Shares(R)
    BY <1>1, <2>1, <2>3, <2>4, SharesCarry DEF User
  <2>6. b # Main => T.unused[b] >= 1
    BY <1>1, <1>3, <1>4, <2>1 DEF Shares
  <2>7. Left(R, 1)
    BY <1>1, <2>1, <2>3, <2>6 DEF Left, SameShares
  <2>. QED
    BY <2>1, <2>3, <2>5, <2>7 DEF R
<1>5. CASE m <= 0
  <2>1. R = Dispatch(T, NULLPROC, QUANTUM)
    BY <1>2, <1>3, <1>5 DEF GiveAway
  <2>. HIDE DEF R
  <2>2. /\ Shape(R) /\ Alone(R) /\ SameShares(R, T)
        /\ R.currpid = NULLPROC /\ R.preempt = QUANTUM
        /\ R.pstate = [T.pstate EXCEPT ![NULLPROC] = "PRCURR"]
    <3>1. PICK z, n : z = NULLPROC /\ n = QUANTUM
      OBVIOUS
    <3>2. z \in Pid /\ T.pstate[z] = "PRREADY" /\ R = Dispatch(T, z, n)
      BY <1>1, <2>1, <3>1, PidIsFinite
    <3>3. /\ Shape(R) /\ Alone(R) /\ SameShares(R, T) /\ R.currpid = z /\ R.preempt = n
          /\ R.pstate = [T.pstate EXCEPT ![z] = "PRCURR"]
      BY <3>2, DispatchFacts
    <3>. QED
      BY <3>1, <3>3
  <2>3. Shares(R)
    BY <1>1, <2>2, SharesCarry, QUANTUMAssumption DEF User
  <2>4. Left(R, 1)
    BY <2>2 DEF Left, User
  <2>5. \A p \in ReadyIn(T) : T.goodness[p] <= 0
    BY <1>1, <1>3, <1>5 DEF ReadyIn
  <2>. QED
    BY <1>1, <2>2, <2>3, <2>4, <2>5, PidIsFinite DEF R
<1>. QED
  BY <1>3, <1>4, <1>5

\* Who gets more without running, gets it in a new epoch; and that begins only
\* with the shares of all the others used up that may run.
Spent(T, R) ==
  (\E p \in User \ {T.currpid} : R.unused[p] > T.unused[p])
  => /\ \A p \in User \ {T.currpid} :
          R.pstate[p] \in {"PRREADY", "PRCURR"} => T.goodness[p] <= 0
     /\ T.currpid # NULLPROC /\ R.pstate[T.currpid] \in {"PRREADY", "PRCURR"}
          => T.preempt <= 0

\* After a new epoch, or none.
LEMMA DealFacts ==
  ASSUME NEW T, Shape(T), Alone(T), Shares(T)
  PROVE  /\ Shape(Deal(T)) /\ Alone(Deal(T)) /\ Shares(Deal(T)) /\ SameProcs(Deal(T), T)
         /\ ~EpochIsOver(T) => Deal(T) = T
         /\ EpochIsOver(T) => \A p \in User : T.pstate[p] # "PRFREE" =>
              \/ Deal(T).goodness[p] >= 1
              \/ p = Main /\ Deal(T).unused[p] < 0
<1>1. CASE EpochIsOver(T)
  BY <1>1, EpochFacts DEF Deal
<1>2. CASE ~EpochIsOver(T)
  BY <1>2 DEF Deal, SameProcs
<1>. QED
  BY <1>1, <1>2

\* When the epoch is not over and yet nobody on the list has goodness, the one
\* running has, or it is a main() that owes ticks.
LEMMA NotOverFacts ==
  ASSUME NEW T, Shape(T), Alone(T), Shares(T), ~EpochIsOver(T),
         \A p \in ReadyIn(T) : T.goodness[p] <= 0
  PROVE  /\ Yields(T) /\ T.currpid # NULLPROC
         /\ T.goodness[T.currpid] >= 1 \/ (T.currpid = Main /\ T.unused[Main] < 0)
<1>. DEFINE c == T.currpid
<1>1. /\ T.goodness \in [Pid -> Int] /\ T.unused \in [Pid -> Int] /\ T.rdy \in Seq(Pid)
      /\ \A x \in Pid : Contains(T.rdy, x) <=> x \in ReadyIn(T)
      /\ c \in Pid
  BY DEF Shape, Shares, HoldsIn
<1>2. PICK m : m = maximumgoodness(T)
  OBVIOUS
<1>3. /\ m \in Int /\ m >= -1
      /\ m # -1 => \E p \in Pid : Contains(T.rdy, p) /\ T.goodness[p] = m
  BY <1>1, <1>2, MaximumFacts
<1>4. m <= 0
  BY <1>1, <1>3
<1>5. Yields(T) /\ T.goodness[c] # 0
  BY <1>2, <1>4 DEF EpochIsOver
<1>6. c \in User
  BY <1>1, <1>5 DEF Shares, User
<1>7. CASE T.goodness[c] >= 1
  BY <1>5, <1>6, <1>7 DEF User
<1>8. CASE ~(T.goodness[c] >= 1)
  <2>1. T.goodness[c] \in Int /\ T.unused[c] \in Int /\ T.unused[c] <= T.goodness[c]
    BY <1>1, <1>6 DEF Shares
  <2>2. T.goodness[c] < 0 /\ T.unused[c] < 0
    BY <1>5, <1>8, <2>1
  <2>3. c = Main
    BY <1>6, <2>1, <2>2 DEF Shares
  <2>. QED
    BY <1>5, <1>6, <2>2, <2>3 DEF User
<1>. QED
  BY <1>7, <1>8

\* The scheduler lets nobody in or out of those who may run.
StatesKept(R, T) ==
  \A p \in Pid : /\ R.pstate[p] = "PRFREE" <=> T.pstate[p] = "PRFREE"
                 /\ R.pstate[p] \in {"PRREADY", "PRCURR"} <=> T.pstate[p] \in {"PRREADY", "PRCURR"}

\* Going on: there is somebody with less goodness on the list, the null process
\* at least, and the one that goes on has its share.
LEMMA StayFacts ==
  ASSUME NEW T, Shape(T), Alone(T), Shares(T), Yields(T),
         maximumgoodness(T) < T.goodness[T.currpid]
  PROVE  LET R == [T EXCEPT !.preempt = T.unused[T.currpid]]
         IN  Settled(R) /\ R.unused = T.unused /\ R.currpid = T.currpid /\ StatesKept(R, T)
<1>. DEFINE R == [T EXCEPT !.preempt = T.unused[T.currpid]]
            c == T.currpid
<1>1. /\ T = [x \in Fields |-> T[x]] /\ c \in Pid /\ T.pstate \in [Pid -> St]
      /\ T.goodness \in [Pid -> Int] /\ T.unused \in [Pid -> Int] /\ T.rdy \in Seq(Pid)
      /\ \A x \in Pid : Contains(T.rdy, x) <=> x \in ReadyIn(T)
  BY DEF Shape, Shares, HoldsIn
<1>2. /\ R = [x \in Fields |-> R[x]] /\ SameShares(R, T) /\ R.currpid = c
      /\ R.preempt = T.unused[c] /\ R.pstate = T.pstate /\ R.rdy = T.rdy
  BY <1>1 DEF Fields, SameShares
<1>. HIDE DEF R
<1>3. Shape(R) /\ Alone(R) /\ R.pstate[R.currpid] = "PRCURR"
  BY <1>1, <1>2 DEF Shape, Alone, ReadyIn, Yields
<1>4. R.preempt \in Int
  BY <1>1, <1>2
<1>5. Shares(R)
  BY <1>2, <1>4, SharesCarry
<1>6. PICK m : m = maximumgoodness(T)
  OBVIOUS
<1>7. m \in Int /\ \A p \in Pid : Contains(T.rdy, p) => T.goodness[p] <= m
  BY <1>1, <1>6, MaximumFacts
<1>8. Left(R, 1)
  <2>1. SUFFICES ASSUME c \in User \ {Main} PROVE T.unused[c] >= 1
    BY <1>1, <1>2, <1>4 DEF Left, SameShares
  <2>2. T.pstate[NULLPROC] = "PRREADY"
    BY <2>1, PidIsFinite DEF Shape, Alone, User
  <2>3. m >= 0
    BY <1>1, <1>7, <2>2, PidIsFinite DEF Shares, ReadyIn
  <2>4. T.goodness[c] >= 1
    BY <1>1, <1>6, <1>7, <2>3
  <2>. QED
    <3>1. T.unused[c] \in Int /\ T.goodness[c] \in Int
      BY <1>1
    <3>2. T.unused[c] >= 0 /\ (T.unused[c] = 0 <=> T.goodness[c] = 0)
      BY <2>1 DEF Shares
    <3>. QED
      BY <2>4, <3>1, <3>2
<1>9. Idle(R)
  <2>1. SUFFICES ASSUME c = NULLPROC, NEW p \in Pid, T.pstate[p] = "PRREADY"
                 PROVE  p = Main /\ T.unused[p] < 0
    BY SMTT(30), <1>1, <1>2 DEF Idle, ReadyIn, SameShares
  <2>2. T.goodness[p] \in Int /\ T.unused[p] \in Int /\ T.goodness[p] < 0
    <3>1. m < T.goodness[c] /\ T.goodness[c] = 0
      BY <1>6, <2>1 DEF Shares
    <3>2. T.goodness[p] <= m /\ T.goodness[p] \in Int /\ T.unused[p] \in Int
      BY <1>1, <1>7, <2>1 DEF ReadyIn
    <3>. QED
      BY <1>7, <3>1, <3>2
  <2>3. p \in User
    BY <2>1 DEF Yields, User
  <2>4. T.unused[p] < 0
    BY <2>2, <2>3 DEF Shares
  <2>. QED
    BY <2>2, <2>3, <2>4 DEF Shares
<1>10. StatesKept(R, T)
  BY <1>2 DEF StatesKept
<1>. QED
  BY <1>2, <1>3, <1>5, <1>8, <1>9, <1>10 DEF Settled, SameShares, R

\* Giving the CPU away once an epoch was or was not begun: nobody with a share
\* is left waiting behind the null process.
LEMMA LeaveFacts ==
  ASSUME NEW T, Shape(T), Alone(T), Shares(T), NEW k,
         \/ \A p \in User : T.pstate[p] # "PRFREE" =>
              T.goodness[p] >= 1 \/ (p = Main /\ T.unused[p] < 0)
         \/ ~EpochIsOver(T)
  PROVE  LET R == GiveAway(StepDown(T, k))
         IN  Settled(R) /\ R.unused = T.unused /\ StatesKept(R, T)
<1>. DEFINE S == StepDown(T, k)
            R == GiveAway(S)
            c == T.currpid
<1>1. /\ c \in Pid /\ T.pstate \in [Pid -> St] /\ T.preempt \in Int
      /\ T.goodness \in [Pid -> Int] /\ T.unused \in [Pid -> Int]
  BY DEF Shape, Shares
<1>2. /\ Shape(S) /\ SameShares(S, T) /\ S.currpid = c /\ S.preempt = T.preempt
      /\ S.pstate = IF Yields(T) THEN [T.pstate EXCEPT ![c] = "PRREADY"] ELSE T.pstate
      /\ \A x \in Pid : S.pstate[x] # "PRCURR"
  BY StepDownFacts
<1>. HIDE DEF S
<1>3. \A p \in Pid : /\ S.pstate[p] = "PRFREE" <=> T.pstate[p] = "PRFREE"
                     /\ S.pstate[p] = "PRREADY" <=> T.pstate[p] \in {"PRREADY", "PRCURR"}
  BY <1>1, <1>2 DEF Yields, Alone
<1>4. Shares(S)
  BY <1>1, <1>2, <1>3, SharesCarry DEF User
<1>5. /\ Shape(R) /\ Alone(R) /\ Shares(R) /\ Left(R, 1) /\ SameShares(R, S)
      /\ R.pstate = [S.pstate EXCEPT ![R.currpid] = "PRCURR"]
      /\ R.currpid \in Pid /\ S.pstate[R.currpid] = "PRREADY"
      /\ R.currpid = NULLPROC => \A p \in ReadyIn(S) : S.goodness[p] <= 0
  BY <1>2, <1>4, GiveAwayFacts
<1>. HIDE DEF R
<1>6. S.pstate \in [Pid -> St]
  BY <1>2 DEF Shape
<1>7. StatesKept(R, T)
  BY <1>2, <1>3, <1>5, <1>6 DEF StatesKept
<1>8. Idle(R)
  <2>. SUFFICES ASSUME R.currpid = NULLPROC, NEW p \in ReadyIn(R)
                PROVE  R.pstate[Main] = "PRREADY" /\ R.unused[Main] < 0
    BY DEF Idle
  <2>1. /\ p \in User /\ p \in ReadyIn(S) /\ T.goodness[p] <= 0 /\ T.pstate[p] # "PRFREE"
        /\ R.unused = T.unused
    BY <1>2, <1>3, <1>5, <1>6 DEF ReadyIn, User, SameShares
  <2>2. CASE T.goodness[p] >= 1 \/ (p = Main /\ T.unused[p] < 0)
    <3>1. T.goodness[p] \in Int
      BY <1>1, <2>1 DEF User
    <3>2. p = Main /\ T.unused[p] < 0
      BY <2>1, <2>2, <3>1
    <3>. QED
      BY <2>1, <3>2 DEF ReadyIn
  <2>3. CASE ~EpochIsOver(T)
    <3>1. \A x \in ReadyIn(S) : T.goodness[x] <= 0
      BY <1>2, <1>5 DEF SameShares
    <3>2. \A x \in ReadyIn(T) : T.goodness[x] <= 0
      BY <1>3, <3>1 DEF ReadyIn
    <3>3. /\ Yields(T) /\ T.currpid # NULLPROC
          /\ T.goodness[T.currpid] >= 1 \/ (T.currpid = Main /\ T.unused[Main] < 0)
      BY <2>3, <3>2, NotOverFacts
    <3>4. c \in ReadyIn(S)
      BY <1>1, <1>2, <3>3 DEF ReadyIn
    <3>5. T.goodness[c] <= 0 /\ T.goodness[c] \in Int
      BY <1>1, <3>1, <3>4
    <3>6. c = Main /\ T.unused[Main] < 0
      BY <3>3, <3>5
    <3>. QED
      BY <1>5, <1>6, <2>1, <3>3, <3>4, <3>6 DEF ReadyIn
  <2>. QED
    BY <2>1, <2>2, <2>3
<1>9. R.pstate[R.currpid] = "PRCURR"
  BY <1>5, <1>6
<1>. QED
  BY <1>2, <1>5, <1>7, <1>8, <1>9 DEF Settled, SameShares, R, S

-------------------------------------------------------------------------------
(***************************************************************************)
(* linuxsched() as a whole, and what the processes see of it.              *)
(***************************************************************************)
\* linuxsched() leaves the one it runs with ticks left of its own share, leaves
\* nobody with a share waiting for the null process, and begins a new epoch only
\* when the shares of all who may run are used up.
LEMMA LinuxFacts ==
  ASSUME NEW T, Payable(T)
  PROVE  Settled(linuxsched(T)) /\ Spent(T, linuxsched(T)) /\ StatesKept(linuxsched(T), T)
<1>. DEFINE P == Pay(T)
            D == Deal(P)
            R == linuxsched(T)
            c == T.currpid
<1>1. /\ Shape(T) /\ Alone(T) /\ Shares(T) /\ c \in Pid
      /\ \A x \in Pid : Contains(T.rdy, x) <=> x \in ReadyIn(T)
      /\ T.rdy \in Seq(Pid) /\ T.goodness \in [Pid -> Int] /\ T.unused \in [Pid -> Int]
      /\ T.preempt \in Int
  BY DEF Payable, Shape, Shares, HoldsIn
<1>2. /\ Shape(P) /\ Alone(P) /\ Shares(P) /\ SameProcs(P, T)
      /\ \A p \in Pid \ {c} : P.goodness[p] = T.goodness[p] /\ P.unused[p] = T.unused[p]
      /\ c # NULLPROC => /\ P.unused[c] = T.preempt
                         /\ P.goodness[c] = 0 => T.preempt <= 0
  BY PayFacts
<1>3. /\ Shape(D) /\ Alone(D) /\ Shares(D) /\ SameProcs(D, P)
      /\ ~EpochIsOver(P) => D = P
      /\ EpochIsOver(P) => \A p \in User : P.pstate[p] # "PRFREE" =>
              \/ D.goodness[p] >= 1
              \/ p = Main /\ D.unused[p] < 0
  BY <1>2, DealFacts
<1>4. R = IF Yields(D) /\ maximumgoodness(D) < D.goodness[D.currpid]
          THEN [D EXCEPT !.preempt = D.unused[D.currpid]]
          ELSE GiveAway(StepDown(D, D.goodness[D.currpid]))
  BY DEF linuxsched
<1>. HIDE DEF P, D, R
<1>5. Settled(R) /\ R.unused = D.unused /\ StatesKept(R, D)
  <2>1. CASE Yields(D) /\ maximumgoodness(D) < D.goodness[D.currpid]
    BY <1>3, <1>4, <2>1, StayFacts
  <2>2. CASE ~(Yields(D) /\ maximumgoodness(D) < D.goodness[D.currpid])
    <3>1. PICK k : k = D.goodness[D.currpid]
      OBVIOUS
    <3>2. R = GiveAway(StepDown(D, k))
      BY <1>4, <2>2, <3>1
    <3>3. \/ \A p \in User : D.pstate[p] # "PRFREE" =>
              D.goodness[p] >= 1 \/ (p = Main /\ D.unused[p] < 0)
          \/ ~EpochIsOver(D)
      BY <1>3 DEF SameProcs
    <3>. QED
      BY <1>3, <3>2, <3>3, LeaveFacts
  <2>. QED
    BY <2>1, <2>2
<1>6. StatesKept(R, T)
  BY <1>2, <1>3, <1>5 DEF StatesKept, SameProcs
<1>7. Spent(T, R)
  <2>. SUFFICES ASSUME NEW q \in User \ {c}, R.unused[q] > T.unused[q]
                PROVE  /\ \A p \in User \ {c} :
                            R.pstate[p] \in {"PRREADY", "PRCURR"} => T.goodness[p] <= 0
                       /\ c # NULLPROC /\ R.pstate[c] \in {"PRREADY", "PRCURR"}
                            => T.preempt <= 0
    BY DEF Spent
  <2>1. q \in Pid \ {c} /\ T.unused[q] \in Int
    BY <1>1 DEF User
  <2>2. EpochIsOver(P)
    <3>1. P.unused[q] = T.unused[q]
      BY <1>2, <2>1
    <3>2. D.unused[q] > T.unused[q]
      BY <1>5
    <3>3. D # P
      BY <2>1, <3>1, <3>2
    <3>. QED
      BY <1>3, <3>3
  <2>3. PICK m : m = maximumgoodness(P)
    OBVIOUS
  <2>4. m \in Int /\ \A p \in Pid : Contains(P.rdy, p) => P.goodness[p] <= m
    <3>1. P.rdy \in Seq(Pid) /\ P.goodness \in [Pid -> Int]
      BY <1>2 DEF Shape, Shares
    <3>. QED
      BY <2>3, <3>1, MaximumFacts
  <2>5. m <= 0 /\ (Yields(P) => P.goodness[c] = 0)
    BY <1>2, <2>2, <2>3 DEF EpochIsOver, SameProcs
  <2>6. ASSUME NEW p \in User \ {c}, R.pstate[p] \in {"PRREADY", "PRCURR"}
        PROVE  T.goodness[p] <= 0
    <3>1. p \in Pid /\ p # c /\ T.pstate[p] \in {"PRREADY", "PRCURR"}
      BY <1>6, <2>6 DEF User, StatesKept
    <3>2. p \in ReadyIn(T)
      BY <1>1, <3>1 DEF Alone, ReadyIn
    <3>3. Contains(P.rdy, p) /\ P.goodness[p] = T.goodness[p] /\ T.goodness[p] \in Int
      BY <1>1, <1>2, <3>1, <3>2 DEF SameProcs
    <3>. QED
      BY <2>4, <2>5, <3>1, <3>3
  <2>7. ASSUME c # NULLPROC, R.pstate[c] \in {"PRREADY", "PRCURR"}
        PROVE  T.preempt <= 0
    <3>1. T.pstate[c] = "PRCURR"
      BY <1>1, <1>6, <2>7 DEF StatesKept, Alone
    <3>2. Yields(P)
      BY <1>2, <3>1 DEF Yields, SameProcs
    <3>. QED
      BY <1>2, <2>5, <2>7, <3>2
  <2>. QED
    BY <2>6, <2>7
<1>. QED
  BY <1>5, <1>6, <1>7 DEF R

\* What the clock interrupt's linuxsched() calls may find in preempt is nothing
\* below 0 (clpreem is taken once a tick, resched() gives at least a tick).
LEMMA PayableWhenSettled ==
  ASSUME NEW T, Settled(T)
  PROVE  Payable(T)
<1>1. Shape(T) /\ Alone(T) /\ Shares(T) /\ Left(T, 1)
  BY DEF Settled
<1>2. Left(T, 0)
  BY <1>1 DEF Left, Shape, Shares
<1>. QED
  BY <1>1, <1>2 DEF Payable

-------------------------------------------------------------------------------
(***************************************************************************)
(* The tables after a step.                                                *)
(***************************************************************************)
InUse(T, f) == [p \in Pid |-> IF T.pstate[p] = "PRFREE" THEN 0 ELSE f[p]]

\* Clearing the entries of free processes leaves tables settled.
LEMMA ClearedFacts ==
  ASSUME NEW T, Settled(T), NEW U, U = [x \in Fields |-> U[x]],
         U.currpid = T.currpid, U.preempt = T.preempt, U.pstate = T.pstate, U.rdy = T.rdy,
         U.pprio = InUse(T, T.pprio), U.goodness = InUse(T, T.goodness),
         U.quantum = InUse(T, T.quantum), U.unused = InUse(T, T.unused)
  PROVE  /\ Settled(U)
         /\ \A p \in Pid : /\ U.pstate[p] = "PRFREE" => U.unused[p] = 0
                           /\ U.pstate[p] # "PRFREE" => U.unused[p] = T.unused[p]
<1>1. /\ Shape(T) /\ Alone(T) /\ Shares(T) /\ Left(T, 1) /\ Idle(T)
      /\ T.pstate[T.currpid] = "PRCURR"
  BY DEF Settled
<1>2. Shape(U) /\ Alone(U) /\ U.pstate[U.currpid] = "PRCURR"
  BY <1>1 DEF Shape, Alone, ReadyIn
<1>3. \A p \in Pid : /\ U.pstate[p] = "PRFREE" => U.unused[p] = 0 /\ U.goodness[p] = 0
                     /\ U.pstate[p] # "PRFREE" =>
                          /\ U.unused[p] = T.unused[p] /\ U.goodness[p] = T.goodness[p]
                          /\ U.pprio[p] = T.pprio[p]
  BY DEF InUse
<1>4. /\ U.preempt \in Int /\ U.pprio \in [Pid -> Nat] /\ U.goodness \in [Pid -> Int]
      /\ U.quantum \in [Pid -> Int] /\ U.unused \in [Pid -> Int]
  BY <1>1 DEF Shares, InUse
<1>5. U.goodness[NULLPROC] = 0 /\ U.unused[NULLPROC] = 0
  BY <1>1, <1>3, PidIsFinite DEF Shares
<1>6. Shares(U)
  BY <1>1, <1>3, <1>4, <1>5 DEF Shares, User
<1>7. Left(U, 1)
  BY <1>1, <1>3 DEF Left, User
<1>8. Idle(U)
  BY <1>1, <1>3, PidIsFinite DEF Idle, ReadyIn
<1>. QED
  BY <1>2, <1>3, <1>6, <1>7, <1>8 DEF Settled

\* What the tables hold is what the variables do.
LEMMA TablesFields ==
  /\ Tables = [x \in Fields |-> Tables[x]]
  /\ Tables.currpid = currpid /\ Tables.preempt = preempt /\ Tables.pstate = pstate
  /\ Tables.pprio = pprio /\ Tables.goodness = goodness /\ Tables.quantum = quantum
  /\ Tables.unused = unused_quantum /\ Tables.rdy = rdy
BY DEF Tables, Fields

Freed == \A p \in Pid : pstate[p] = "PRFREE" => unused_quantum[p] = 0

\* A step that leaves settled tables.
LEMMA InstallFacts ==
  ASSUME NEW T, Settled(T), Install(T)
  PROVE  /\ Settled(Tables)' /\ Freed' /\ pstate' = T.pstate
         /\ \A p \in Pid : pstate'[p] # "PRFREE" => unused_quantum'[p] = T.unused[p]
<1>1. PICK U : U = Tables'
  OBVIOUS
<1>2. (/\ Tables = [x \in Fields |-> Tables[x]]
       /\ Tables.currpid = currpid /\ Tables.preempt = preempt /\ Tables.pstate = pstate
       /\ Tables.pprio = pprio /\ Tables.goodness = goodness /\ Tables.quantum = quantum
       /\ Tables.unused = unused_quantum /\ Tables.rdy = rdy)'
  BY TablesFields, PTL
<1>3. /\ U = [x \in Fields |-> U[x]]
      /\ U.currpid = T.currpid /\ U.preempt = T.preempt /\ U.pstate = T.pstate
      /\ U.rdy = T.rdy
      /\ U.pprio = InUse(T, T.pprio) /\ U.goodness = InUse(T, T.goodness)
      /\ U.quantum = InUse(T, T.quantum) /\ U.unused = InUse(T, T.unused)
  BY <1>1, <1>2 DEF Install, InUse
<1>4. /\ Settled(U)
      /\ \A p \in Pid : /\ U.pstate[p] = "PRFREE" => U.unused[p] = 0
                        /\ U.pstate[p] # "PRFREE" => U.unused[p] = T.unused[p]
  BY <1>3, ClearedFacts
<1>5. U.pstate = pstate' /\ U.unused = unused_quantum'
  BY <1>1, <1>2
<1>6. Settled(Tables)'
  BY <1>1, <1>4
<1>. QED
  BY <1>3, <1>4, <1>5, <1>6 DEF Freed

-------------------------------------------------------------------------------
(***************************************************************************)
(* wakeup() readies one sleeper after the other (wakeup.c:13-16).          *)
(***************************************************************************)
\* f[i] is what becomes of the tables with the first i of `due' readied.
Readies(f, T, due) ==
  /\ f = [i \in 0..Len(due) |-> f[i]]
  /\ f[0] = T
  /\ \A i \in 1..Len(due) : f[i] = Ready(f[i - 1], due[i])

\* The loop can be carried through to the end of any list.
LEMMA ReadiesExists ==
  ASSUME NEW T, NEW due \in Seq(Pid)
  PROVE  \E f : Readies(f, T, due)
<1>. DEFINE n == Len(due)
            Upto(m) == \E f : /\ f = [i \in 0..m |-> f[i]] /\ f[0] = T
                              /\ \A i \in 1..m : f[i] = Ready(f[i - 1], due[i])
            bad == {m \in 0..n : ~Upto(m)}
<1>0. n \in Nat
  OBVIOUS
<1>1. Upto(0)
  <2>. DEFINE f == [i \in 0..0 |-> T]
  <2>1. f = [i \in 0..0 |-> f[i]] /\ f[0] = T
        /\ \A i \in 1..0 : f[i] = Ready(f[i - 1], due[i])
    OBVIOUS
  <2>. HIDE DEF f
  <2>. QED
    BY <2>1
<1>2. ASSUME NEW m \in 1..n, Upto(m - 1) PROVE Upto(m)
  <2>1. PICK f : /\ f = [i \in 0..m - 1 |-> f[i]] /\ f[0] = T
                 /\ \A i \in 1..m - 1 : f[i] = Ready(f[i - 1], due[i])
    BY <1>2
  <2>2. PICK last : last = Ready(f[m - 1], due[m])
    OBVIOUS
  <2>. DEFINE g == [i \in 0..m |-> IF i = m THEN last ELSE f[i]]
  <2>3. g = [i \in 0..m |-> g[i]] /\ g[0] = T
    BY <2>1
  <2>4. ASSUME NEW i \in 1..m PROVE g[i] = Ready(g[i - 1], due[i])
    <3>1. g[i - 1] = f[i - 1]
      OBVIOUS
    <3>2. CASE i = m
      BY <2>2, <3>1, <3>2
    <3>3. CASE i # m
      <4>1. i \in 1..m - 1 /\ g[i] = f[i]
        BY <3>3
      <4>. QED
        BY <2>1, <3>1, <4>1
    <3>. QED
      BY <3>2, <3>3
  <2>. HIDE DEF g
  <2>. QED
    BY <2>3, <2>4
<1>3. bad = {}
  <2>. SUFFICES ASSUME bad # {} PROVE FALSE
    OBVIOUS
  <2>1. bad \in SUBSET Nat
    BY <1>0
  <2>2. PICK m \in bad : \A j \in bad : m <= j
    <3>. HIDE DEF bad
    <3>. QED
      BY <2>1, MinIsLeast
  <2>. HIDE DEF Upto
  <2>3. m \in 1..n /\ ~Upto(m)
    BY <1>0, <1>1, <2>2
  <2>4. m - 1 \in 0..n /\ m - 1 < m
    BY <1>0, <2>3
  <2>5. Upto(m - 1)
    BY <2>2, <2>4
  <2>. QED
    BY <1>2, <2>3, <2>5
<1>4. Upto(n)
  <2>. HIDE DEF Upto
  <2>. QED
    BY <1>0, <1>3
<1>. QED
  BY <1>4 DEF Readies

\* ReadyAll() is the end of the loop.
LEMMA ReadyAllReadies ==
  ASSUME NEW T, NEW due \in Seq(Pid)
  PROVE  \E f : Readies(f, T, due) /\ ReadyAll(T, due) = f[Len(due)]
<1>1. PICK f : Readies(f, T, due)
  BY ReadiesExists
<1>. DEFINE after == CHOOSE g : g = [i \in 0..Len(due) |->
                       IF i = 0 THEN T ELSE Ready(g[i - 1], due[i])]
<1>2. f = [i \in 0..Len(due) |-> IF i = 0 THEN T ELSE Ready(f[i - 1], due[i])]
  BY <1>1 DEF Readies
<1>3. after = [i \in 0..Len(due) |-> IF i = 0 THEN T ELSE Ready(after[i - 1], due[i])]
  BY <1>2
<1>4. ReadyAll(T, due) = after[Len(due)]
  BY DEF ReadyAll
<1>. HIDE DEF after
<1>5. Readies(after, T, due)
  BY <1>3 DEF Readies
<1>. QED
  BY <1>4, <1>5

\* Those due, sleepers all, go onto the list without anybody's share changing.
LEMMA ReadyAllFacts ==
  ASSUME NEW T, Payable(T), NEW W \in SUBSET Pid, NEW due \in SetToSeqs(W),
         \A p \in W : T.pstate[p] = "PRSLEEP", T.pstate[T.currpid] = "PRCURR"
  PROVE  /\ Payable(ReadyAll(T, due)) /\ SameShares(ReadyAll(T, due), T)
         /\ ReadyAll(T, due).currpid = T.currpid /\ ReadyAll(T, due).preempt = T.preempt
<1>1. /\ Cardinality(W) \in Nat /\ due \in [1..Cardinality(W) -> W]
      /\ \A i, j \in 1..Cardinality(W) : i # j => due[i] # due[j]
  <2>1. IsFiniteSet(Pid)
    BY FS_Interval, NPROCAssumption DEF Pid
  <2>2. IsFiniteSet(W)
    BY <2>1, FS_Subset
  <2>3. Cardinality(W) \in Nat
    BY <2>2, FS_CardinalityType
  <2>. QED
    BY <2>3 DEF SetToSeqs
<1>2. due \in Seq(Pid) /\ Len(due) = Cardinality(W)
  BY <1>1
<1>. DEFINE n == Len(due)
<1>3. PICK f : Readies(f, T, due) /\ ReadyAll(T, due) = f[n]
  BY <1>2, ReadyAllReadies
<1>. DEFINE Fine(m) == /\ Payable(f[m]) /\ SameShares(f[m], T)
                       /\ f[m].currpid = T.currpid /\ f[m].preempt = T.preempt
                       /\ f[m].pstate[T.currpid] = "PRCURR"
                       /\ \A i \in m + 1..n : f[m].pstate[due[i]] = "PRSLEEP"
            bad == {m \in 0..n : ~Fine(m)}
<1>4. Fine(0)
  BY <1>1, <1>2, <1>3 DEF Readies, SameShares
<1>5. ASSUME NEW m \in 1..n, Fine(m - 1) PROVE Fine(m)
  <2>1. PICK S, p, k : S = f[m - 1] /\ p = due[m] /\ k = S.pprio[p]
    OBVIOUS
  <2>2. /\ Payable(S) /\ SameShares(S, T)
        /\ S.currpid = T.currpid /\ S.preempt = T.preempt
        /\ S.pstate[S.currpid] = "PRCURR"
        /\ \A i \in m..n : S.pstate[due[i]] = "PRSLEEP"
    BY <1>2, <1>5, <2>1
  <2>3. p \in Pid /\ S.pstate[p] = "PRSLEEP"
    BY <1>1, <1>2, <2>1, <2>2
  <2>. DEFINE U == f[m]
  <2>4. U = PutOn(S, p, k)
    BY <1>3, <2>1 DEF Readies, Ready, PutOn
  <2>. HIDE DEF U
  <2>5. Shape(S) /\ Alone(S) /\ Shares(S) /\ Left(S, 0) /\ S.pstate \in [Pid -> St]
    BY <2>2 DEF Payable, Shape
  <2>6. /\ Shape(U) /\ SameShares(U, S) /\ U.currpid = S.currpid /\ U.preempt = S.preempt
        /\ U.pstate = [S.pstate EXCEPT ![p] = "PRREADY"]
    BY <2>3, <2>4, <2>5, PutOnFacts
  <2>7. Alone(U) /\ Left(U, 0) /\ U.preempt \in Int
        /\ U.pstate[S.currpid] = "PRCURR"
        /\ (\A x \in User : U.pstate[x] # "PRFREE" => S.pstate[x] # "PRFREE")
    <3>1. p # S.currpid /\ S.currpid \in Pid
      BY <2>2, <2>3, <2>5 DEF Shape
    <3>2. S.preempt \in Int
      BY <2>5 DEF Shares
    <3>. QED
      BY <2>2, <2>3, <2>5, <2>6, <3>1, <3>2 DEF Alone, Left, SameShares, User
  <2>8. Shares(U)
    BY <2>5, <2>6, <2>7, SharesCarry
  <2>9. ASSUME NEW i \in m + 1..n PROVE U.pstate[due[i]] = "PRSLEEP"
    <3>1. due[i] # p /\ due[i] \in Pid /\ i \in m..n
      BY <1>1, <1>2, <2>1
    <3>. QED
      BY <2>2, <2>5, <2>6, <3>1
  <2>. QED
    BY <2>2, <2>6, <2>7, <2>8, <2>9 DEF Payable, SameShares, U
<1>6. bad = {}
  <2>. SUFFICES ASSUME bad # {} PROVE FALSE
    OBVIOUS
  <2>1. bad \in SUBSET Nat
    BY <1>2
  <2>2. PICK m \in bad : \A j \in bad : m <= j
    <3>. HIDE DEF bad
    <3>. QED
      BY <2>1, MinIsLeast
  <2>. HIDE DEF Fine
  <2>3. m \in 1..n /\ ~Fine(m)
    BY <1>2, <1>4, <2>2
  <2>4. m - 1 \in 0..n /\ m - 1 < m
    BY <1>2, <2>3
  <2>5. Fine(m - 1)
    BY <2>2, <2>4
  <2>. QED
    BY <1>5, <2>3, <2>5
<1>. HIDE DEF Fine
<1>7. Fine(n)
  BY <1>2, <1>6
<1>. QED
  BY <1>3, <1>7 DEF Fine

-------------------------------------------------------------------------------
(***************************************************************************)
(* Every step keeps the invariant and begins an epoch only when it may.    *)
(***************************************************************************)
\* What EpochOnlyWhenSpent says of a step.
EpochStep ==
  (\E p \in User \ {currpid} :
     pstate'[p] # "PRFREE" /\ unused_quantum'[p] > unused_quantum[p])
  => /\ \A p \in User \ {currpid} :
          pstate'[p] \in {"PRREADY", "PRCURR"} => goodness[p] <= 0
     /\ currpid # NULLPROC /\ pstate'[currpid] \in {"PRREADY", "PRCURR"}
          => preempt <= 1

Kept == SchedInv' /\ EpochStep

\* agingsched() and defaultsched() know nothing of shares (resched.c:152-200).
LEMMA AgingUnused ==
  ASSUME NEW T, T = [x \in Fields |-> T[x]]
  PROVE  defaultsched(agingsched(T)).unused = T.unused
<1>. DEFINE A == agingsched(T)
<1>1. A = [x \in Fields |-> A[x]] /\ A.unused = T.unused
  BY DEF agingsched, Fields
<1>. HIDE DEF A
<1>2. PICK k : k = A.pprio[A.currpid]
  OBVIOUS
<1>. DEFINE S == StepDown(A, k)
<1>3. S = [x \in Fields |-> S[x]] /\ S.unused = A.unused
  <2>1. CASE Yields(A)
    <3>1. PICK M : M = [A EXCEPT !.pstate[A.currpid] = "PRREADY"]
      OBVIOUS
    <3>2. M = [x \in Fields |-> M[x]] /\ M.unused = A.unused
      BY <1>1, <3>1 DEF Fields
    <3>3. S = Insert(M, A.currpid, k)
      BY <2>1, <3>1 DEF StepDown
    <3>. HIDE DEF S
    <3>. QED
      BY <3>2, <3>3 DEF Insert, Fields
  <2>2. CASE ~Yields(A)
    BY <1>1, <2>2 DEF StepDown
  <2>. QED
    BY <2>1, <2>2
<1>. HIDE DEF S
<1>4. PICK p : p = Last(S.rdy)
  OBVIOUS
<1>5. Dispatch(S, p, QUANTUM).unused = S.unused
  BY <1>3 DEF Dispatch, Fields
<1>6. defaultsched(A) \in {A, Dispatch(S, p, QUANTUM)}
  BY <1>2, <1>4 DEF defaultsched, S
<1>. QED
  BY <1>1, <1>3, <1>5, <1>6 DEF A

\* A step under the aging class.
LEMMA AgingStep ==
  ASSUME SchedInv, schedclass = "AGESCHED", schedclass' = schedclass,
         NEW T, T = [x \in Fields |-> T[x]], \A p \in Pid : T.unused[p] = 0,
         Install(T) \/ Resched(T)
  PROVE  Kept
<1>1. PICK R : Install(R) /\ R.unused = T.unused
  <2>1. CASE Install(T)
    BY <2>1
  <2>2. CASE Resched(T)
    BY <2>2, AgingUnused DEF Resched
  <2>. QED
    BY <2>1, <2>2
<1>2. unused_quantum' = [p \in Pid |-> 0]
  BY <1>1 DEF Install
<1>3. unused_quantum = [p \in Pid |-> 0]
  BY DEF SchedInv
<1>4. SchedInv'
  BY <1>2 DEF SchedInv
<1>5. EpochStep
  BY <1>2, <1>3 DEF EpochStep, User
<1>. QED
  BY <1>4, <1>5 DEF Kept

\* A step under the Linux-like class that does not reschedule.
LEMMA LinuxStep ==
  ASSUME SchedInv, schedclass = "LINUXSCHED", schedclass' = schedclass,
         NEW T, Settled(T), Install(T),
         \A q \in User \ {currpid} : T.pstate[q] # "PRFREE" => T.unused[q] <= unused_quantum[q]
  PROVE  Kept
<1>1. /\ Settled(Tables)' /\ Freed' /\ pstate' = T.pstate
      /\ \A p \in Pid : pstate'[p] # "PRFREE" => unused_quantum'[p] = T.unused[p]
  BY InstallFacts
<1>2. SchedInv'
  BY <1>1 DEF SchedInv, Freed
<1>3. ASSUME NEW p \in User \ {currpid}, pstate'[p] # "PRFREE",
             unused_quantum'[p] > unused_quantum[p]
      PROVE  FALSE
  <2>1. unused_quantum'[p] = T.unused[p] /\ T.unused[p] <= unused_quantum[p] /\ p \in Pid
    BY <1>1, <1>3 DEF User
  <2>2. T.unused[p] \in Int
    BY <2>1 DEF Settled, Shares
  <2>3. unused_quantum[p] \in Int
    BY <2>1, TablesFields DEF SchedInv, Settled, Shares
  <2>. QED
    BY <1>3, <2>1, <2>2, <2>3
<1>. QED
  BY <1>2, <1>3 DEF Kept, EpochStep

\* A step under the Linux-like class that does.
LEMMA LinuxResched ==
  ASSUME SchedInv, schedclass = "LINUXSCHED", schedclass' = schedclass,
         NEW T, Payable(T), Resched(T),
         T.currpid = currpid, T.goodness = goodness, T.unused = unused_quantum,
         T.preempt <= 0 => preempt <= 1
  PROVE  Kept
<1>1. PICK R : R = linuxsched(T)
  OBVIOUS
<1>2. Settled(R) /\ Spent(T, R) /\ Install(R)
  BY <1>1, LinuxFacts DEF Resched
<1>3. /\ Settled(Tables)' /\ Freed' /\ pstate' = R.pstate
      /\ \A p \in Pid : pstate'[p] # "PRFREE" => unused_quantum'[p] = R.unused[p]
  BY <1>2, InstallFacts
<1>4. SchedInv'
  BY <1>3 DEF SchedInv, Freed
<1>5. EpochStep
  <2>. SUFFICES ASSUME NEW p \in User \ {currpid}, pstate'[p] # "PRFREE",
                       unused_quantum'[p] > unused_quantum[p]
                PROVE  /\ \A q \in User \ {currpid} :
                            pstate'[q] \in {"PRREADY", "PRCURR"} => goodness[q] <= 0
                       /\ currpid # NULLPROC /\ pstate'[currpid] \in {"PRREADY", "PRCURR"}
                            => preempt <= 1
    BY DEF EpochStep
  <2>1. R.unused[p] > T.unused[p]
    BY <1>3 DEF User
  <2>. QED
    BY <1>2, <1>3, <2>1 DEF Spent
<1>. QED
  BY <1>4, <1>5 DEF Kept

-------------------------------------------------------------------------------
(***************************************************************************)
(* The calls and the clock interrupt, one by one.                          *)
(***************************************************************************)
\* What the invariant says of the tables as a call finds them.
LEMMA Found ==
  ASSUME SchedInv
  PROVE  /\ schedclass \in {"AGESCHED", "LINUXSCHED"}
         /\ schedclass = "AGESCHED" => unused_quantum = [p \in Pid |-> 0]
         /\ schedclass = "LINUXSCHED" =>
              /\ Shape(Tables) /\ Alone(Tables) /\ Shares(Tables) /\ Left(Tables, 1)
              /\ Idle(Tables) /\ pstate[currpid] = "PRCURR" /\ currpid \in Pid
              /\ pstate \in [Pid -> St] /\ preempt \in Int /\ Freed
              /\ unused_quantum \in [Pid -> Int]
BY TablesFields DEF SchedInv, Settled, Shape, Shares, Freed

\* create(): the slot that is taken starts without a share (create.c).
LEMMA CreateStep ==
  ASSUME SchedInv, NEW p \in Pid, NEW k \in Prios, Create(p, k)
  PROVE  Kept
<1>. DEFINE T == [Tables EXCEPT !.pstate[p] = "PRSUSP", !.pprio[p] = k, !.goodness[p] = 0,
                            !.quantum[p] = 0, !.unused[p] = 0]
<1>1. /\ T = [x \in Fields |-> T[x]] /\ T.currpid = currpid /\ T.preempt = preempt
      /\ T.rdy = rdy /\ T.pstate = [pstate EXCEPT ![p] = "PRSUSP"]
      /\ T.pprio = [pprio EXCEPT ![p] = k] /\ T.goodness = [goodness EXCEPT ![p] = 0]
      /\ T.quantum = [quantum EXCEPT ![p] = 0] /\ T.unused = [unused_quantum EXCEPT ![p] = 0]
  <2>1. PICK B : B = Tables
    OBVIOUS
  <2>2. T = [B EXCEPT !.pstate = [pstate EXCEPT ![p] = "PRSUSP"], !.pprio = [pprio EXCEPT ![p] = k],
                      !.goodness = [goodness EXCEPT ![p] = 0],
                      !.quantum = [quantum EXCEPT ![p] = 0],
                      !.unused = [unused_quantum EXCEPT ![p] = 0]]
    BY <2>1, TablesFields
  <2>3. /\ B = [x \in Fields |-> B[x]] /\ B.currpid = currpid /\ B.preempt = preempt
        /\ B.rdy = rdy
    BY <2>1, TablesFields
  <2>. HIDE DEF T
  <2>. QED
    BY <2>2, <2>3 DEF Fields
<1>2. Install(T) /\ schedclass' = schedclass /\ pstate[p] = "PRFREE" /\ currpid # NULLPROC
  BY DEF Create, Calling
<1>. HIDE DEF T
<1>3. CASE schedclass = "AGESCHED"
  <2>1. \A x \in Pid : T.unused[x] = 0
    BY ZenonT(30), <1>1, <1>3, Found
  <2>. QED
    BY <1>1, <1>2, <1>3, <2>1, AgingStep
<1>4. CASE schedclass = "LINUXSCHED"
  <2>1. /\ Shape(Tables) /\ Alone(Tables) /\ Shares(Tables) /\ Left(Tables, 1)
        /\ pstate[currpid] = "PRCURR" /\ currpid \in Pid /\ pstate \in [Pid -> St] /\ Freed
    BY <1>4, Found
  <2>2. k \in Nat /\ k >= 1
    BY PriosAssumption
  <2>3. p # currpid /\ p # NULLPROC
    BY <1>2, <2>1, TablesFields DEF Shape
  <2>4. Shape(T)
    <3>1. ReadyIn(T) = ReadyIn(Tables)
      BY <1>1, <1>2, <2>1, TablesFields DEF ReadyIn
    <3>2. T.pstate \in [Pid -> St] /\ T.pstate[NULLPROC] = pstate[NULLPROC]
      BY <1>1, <2>1, <2>3, PidIsFinite DEF St
    <3>. QED
      BY <1>1, <2>1, <3>1, <3>2, TablesFields DEF Shape
  <2>5. Alone(T) /\ T.pstate[T.currpid] = "PRCURR"
    BY <1>1, <2>1, <2>3, TablesFields DEF Alone
  <2>6. Shares(T)
    <3>1. /\ T.preempt \in Int /\ T.pprio \in [Pid -> Nat] /\ T.goodness \in [Pid -> Int]
          /\ T.quantum \in [Pid -> Int] /\ T.unused \in [Pid -> Int]
      BY <1>1, <2>1, <2>2, TablesFields DEF Shares
    <3>2. T.goodness[NULLPROC] = 0 /\ T.unused[NULLPROC] = 0
      BY <1>1, <2>1, <2>3, TablesFields, PidIsFinite DEF Shares
    <3>3. ASSUME NEW x \in User
          PROVE  /\ T.unused[x] <= T.goodness[x]
                 /\ T.pstate[x] # "PRFREE" => T.pprio[x] >= 1
                 /\ x # Main => T.unused[x] >= 0 /\ (T.unused[x] = 0 <=> T.goodness[x] = 0)
      <4>1. CASE x = p
        BY <1>1, <2>1, <2>2, <4>1, TablesFields DEF Shares
      <4>2. CASE x # p
        BY ZenonT(30), <1>1, <2>1, <4>2, TablesFields DEF Shares, User, Shape
      <4>. QED
        BY <4>1, <4>2
    <3>. QED
      BY <3>1, <3>2, <3>3 DEF Shares
  <2>7. Left(T, 1)
    <3>1. T.unused[currpid] = unused_quantum[currpid]
      BY <1>1, <1>4, <2>1, <2>3, Found
    <3>. QED
      BY <1>1, <2>1, <3>1, TablesFields DEF Left
  <2>8. Idle(T)
    BY <1>1, <1>2 DEF Idle
  <2>9. Settled(T)
    BY <2>4, <2>5, <2>6, <2>7, <2>8 DEF Settled
  <2>10. ASSUME NEW q \in User \ {currpid}, T.pstate[q] # "PRFREE"
         PROVE  T.unused[q] <= unused_quantum[q]
    <3>1. q \in Pid /\ unused_quantum[q] \in Int
      BY <2>1, TablesFields DEF User, Shares
    <3>2. q = p => unused_quantum[q] = 0
      BY <1>2, <2>1 DEF Freed
    <3>. QED
      BY <1>1, <2>1, <3>1, <3>2, TablesFields DEF Shares
  <2>. QED
    BY <1>2, <1>4, <2>9, <2>10, LinuxStep
<1>. QED
  BY <1>3, <1>4, Found

\* resume(): onto the ready list, then resched() (resume.c).
LEMMA ResumeStep ==
  ASSUME SchedInv, NEW p \in Pid, Resume(p)
  PROVE  Kept
<1>. DEFINE T == Ready(Tables, p)
<1>1. PICK k : k = pprio[p]
  OBVIOUS
<1>2. T = PutOn(Tables, p, k)
  BY <1>1, TablesFields DEF Ready, PutOn
<1>3. Resched(T) /\ schedclass' = schedclass /\ pstate[p] = "PRSUSP"
  BY DEF Resume
<1>. HIDE DEF T
<1>4. CASE schedclass = "AGESCHED"
  <2>1. PICK M : M = [Tables EXCEPT !.pstate[p] = "PRREADY"]
    OBVIOUS
  <2>2. M = [x \in Fields |-> M[x]] /\ M.unused = unused_quantum
    BY <2>1, TablesFields DEF Fields
  <2>3. T = [x \in Fields |-> T[x]] /\ T.unused = M.unused
    BY <1>2, <2>1, <2>2 DEF PutOn, Insert, Fields
  <2>4. \A x \in Pid : T.unused[x] = 0
    BY <1>4, <2>2, <2>3, Found
  <2>. QED
    BY <1>3, <1>4, <2>3, <2>4, AgingStep
<1>5. CASE schedclass = "LINUXSCHED"
  <2>1. /\ Shape(Tables) /\ Alone(Tables) /\ Shares(Tables) /\ Left(Tables, 1)
        /\ pstate[currpid] = "PRCURR" /\ currpid \in Pid /\ pstate \in [Pid -> St]
        /\ preempt \in Int /\ unused_quantum \in [Pid -> Int]
    BY <1>5, Found
  <2>2. PICK B : B = Tables
    OBVIOUS
  <2>3. Shape(B) /\ B.pstate[p] # "PRREADY" /\ T = PutOn(B, p, k)
    BY <1>2, <1>3, <2>1, <2>2, TablesFields
  <2>4. /\ Shape(T) /\ SameShares(T, B) /\ T.currpid = B.currpid /\ T.preempt = B.preempt
        /\ T.pstate = [B.pstate EXCEPT ![p] = "PRREADY"]
    BY <2>3, PutOnFacts
  <2>5. p # currpid
    BY <1>3, <2>1
  <2>6. Alone(T) /\ Left(T, 0) /\ T.preempt \in Int
    BY <2>1, <2>2, <2>4, <2>5, TablesFields DEF Alone, Left, SameShares, User
  <2>7. \A x \in User : T.pstate[x] # "PRFREE" => B.pstate[x] # "PRFREE"
    BY <1>3, <2>1, <2>2, <2>4, TablesFields DEF User
  <2>8. Shares(T)
    BY <2>1, <2>2, <2>4, <2>6, <2>7, SharesCarry
  <2>9. Payable(T)
    BY <2>4, <2>6, <2>8 DEF Payable
  <2>10. T.preempt <= 0 => preempt <= 1
    BY <2>1, <2>2, <2>4, TablesFields
  <2>. QED
    BY <1>3, <1>5, <2>2, <2>4, <2>9, <2>10, TablesFields, LinuxResched DEF SameShares
<1>. QED
  BY <1>4, <1>5, Found

\* The running process blocks, is suspended or is killed, and resched() finds
\* its new state (suspend.c, kill.c, sleep.c).
LEMMA StopStep ==
  ASSUME SchedInv, NEW st \in {"PRSUSP", "PRSLEEP", "PRFREE"}, schedclass' = schedclass,
         NEW c, schedclass = "LINUXSCHED" => c = currpid,
         currpid # NULLPROC, Resched([Tables EXCEPT !.pstate[c] = st])
  PROVE  Kept
<1>1. PICK B, T : B = Tables /\ T = [B EXCEPT !.pstate = [pstate EXCEPT ![c] = st]]
  OBVIOUS
<1>2. T = [Tables EXCEPT !.pstate[c] = st]
  BY <1>1, TablesFields
<1>3. /\ T = [x \in Fields |-> T[x]] /\ SameShares(T, B) /\ T.currpid = currpid
      /\ T.preempt = preempt /\ T.rdy = rdy /\ T.pstate = [pstate EXCEPT ![c] = st]
      /\ T.goodness = goodness /\ T.unused = unused_quantum
  BY <1>1, TablesFields DEF Fields, SameShares
<1>4. Resched(T)
  BY <1>2
<1>5. CASE schedclass = "AGESCHED"
  BY <1>3, <1>4, <1>5, Found, AgingStep
<1>6. CASE schedclass = "LINUXSCHED"
  <2>1. /\ Shape(B) /\ Alone(B) /\ Shares(B) /\ Left(B, 1) /\ pstate[currpid] = "PRCURR"
        /\ currpid \in Pid /\ pstate \in [Pid -> St] /\ preempt \in Int
    BY <1>1, <1>6, Found
  <2>0. c = currpid
    BY <1>6
  <2>2. ReadyIn(T) = ReadyIn(B)
    BY <1>1, <1>3, <2>0, <2>1, TablesFields DEF ReadyIn
  <2>3. Shape(T)
    BY <1>1, <1>3, <2>0, <2>1, <2>2, TablesFields, PidIsFinite DEF Shape, St
  <2>4. Alone(T)
    BY <1>1, <1>3, <2>0, <2>1, TablesFields DEF Alone
  <2>5. Left(T, 0)
    BY <1>1, <1>3, <2>0, <2>1, TablesFields DEF Left
  <2>6. \A x \in User : T.pstate[x] # "PRFREE" => B.pstate[x] # "PRFREE"
    BY <1>1, <1>3, <2>0, <2>1, TablesFields DEF User
  <2>7. Shares(T)
    BY <1>3, <2>1, <2>6, SharesCarry
  <2>8. Payable(T)
    BY <2>3, <2>4, <2>5, <2>7 DEF Payable
  <2>9. T.preempt <= 0 => preempt <= 1
    BY <1>3, <2>1
  <2>. QED
    BY <1>3, <1>4, <1>6, <2>8, <2>9, LinuxResched
<1>. QED
  BY <1>5, <1>6, Found

\* Another one is suspended or killed, and taken off the ready list if it is on
\* it (suspend.c, kill.c): the running process goes on as before.
LEMMA TakeStep ==
  ASSUME SchedInv, NEW p \in Pid, NEW st \in {"PRSUSP", "PRFREE"}, schedclass' = schedclass,
         currpid # NULLPROC, p # NULLPROC, pstate[p] \in {"PRREADY", "PRSUSP", "PRSLEEP"},
         Install([Tables EXCEPT !.pstate[p] = st, !.rdy = RemoveFirst(@, p)])
  PROVE  Kept
<1>1. PICK B, T : B = Tables /\ T = [B EXCEPT !.pstate = [pstate EXCEPT ![p] = st],
                                              !.rdy = RemoveFirst(rdy, p)]
  OBVIOUS
<1>2. T = [Tables EXCEPT !.pstate[p] = st, !.rdy = RemoveFirst(@, p)]
  BY <1>1, TablesFields
<1>3. /\ T = [x \in Fields |-> T[x]] /\ SameShares(T, B) /\ T.currpid = currpid
      /\ T.preempt = preempt /\ T.rdy = RemoveFirst(rdy, p)
      /\ T.pstate = [pstate EXCEPT ![p] = st]
      /\ T.goodness = goodness /\ T.unused = unused_quantum
  BY <1>1, TablesFields DEF Fields, SameShares
<1>4. Install(T)
  BY <1>2
<1>5. CASE schedclass = "AGESCHED"
  BY <1>3, <1>4, <1>5, Found, AgingStep
<1>6. CASE schedclass = "LINUXSCHED"
  <2>1. /\ Shape(B) /\ Alone(B) /\ Shares(B) /\ Left(B, 1) /\ pstate[currpid] = "PRCURR"
        /\ currpid \in Pid /\ pstate \in [Pid -> St] /\ preempt \in Int
        /\ unused_quantum \in [Pid -> Int]
    BY <1>1, <1>6, Found
  <2>2. ReadyIn(T) = ReadyIn(B) \ {p} /\ p # currpid
    BY <1>1, <1>3, <2>1, TablesFields DEF ReadyIn
  <2>3. T.rdy \in Seq(Pid) /\ HoldsIn(Pid, T.rdy, ReadyIn(B) \ {p})
    <3>1. PICK R : R = ReadyIn(B)
      OBVIOUS
    <3>2. rdy \in Seq(Pid) /\ HoldsIn(Pid, rdy, R)
      BY <1>1, <2>1, <3>1, TablesFields DEF Shape
    <3>3. RemoveFirst(rdy, p) \in Seq(Pid) /\ HoldsIn(Pid, RemoveFirst(rdy, p), R \ {p})
      BY <3>2, RemoveFirstHoldsIn
    <3>. QED
      BY <1>3, <3>1, <3>3
  <2>4. Shape(T)
    <3>1. T.pstate \in [Pid -> St] /\ T.pstate[NULLPROC] = pstate[NULLPROC]
      BY <1>3, <2>1, PidIsFinite DEF St
    <3>2. pstate[NULLPROC] \in {"PRCURR", "PRREADY"}
      BY <1>1, <2>1, TablesFields DEF Shape
    <3>3. ReadyIn(T) = ReadyIn(B) \ {p} /\ T.currpid \in Pid
      BY <1>3, <2>1, <2>2
    <3>. QED
      BY <1>3, <2>3, <3>1, <3>2, <3>3 DEF Shape
  <2>5. Alone(T) /\ T.pstate[T.currpid] = "PRCURR"
    <3>1. \A x \in Pid : T.pstate[x] = IF x = p THEN st ELSE pstate[x]
      BY <1>3, <2>1
    <3>2. \A x \in Pid : pstate[x] = "PRCURR" => x = currpid
      BY <1>1, <2>1, TablesFields DEF Alone
    <3>3. T.pstate[currpid] = "PRCURR"
      BY <2>1, <2>2, <3>1
    <3>. QED
      BY <1>3, <3>1, <3>2, <3>3 DEF Alone
  <2>6. Left(T, 1)
    BY <1>1, <1>3, <2>1, TablesFields DEF Left
  <2>7. \A x \in User : T.pstate[x] # "PRFREE" => B.pstate[x] # "PRFREE"
    BY <1>1, <1>3, <2>1, TablesFields DEF User
  <2>8. Shares(T)
    BY <1>3, <2>1, <2>7, SharesCarry
  <2>9. Settled(T)
    BY <1>3, <2>4, <2>5, <2>6, <2>8 DEF Settled, Idle
  <2>10. \A q \in User \ {currpid} : T.pstate[q] # "PRFREE" => T.unused[q] <= unused_quantum[q]
    BY <1>3, <2>1 DEF User
  <2>. QED
    BY <1>4, <1>6, <2>9, <2>10, LinuxStep
<1>. QED
  BY <1>5, <1>6, Found

\* suspend().
LEMMA SuspendStep ==
  ASSUME SchedInv, NEW p \in Pid, Suspend(p)
  PROVE  Kept
<1>1. currpid # NULLPROC /\ p # NULLPROC /\ schedclass' = schedclass
  BY DEF Suspend, Calling
<1>2. CASE /\ pstate[p] = "PRREADY"
           /\ Install([Tables EXCEPT !.pstate[p] = "PRSUSP", !.rdy = RemoveFirst(@, p)])
  BY <1>1, <1>2, TakeStep
<1>3. CASE /\ pstate[p] = "PRCURR"
           /\ Resched([Tables EXCEPT !.pstate[p] = "PRSUSP"])
  <2>1. schedclass = "LINUXSCHED" => p = currpid
    BY <1>3, Found, TablesFields DEF Alone
  <2>. QED
    BY <1>1, <1>3, <2>1, StopStep
<1>. QED
  BY <1>2, <1>3 DEF Suspend

\* kill().
LEMMA KillStep ==
  ASSUME SchedInv, NEW p \in Pid, Kill(p)
  PROVE  Kept
<1>1. currpid # NULLPROC /\ p # NULLPROC /\ schedclass' = schedclass
  BY DEF Kill, Calling
<1>2. CASE /\ pstate[p] \in {"PRREADY", "PRSUSP", "PRSLEEP"}
           /\ Install([Tables EXCEPT !.pstate[p] = "PRFREE", !.rdy = RemoveFirst(@, p)])
  BY <1>1, <1>2, TakeStep
<1>3. CASE /\ pstate[p] = "PRCURR"
           /\ Resched([Tables EXCEPT !.pstate[p] = "PRFREE"])
  <2>1. schedclass = "LINUXSCHED" => p = currpid
    BY <1>3, Found, TablesFields DEF Alone
  <2>. QED
    BY <1>1, <1>3, <2>1, StopStep
<1>. QED
  BY <1>2, <1>3 DEF Kill

\* sleep10() and the other calls that block.
LEMMA SleepStep ==
  ASSUME SchedInv, Sleep
  PROVE  Kept
BY StopStep DEF Sleep, Calling

\* chprio(): the new priority, above 0, counts from the next epoch on (chprio.c).
LEMMA ChprioStep ==
  ASSUME SchedInv, NEW p \in Pid, NEW k \in Prios, Chprio(p, k)
  PROVE  Kept
<1>1. PICK B, T : B = Tables /\ T = [B EXCEPT !.pprio = [pprio EXCEPT ![p] = k]]
  OBVIOUS
<1>2. T = [Tables EXCEPT !.pprio[p] = k]
  BY <1>1, TablesFields
<1>3. /\ T = [x \in Fields |-> T[x]] /\ T.currpid = currpid /\ T.preempt = preempt
      /\ T.rdy = rdy /\ T.pstate = pstate /\ T.pprio = [pprio EXCEPT ![p] = k]
      /\ T.goodness = goodness /\ T.unused = unused_quantum /\ T.quantum = quantum
  BY <1>1, TablesFields DEF Fields
<1>4. Install(T) /\ schedclass' = schedclass /\ currpid # NULLPROC
  BY <1>2 DEF Chprio, Calling
<1>5. CASE schedclass = "AGESCHED"
  BY <1>3, <1>4, <1>5, Found, AgingStep
<1>6. CASE schedclass = "LINUXSCHED"
  <2>1. /\ Shape(B) /\ Alone(B) /\ Shares(B) /\ Left(B, 1) /\ pstate[currpid] = "PRCURR"
        /\ currpid \in Pid /\ unused_quantum \in [Pid -> Int]
    BY <1>1, <1>6, Found
  <2>2. k \in Nat /\ k >= 1
    BY PriosAssumption
  <2>3. Shape(T) /\ Alone(T) /\ Left(T, 1) /\ T.pstate[T.currpid] = "PRCURR"
    BY <1>1, <1>3, <2>1, TablesFields DEF Shape, Alone, Left, ReadyIn
  <2>4. Shares(T)
    BY <1>1, <1>3, <2>1, <2>2, TablesFields DEF Shares, User
  <2>5. Settled(T)
    BY <1>3, <1>4, <2>3, <2>4 DEF Settled, Idle
  <2>6. \A q \in User \ {currpid} : T.pstate[q] # "PRFREE" => T.unused[q] <= unused_quantum[q]
    BY <1>3, <2>1 DEF User
  <2>. QED
    BY <1>4, <1>6, <2>5, <2>6, LinuxStep
<1>. QED
  BY <1>5, <1>6, Found

\* The records that wakeup() passes on are tables under the aging class as well.
LEMMA ReadyAllUnused ==
  ASSUME NEW T, T = [x \in Fields |-> T[x]], NEW due \in Seq(Pid)
  PROVE  /\ ReadyAll(T, due) = [x \in Fields |-> ReadyAll(T, due)[x]]
         /\ ReadyAll(T, due).unused = T.unused
<1>1. PICK f : Readies(f, T, due) /\ ReadyAll(T, due) = f[Len(due)]
  BY ReadyAllReadies
<1>. DEFINE n == Len(due)
            Fine(m) == f[m] = [x \in Fields |-> f[m][x]] /\ f[m].unused = T.unused
            bad == {m \in 0..n : ~Fine(m)}
<1>2. n \in Nat
  OBVIOUS
<1>3. Fine(0)
  BY <1>1 DEF Readies
<1>4. ASSUME NEW m \in 1..n, Fine(m - 1) PROVE Fine(m)
  <2>1. PICK S, p, M : /\ S = f[m - 1] /\ p = due[m]
                       /\ M = [S EXCEPT !.pstate[p] = "PRREADY"]
    OBVIOUS
  <2>2. S = [x \in Fields |-> S[x]] /\ S.unused = T.unused
    BY <1>4, <2>1
  <2>3. M = [x \in Fields |-> M[x]] /\ M.unused = T.unused
    BY <2>1, <2>2 DEF Fields
  <2>4. f[m] = Insert(M, p, S.pprio[p])
    BY <1>1, <2>1 DEF Readies, Ready
  <2>5. PICK U : U = f[m]
    OBVIOUS
  <2>6. U = [x \in Fields |-> U[x]] /\ U.unused = T.unused
    BY <2>3, <2>4, <2>5 DEF Insert, Fields
  <2>. QED
    BY <2>5, <2>6
<1>5. bad = {}
  <2>. SUFFICES ASSUME bad # {} PROVE FALSE
    OBVIOUS
  <2>1. bad \in SUBSET Nat
    BY <1>2
  <2>2. PICK m \in bad : \A j \in bad : m <= j
    <3>. HIDE DEF bad
    <3>. QED
      BY <2>1, MinIsLeast
  <2>. HIDE DEF Fine
  <2>3. m \in 1..n /\ ~Fine(m)
    BY <1>2, <1>3, <2>2
  <2>4. m - 1 \in 0..n /\ m - 1 < m
    BY <1>2, <2>3
  <2>5. Fine(m - 1)
    BY <2>2, <2>4
  <2>. QED
    BY <1>4, <2>3, <2>5
<1>. HIDE DEF Fine
<1>6. Fine(n)
  BY <1>2, <1>5
<1>. QED
  BY <1>1, <1>6 DEF Fine

\* wakeup(): all who are due, then resched() (wakeup.c).
LEMMA WakeupStep ==
  ASSUME SchedInv, NEW W \in SUBSET InState("PRSLEEP"), NEW due \in SetToSeqs(W), Wakeup(due)
  PROVE  Kept
<1>1. PICK B, T : B = Tables /\ T = ReadyAll(B, due)
  OBVIOUS
<1>2. Resched(T) /\ schedclass' = schedclass
  BY <1>1 DEF Wakeup
<1>3. W \in SUBSET Pid /\ \A p \in W : pstate[p] = "PRSLEEP"
  BY DEF InState
<1>4. CASE schedclass = "AGESCHED"
  <2>1. due \in Seq(Pid)
    <3>1. IsFiniteSet(Pid)
      BY FS_Interval, NPROCAssumption DEF Pid
    <3>2. Cardinality(W) \in Nat
      BY <1>3, <3>1, FS_Subset, FS_CardinalityType
    <3>3. due \in [1..Cardinality(W) -> Pid]
      BY <1>3 DEF SetToSeqs
    <3>. QED
      BY <3>2, <3>3
  <2>2. T = [x \in Fields |-> T[x]] /\ T.unused = B.unused
    <3>1. B = [x \in Fields |-> B[x]]
      BY <1>1, TablesFields
    <3>. QED
      BY <1>1, <2>1, <3>1, ReadyAllUnused
  <2>3. \A p \in Pid : T.unused[p] = 0
    BY <1>1, <1>4, <2>2, TablesFields, Found
  <2>. QED
    BY <1>2, <1>4, <2>2, <2>3, AgingStep
<1>5. CASE schedclass = "LINUXSCHED"
  <2>1. Settled(B) /\ Shape(B) /\ pstate[currpid] = "PRCURR" /\ preempt \in Int
    BY <1>1, <1>5, Found DEF SchedInv
  <2>2. Payable(B) /\ B.pstate[B.currpid] = "PRCURR"
    BY <1>1, <2>1, PayableWhenSettled, TablesFields
  <2>3. \A p \in W : B.pstate[p] = "PRSLEEP"
    BY <1>1, <1>3, TablesFields
  <2>4. /\ Payable(T) /\ SameShares(T, B)
        /\ T.currpid = B.currpid /\ T.preempt = B.preempt
    BY <1>1, <1>3, <2>2, <2>3, ReadyAllFacts
  <2>6. T.preempt <= 0 => preempt <= 1
    BY <1>1, <2>1, <2>4, TablesFields
  <2>. QED
    BY <1>1, <1>2, <1>5, <2>4, <2>6, TablesFields, LinuxResched DEF SameShares
<1>. QED
  BY <1>4, <1>5, Found

\* clpreem: a tick less for the running process, and resched() at the last one
\* (clkint.S).
LEMMA ClpreemStep ==
  ASSUME SchedInv, Clpreem
  PROVE  Kept
<1>1. PICK B, T : B = Tables /\ T = [B EXCEPT !.preempt = preempt - 1]
  OBVIOUS
<1>2. T = [Tables EXCEPT !.preempt = @ - 1]
  BY <1>1, TablesFields
<1>3. /\ T = [x \in Fields |-> T[x]] /\ SameShares(T, B) /\ T.currpid = currpid
      /\ T.preempt = preempt - 1 /\ T.rdy = rdy /\ T.pstate = pstate
      /\ T.goodness = goodness /\ T.unused = unused_quantum
  BY <1>1, TablesFields DEF Fields, SameShares
<1>4. (IF T.preempt > 0 THEN Install(T) ELSE Resched(T)) /\ schedclass' = schedclass
  BY <1>2 DEF Clpreem
<1>5. CASE schedclass = "AGESCHED"
  BY <1>3, <1>4, <1>5, Found, AgingStep
<1>6. CASE schedclass = "LINUXSCHED"
  <2>1. /\ Shape(B) /\ Alone(B) /\ Shares(B) /\ Left(B, 1) /\ Idle(B)
        /\ pstate[currpid] = "PRCURR" /\ currpid \in Pid /\ preempt \in Int
        /\ unused_quantum \in [Pid -> Int]
    BY <1>1, <1>6, Found
  <2>2. Shape(T) /\ Alone(T) /\ Idle(T) /\ T.pstate[T.currpid] = "PRCURR"
    BY <1>1, <1>3, <2>1, TablesFields DEF Shape, Alone, ReadyIn, Idle
  <2>3. T.preempt \in Int
    BY <1>3, <2>1
  <2>4. Shares(T)
    <3>1. T.pstate = B.pstate
      BY <1>1, <1>3, TablesFields
    <3>. QED
      BY <1>3, <2>1, <2>3, <3>1, SharesCarry
  <2>5. currpid \in User \ {Main} => preempt \in 1..unused_quantum[currpid]
    BY <1>1, <2>1, TablesFields DEF Left
  <2>6. CASE T.preempt > 0
    <3>1. Left(T, 1)
      BY <1>3, <2>1, <2>5, <2>6 DEF Left
    <3>2. Settled(T)
      BY <2>2, <2>4, <3>1 DEF Settled
    <3>3. \A q \in User \ {currpid} : T.unused[q] <= unused_quantum[q]
      BY <1>3, <2>1 DEF User
    <3>. QED
      BY <1>4, <1>6, <2>6, <3>2, <3>3, LinuxStep
  <2>7. CASE ~(T.preempt > 0)
    <3>1. Left(T, 0)
      BY <1>3, <2>1, <2>5 DEF Left
    <3>2. Payable(T)
      BY <2>2, <2>4, <3>1 DEF Payable
    <3>3. preempt <= 1
      BY <1>3, <2>1, <2>7
    <3>. QED
      BY <1>3, <1>4, <1>6, <2>7, <3>2, <3>3, LinuxResched
  <2>. QED
    BY <2>6, <2>7
<1>. QED
  BY <1>5, <1>6, Found

\* clkint begins: nothing of the scheduler's changes.
LEMMA TickStep ==
  ASSUME SchedInv, UNCHANGED <<schedclass, currpid, preempt, epoch, pstate, pprio, goodness,
                               quantum, unused_quantum, rdy, qkey>>
  PROVE  Kept
<1>1. Tables' = Tables
  BY DEF Tables
<1>2. SchedInv'
  BY <1>1 DEF SchedInv
<1>3. EpochStep
  <2>. SUFFICES ASSUME NEW p \in User \ {currpid}, pstate'[p] # "PRFREE",
                       unused_quantum'[p] > unused_quantum[p]
                PROVE  FALSE
    BY DEF EpochStep
  <2>1. unused_quantum[p] \in Int
    BY Found DEF User
  <2>. QED
    BY <2>1
<1>. QED
  BY <1>2, <1>3 DEF Kept

\* Every step of the model.
LEMMA NextStep ==
  ASSUME SchedInv, [Next]_vars
  PROVE  Kept
<1>1. ASSUME NEW p \in Pid, NEW k \in Prios, Create(p, k) PROVE Kept
  BY <1>1, CreateStep
<1>2. ASSUME NEW p \in Pid, Resume(p) PROVE Kept
  BY <1>2, ResumeStep
<1>3. ASSUME NEW p \in Pid, Suspend(p) PROVE Kept
  BY <1>3, SuspendStep
<1>4. ASSUME NEW p \in Pid, Kill(p) PROVE Kept
  BY <1>4, KillStep
<1>5. ASSUME NEW p \in Pid, NEW k \in Prios, Chprio(p, k) PROVE Kept
  BY <1>5, ChprioStep
<1>6. CASE Sleep
  BY <1>6, SleepStep
<1>7. CASE Tick
  BY <1>7, TickStep DEF Tick
<1>8. ASSUME NEW W \in SUBSET InState("PRSLEEP"), NEW due \in SetToSeqs(W), Wakeup(due)
      PROVE  Kept
  BY <1>8, WakeupStep
<1>9. CASE Clpreem
  BY <1>9, ClpreemStep
<1>10. CASE UNCHANGED vars
  BY <1>10, TickStep DEF vars
<1>. QED
  BY <1>1, <1>2, <1>3, <1>4, <1>5, <1>6, <1>7, <1>8, <1>9, <1>10 DEF Next, Call, Continue

\* main() has chosen the class: only it and the null process are there, and
\* nobody has a share (main.c).
LEMMA InitSettled == Init => Settled(Tables)
<1>. SUFFICES ASSUME Init PROVE Settled(Tables)
  OBVIOUS
<1>1. PICK B : B = Tables
  OBVIOUS
<1>2. PICK k \in Prios : pprio = [p \in Pid |-> IF p = Main THEN k ELSE 0]
  BY DEF Init
<1>3. k \in Nat /\ k >= 1
  BY PriosAssumption
<1>4. Main # NULLPROC /\ Main \in Pid /\ NULLPROC \in Pid
  BY NPROCAssumption DEF Main, NULLPROC, Pid
<1>5. /\ B = [x \in Fields |-> B[x]] /\ B.currpid = Main /\ B.preempt = preempt
      /\ B.rdy = <<NULLPROC>> /\ B.pprio = [p \in Pid |-> IF p = Main THEN k ELSE 0]
      /\ B.goodness = [p \in Pid |-> 0] /\ B.quantum = [p \in Pid |-> 0]
      /\ B.unused = [p \in Pid |-> 0]
      /\ B.pstate = [p \in Pid |-> IF p = Main THEN "PRCURR"
                             ELSE IF p = NULLPROC THEN "PRREADY" ELSE "PRFREE"]
  BY <1>1, <1>2, TablesFields DEF Init
<1>6. preempt \in Int
  BY BoundsAssumption, QUANTUMAssumption DEF Init
<1>7. HoldsIn(Pid, B.rdy, ReadyIn(B)) /\ B.rdy \in Seq(Pid)
  <2>1. ReadyIn(B) = {NULLPROC}
    BY <1>4, <1>5 DEF ReadyIn
  <2>2. \A p \in Pid : Contains(<<NULLPROC>>, p) <=> p = NULLPROC
    BY DEF Contains
  <2>3. Len(<<NULLPROC>>) = 1 /\ <<NULLPROC>> \in Seq(Pid)
    BY <1>4
  <2>4. \A i, j \in 1..1 : i = j
    OBVIOUS
  <2>5. HoldsIn(Pid, <<NULLPROC>>, {NULLPROC})
    BY <2>2, <2>3, <2>4 DEF HoldsIn
  <2>. QED
    BY <1>5, <2>1, <2>3, <2>5
<1>8. Shape(B)
  BY <1>4, <1>5, <1>7 DEF Shape, St
<1>9. Alone(B) /\ Left(B, 1) /\ Idle(B) /\ B.pstate[B.currpid] = "PRCURR"
  BY <1>4, <1>5 DEF Alone, Left, Idle
<1>10. Shares(B)
  BY <1>3, <1>4, <1>5, <1>6 DEF Shares, User
<1>. QED
  BY <1>1, <1>8, <1>9, <1>10 DEF Settled

LEMMA InitSched == Init => SchedInv
BY InitSettled DEF SchedInv, Init

\* The invariant holds throughout.
LEMMA SchedInvHolds == Spec => []SchedInv
<1>1. SchedInv /\ [Next]_vars => SchedInv'
  BY NextStep DEF Kept
<1>. QED
  BY <1>1, InitSched, PTL DEF Spec

\* Whoever runs under the Linux-like class has ticks left, and no more than its
\* share; goodness and share run out together.
THEOREM EachRunsOnItsShare == Spec => []RunsOnItsShare
<1>1. SchedInv => RunsOnItsShare
  <2>. SUFFICES ASSUME SchedInv, schedclass = "LINUXSCHED", NEW p \in User \ {Main}
                PROVE  /\ unused_quantum[p] \in 0..goodness[p]
                       /\ unused_quantum[p] = 0 <=> goodness[p] = 0
                       /\ currpid = p /\ frame[p] = "user" => preempt \in 1..unused_quantum[p]
    BY DEF RunsOnItsShare
  <2>1. PICK B : B = Tables
    OBVIOUS
  <2>2. Shares(B) /\ Left(B, 1)
    BY <2>1, Found
  <2>3. /\ B.currpid = currpid /\ B.preempt = preempt /\ B.unused = unused_quantum
        /\ B.goodness = goodness
    BY <2>1, TablesFields
  <2>4. /\ unused_quantum[p] \in Int /\ goodness[p] \in Int
        /\ unused_quantum[p] <= goodness[p] /\ unused_quantum[p] >= 0
        /\ unused_quantum[p] = 0 <=> goodness[p] = 0
    BY <2>2, <2>3 DEF Shares, User
  <2>5. currpid = p => preempt \in 1..unused_quantum[p]
    BY <2>2, <2>3 DEF Left
  <2>. QED
    BY <2>4, <2>5
<1>. QED
  BY <1>1, SchedInvHolds, PTL

\* The null process runs only when nobody is ready but a main() that owes ticks.
THEOREM IdleRunsLast == Spec => []IdleOnlyWhenNobodyReady
<1>1. SchedInv => IdleOnlyWhenNobodyReady
  BY Found, TablesFields DEF Idle, ReadyIn, InState, IdleOnlyWhenNobodyReady
<1>. QED
  BY <1>1, SchedInvHolds, PTL

\* A new epoch begins only when the shares of all who may run are used up.
THEOREM EpochsBeginWhenSpent == Spec => EpochOnlyWhenSpent
<1>1. SchedInv /\ [Next]_vars =>
        [ (\E p \in User \ {currpid} :
             pstate'[p] # "PRFREE" /\ unused_quantum'[p] > unused_quantum[p])
          => /\ \A p \in User \ {currpid} :
                  pstate'[p] \in {"PRREADY", "PRCURR"} => goodness[p] <= 0
             /\ currpid # NULLPROC /\ pstate'[currpid] \in {"PRREADY", "PRCURR"}
                  => preempt <= 1 ]_vars
  BY NextStep DEF Kept, EpochStep
<1>. QED
  BY <1>1, SchedInvHolds, PTL DEF Spec, EpochOnlyWhenSpent

-------------------------------------------------------------------------------
(***************************************************************************)
(* Sums over a set, which Behind() is.                                     *)
(***************************************************************************)
AnElement(s) == CHOOSE x \in s : TRUE

\* sum has the sum of w over each subset of S with at most n elements.
Sums(sum, w, S, n) ==
  sum = [s \in {t \in SUBSET S : Cardinality(t) <= n} |->
           IF s = {} THEN 0 ELSE w[AnElement(s)] + sum[s \ {AnElement(s)}]]

\* Taking an element away leaves one less.
LEMMA OneLess ==
  ASSUME NEW S, IsFiniteSet(S), NEW s \in SUBSET S, s # {}
  PROVE  /\ AnElement(s) \in s /\ s \ {AnElement(s)} \in SUBSET S
         /\ Cardinality(s) \in Nat /\ Cardinality(s) >= 1
         /\ Cardinality(s \ {AnElement(s)}) = Cardinality(s) - 1
<1>1. AnElement(s) \in s
  BY DEF AnElement
<1>2. IsFiniteSet(s)
  BY FS_Subset
<1>3. PICK a : a = AnElement(s)
  OBVIOUS
<1>4. IsFiniteSet(s \ {a}) /\ Cardinality(s \ {a}) = Cardinality(s) - 1
  BY <1>1, <1>2, <1>3, FS_RemoveElement
<1>5. Cardinality(s) \in Nat /\ Cardinality(s \ {a}) \in Nat
  BY <1>2, <1>4, FS_CardinalityType
<1>. QED
  BY <1>1, <1>3, <1>4, <1>5

\* There is such a function.
LEMMA SumsExist ==
  ASSUME NEW S, IsFiniteSet(S), NEW w
  PROVE  \E sum : Sums(sum, w, S, Cardinality(S))
<1>0. Cardinality(S) \in Nat
  BY FS_CardinalityType
<1>1. PICK N : N = {n \in 0..Cardinality(S) : \E sum : Sums(sum, w, S, n)}
  OBVIOUS
<1>. DEFINE Upto(n) == {t \in SUBSET S : Cardinality(t) <= n}
<1>2. 0 \in N
  <2>1. PICK sum : sum = [s \in Upto(0) |-> 0]
    OBVIOUS
  <2>2. ASSUME NEW s \in Upto(0) PROVE s = {}
    <3>1. s # {} => Cardinality(s) \in Nat /\ Cardinality(s) >= 1
      BY OneLess
    <3>2. Cardinality(s) <= 0
      OBVIOUS
    <3>. QED
      BY <3>1, <3>2
  <2>3. Sums(sum, w, S, 0)
    BY <2>1, <2>2 DEF Sums
  <2>. QED
    BY <1>0, <1>1, <2>3
<1>3. ASSUME NEW n \in 1..Cardinality(S), n - 1 \in N PROVE n \in N
  <2>1. PICK sum : Sums(sum, w, S, n - 1)
    BY <1>1, <1>3
  <2>. DEFINE Sum(s) == IF s = {} THEN 0 ELSE w[AnElement(s)] + sum[s \ {AnElement(s)}]
              more == [s \in Upto(n) |-> Sum(s)]
  <2>2. ASSUME NEW s \in Upto(n - 1) PROVE sum[s] = Sum(s)
    BY <2>1 DEF Sums
  <2>3. ASSUME NEW s \in Upto(n) PROVE more[s] = IF s = {} THEN 0 ELSE w[AnElement(s)] + more[s \ {AnElement(s)}]
    <3>1. CASE s = {}
      BY <3>1
    <3>2. CASE s # {}
      <4>. DEFINE rest == s \ {AnElement(s)}
      <4>1. rest \in SUBSET S /\ Cardinality(rest) = Cardinality(s) - 1 /\ Cardinality(s) \in Nat
        BY <3>2, OneLess
      <4>2. Cardinality(s) <= n /\ n \in Nat
        BY <1>0
      <4>3. Cardinality(rest) <= n - 1 /\ Cardinality(rest) <= n
        BY <4>1, <4>2
      <4>4. rest \in Upto(n - 1) /\ rest \in Upto(n)
        BY <4>1, <4>3
      <4>. HIDE DEF rest
      <4>5. more[rest] = Sum(rest) /\ sum[rest] = Sum(rest)
        BY <2>2, <4>4
      <4>6. more[s] = w[AnElement(s)] + sum[rest]
        BY <3>2 DEF rest
      <4>. QED
        BY <3>2, <4>5, <4>6 DEF rest
    <3>. QED
      BY <3>1, <3>2
  <2>4. more = [s \in Upto(n) |-> IF s = {} THEN 0 ELSE w[AnElement(s)] + more[s \ {AnElement(s)}]]
    <3>1. more = [s \in Upto(n) |-> more[s]]
      OBVIOUS
    <3>. HIDE DEF more
    <3>. QED
      BY <2>3, <3>1, Zenon
  <2>5. Sums(more, w, S, n)
    BY <2>4 DEF Sums
  <2>. QED
    BY <1>1, <2>5
<1>4. Cardinality(S) \in N
  BY <1>0, <1>2, <1>3, UpToTheLast
<1>. QED
  BY <1>1, <1>4

\* A sum of numbers none of which is greater is no greater, and less if one is less.
LEMMA SumsCompare ==
  ASSUME NEW S, IsFiniteSet(S), NEW v, NEW w,
         \A x \in S : v[x] \in Nat /\ w[x] \in Nat /\ v[x] <= w[x],
         NEW f, Sums(f, v, S, Cardinality(S)), NEW g, Sums(g, w, S, Cardinality(S))
  PROVE  /\ f[S] \in Nat /\ g[S] \in Nat /\ f[S] <= g[S]
         /\ (\E x \in S : v[x] < w[x]) => f[S] < g[S]
<1>. DEFINE Compared(s) == /\ f[s] \in Nat /\ g[s] \in Nat /\ f[s] <= g[s]
                           /\ (\E x \in s : v[x] < w[x]) => f[s] < g[s]
<1>0. Cardinality(S) \in Nat
  BY FS_CardinalityType
<1>1. PICK N : N = {n \in 0..Cardinality(S) : \A s \in SUBSET S : Cardinality(s) = n => Compared(s)}
  OBVIOUS
<1>2. ASSUME NEW s \in SUBSET S
      PROVE  /\ s = {} => f[s] = 0 /\ g[s] = 0
             /\ s # {} => /\ f[s] = v[AnElement(s)] + f[s \ {AnElement(s)}]
                          /\ g[s] = w[AnElement(s)] + g[s \ {AnElement(s)}]
  <2>1. IsFiniteSet(s) /\ Cardinality(s) <= Cardinality(S)
    BY FS_Subset
  <2>. QED
    BY <2>1 DEF Sums
<1>3. 0 \in N
  <2>1. ASSUME NEW s \in SUBSET S, Cardinality(s) = 0 PROVE Compared(s)
    <3>1. s = {}
      <4>1. s # {} => Cardinality(s) \in Nat /\ Cardinality(s) >= 1
        BY OneLess
      <4>. QED
        BY <2>1, <4>1
    <3>2. f[s] = 0 /\ g[s] = 0
      BY <1>2, <3>1
    <3>. QED
      BY <3>1, <3>2
  <2>. QED
    BY <1>0, <1>1, <2>1
<1>4. ASSUME NEW n \in 1..Cardinality(S), n - 1 \in N PROVE n \in N
  <2>1. ASSUME NEW s \in SUBSET S, Cardinality(s) = n PROVE Compared(s)
    <3>. DEFINE a == AnElement(s)
                rest == s \ {a}
    <3>1. s # {}
      <4>1. Cardinality({}) = 0
        BY FS_EmptySet
      <4>. QED
        BY <2>1, <4>1
    <3>2. a \in s /\ rest \in SUBSET S /\ Cardinality(rest) = n - 1
      BY <2>1, <3>1, OneLess
    <3>3. f[s] = v[a] + f[rest] /\ g[s] = w[a] + g[rest]
      BY <1>2, <3>1
    <3>4. a \in S /\ s = rest \cup {a}
      BY <3>2
    <3>. HIDE DEF a, rest
    <3>5. Compared(rest)
      BY <1>1, <1>4, <3>2
    <3>6. v[a] \in Nat /\ w[a] \in Nat /\ v[a] <= w[a]
      BY <3>4
    <3>7. f[s] \in Nat /\ g[s] \in Nat /\ f[s] <= g[s]
      BY <3>3, <3>5, <3>6
    <3>8. ASSUME NEW x \in s, v[x] < w[x] PROVE f[s] < g[s]
      <4>1. CASE x = a
        BY <3>3, <3>5, <3>6, <3>8, <4>1
      <4>2. CASE x # a
        <5>1. f[rest] < g[rest]
          BY <3>4, <3>5, <3>8, <4>2
        <5>. QED
          BY <3>3, <3>5, <3>6, <5>1
      <4>. QED
        BY <4>1, <4>2
    <3>. QED
      BY <3>7, <3>8
  <2>. QED
    BY <1>1, <2>1
<1>5. Cardinality(S) \in N
  BY <1>0, <1>3, <1>4, UpToTheLast
<1>. QED
  BY <1>1, <1>5

Lead(prio, p) == [r \in Pid |-> IF prio[r] >= prio[p] THEN prio[r] - prio[p] + 1 ELSE 0]
Others(p) == {r \in Pid \ {p} : pstate[r] # "PRFREE"}

LEMMA OthersFinite ==
  ASSUME NEW p
  PROVE  IsFiniteSet(Others(p)) /\ Others(p) \subseteq Pid
<1>1. IsFiniteSet(0..NPROC - 1)
  BY NPROCAssumption, FS_Interval
<1>. QED
  BY <1>1, FS_Subset DEF Others, Pid

\* Behind() is the sum of what the others are ahead.
LEMMA BehindIsSum ==
  ASSUME NEW prio, NEW p
  PROVE  \E sum : /\ Sums(sum, Lead(prio, p), Others(p), Cardinality(Others(p)))
                  /\ Behind(prio, p) = sum[Others(p)]
<1>1. PICK S : S = Others(p)
  OBVIOUS
<1>2. PICK w : w = Lead(prio, p)
  OBVIOUS
<1>3. IsFiniteSet(S) /\ S \subseteq Pid
  BY <1>1, OthersFinite
<1>4. {t \in SUBSET S : Cardinality(t) <= Cardinality(S)} = SUBSET S
  BY <1>3, FS_Subset
<1>. DEFINE Ahead(r) == IF prio[r] >= prio[p] THEN prio[r] - prio[p] + 1 ELSE 0
            First(s) == CHOOSE x \in s : TRUE
            Is(sum) == sum = [s \in SUBSET S |-> IF s = {} THEN 0
                                ELSE Ahead(First(s)) + sum[s \ {First(s)}]]
<1>5. \A sum : Is(sum) <=> Sums(sum, w, S, Cardinality(S))
  <2>1. ASSUME NEW s \in SUBSET S, s # {}
        PROVE  First(s) = AnElement(s) /\ Ahead(First(s)) = w[AnElement(s)]
    <3>1. AnElement(s) \in s
      BY <2>1 DEF AnElement
    <3>2. AnElement(s) \in Pid
      BY <1>3, <3>1
    <3>3. First(s) = AnElement(s)
      BY DEF AnElement
    <3>. HIDE DEF First
    <3>. QED
      BY <1>2, <3>2, <3>3 DEF Lead
  <2>2. ASSUME NEW sum
        PROVE  [s \in SUBSET S |-> IF s = {} THEN 0 ELSE Ahead(First(s)) + sum[s \ {First(s)}]]
               = [s \in SUBSET S |-> IF s = {} THEN 0 ELSE w[AnElement(s)] + sum[s \ {AnElement(s)}]]
    <3>1. ASSUME NEW s \in SUBSET S
          PROVE  (IF s = {} THEN 0 ELSE Ahead(First(s)) + sum[s \ {First(s)}])
                 = IF s = {} THEN 0 ELSE w[AnElement(s)] + sum[s \ {AnElement(s)}]
      <4>. HIDE DEF First, Ahead
      <4>1. s # {} => First(s) = AnElement(s) /\ Ahead(First(s)) = w[AnElement(s)]
        BY <2>1
      <4>. QED
        BY <4>1
    <3>. HIDE DEF First, Ahead
    <3>. QED
      BY <3>1, Zenon
  <2>3. ASSUME NEW sum
        PROVE  Sums(sum, w, S, Cardinality(S)) <=>
                 sum = [s \in SUBSET S |-> IF s = {} THEN 0 ELSE w[AnElement(s)] + sum[s \ {AnElement(s)}]]
    BY <1>4, Zenon DEF Sums
  <2>. HIDE DEF First, Ahead
  <2>4. ASSUME NEW sum PROVE Is(sum) <=> Sums(sum, w, S, Cardinality(S))
    <3>1. PICK F : F = [s \in SUBSET S |-> IF s = {} THEN 0 ELSE Ahead(First(s)) + sum[s \ {First(s)}]]
      OBVIOUS
    <3>2. PICK G : G = [s \in SUBSET S |-> IF s = {} THEN 0 ELSE w[AnElement(s)] + sum[s \ {AnElement(s)}]]
      OBVIOUS
    <3>3. F = G
      BY <2>2, <3>1, <3>2, Zenon
    <3>4. Is(sum) <=> sum = F
      BY <3>1, Zenon
    <3>5. Sums(sum, w, S, Cardinality(S)) <=> sum = G
      BY <2>3, <3>2, Zenon
    <3>. QED
      BY <3>3, <3>4, <3>5
  <2>. HIDE DEF Is
  <2>. QED
    BY <2>4
<1>6. PICK sum : sum = CHOOSE g : Is(g)
  OBVIOUS
<1>7. Behind(prio, p) = sum[S]
  <2>1. Behind(prio, p) = MapThenSumSet(LAMBDA r : IF prio[r] >= prio[p] THEN prio[r] - prio[p] + 1 ELSE 0, S)
    BY <1>1 DEF Behind, Others
  <2>. QED
    BY <1>6, <2>1 DEF MapThenSumSet, MapThenFoldSet
<1>8. Is(sum)
  <2>1. PICK g : Sums(g, w, S, Cardinality(S))
    BY <1>3, SumsExist
  <2>2. Is(g)
    <3>. HIDE DEF Is
    <3>. QED
      BY <1>5, <2>1
  <2>. HIDE DEF Is
  <2>. QED
    BY <1>6, <2>2
<1>9. Sums(sum, w, S, Cardinality(S))
  BY <1>5, <1>8
<1>. QED
  BY <1>1, <1>2, <1>7, <1>9

\* So p is no further behind if nobody gained on it, and less if somebody lost.
LEMMA BehindFalls ==
  ASSUME NEW p \in Pid, NEW prio \in [Pid -> Nat], NEW later \in [Pid -> Nat],
         \A r \in Others(p) : Lead(later, p)[r] <= Lead(prio, p)[r]
  PROVE  /\ Behind(later, p) <= Behind(prio, p)
         /\ \A r \in Others(p) :
              Lead(later, p)[r] < Lead(prio, p)[r] => Behind(later, p) < Behind(prio, p)
<1>1. PICK S : S = Others(p)
  OBVIOUS
<1>2. PICK v, w : v = Lead(later, p) /\ w = Lead(prio, p)
  OBVIOUS
<1>3. IsFiniteSet(S) /\ S \subseteq Pid
  BY <1>1, OthersFinite
<1>4. ASSUME NEW r \in S PROVE v[r] \in Nat /\ w[r] \in Nat /\ v[r] <= w[r]
  <2>1. r \in Pid /\ later[r] \in Nat /\ later[p] \in Nat /\ prio[r] \in Nat /\ prio[p] \in Nat
    BY <1>3
  <2>2. v[r] \in Nat /\ w[r] \in Nat
    BY <1>2, <2>1 DEF Lead
  <2>. QED
    BY <1>1, <1>2, <2>2
<1>5. PICK f : Sums(f, v, S, Cardinality(S)) /\ Behind(later, p) = f[S]
  BY <1>1, <1>2, BehindIsSum
<1>6. PICK g : Sums(g, w, S, Cardinality(S)) /\ Behind(prio, p) = g[S]
  BY <1>1, <1>2, BehindIsSum
<1>7. f[S] <= g[S] /\ ((\E r \in S : v[r] < w[r]) => f[S] < g[S])
  BY <1>3, <1>4, <1>5, <1>6, SumsCompare
<1>. QED
  BY <1>1, <1>2, <1>5, <1>6, <1>7
-------------------------------------------------------------------------------
(***************************************************************************)
(* The ready list under the aging class: in the order of its keys, which   *)
(* are the priorities of those on it until chprio() changes one            *)
(* (resched.c:152-200).                                                    *)
(***************************************************************************)
Keys(T) ==
  /\ T.pprio \in [Pid -> Nat]
  /\ T.qkey \in [Pid -> Int]
  /\ Sorted(T.rdy, T.qkey)

Aged(T) == Shape(T) /\ Alone(T) /\ Keys(T)

\* The keys are the priorities.
Current(T) == \A p \in ReadyIn(T) : T.qkey[p] = T.pprio[p]

\* Going onto the list leaves it in order.
LEMMA PutOnKeys ==
  ASSUME NEW T, Shape(T), Keys(T), NEW p \in Pid, T.pstate[p] # "PRREADY", NEW k \in Int
  PROVE  /\ Keys(PutOn(T, p, k))
         /\ PutOn(T, p, k).qkey = [T.qkey EXCEPT ![p] = k]
<1>. DEFINE M == [T EXCEPT !.pstate[p] = "PRREADY"]
            U == PutOn(T, p, k)
<1>1. PICK list, key : list = T.rdy /\ key = T.qkey
  OBVIOUS
<1>2. /\ M = [x \in Fields |-> M[x]] /\ M.rdy = list /\ M.qkey = key /\ M.pprio = T.pprio
  BY <1>1 DEF Fields, Shape
<1>3. PICK new : new = InsertAt(list, Min({i \in 1..Len(list) : key[list[i]] >= k} \cup {Len(list) + 1}), p)
  OBVIOUS
<1>. HIDE DEF M
<1>4. U = [M EXCEPT !.rdy = new, !.qkey[p] = k]
  BY <1>2, <1>3 DEF PutOn, Insert, M
<1>. HIDE DEF U
<1>5. U.rdy = new /\ U.qkey = [key EXCEPT ![p] = k] /\ U.pprio = T.pprio
  BY <1>2, <1>4 DEF Fields
<1>6. list \in Seq(Pid) /\ key \in [Pid -> Int] /\ Sorted(list, key) /\ ~Contains(list, p)
  BY <1>1 DEF Shape, Keys, HoldsIn, ReadyIn
<1>7. Sorted(new, [key EXCEPT ![p] = k])
  BY <1>3, <1>6, InsertAtSorted
<1>. QED
  BY <1>1, <1>5, <1>6, <1>7 DEF Keys, U

\* And so does leaving it.
LEMMA DispatchKeys ==
  ASSUME NEW T, Shape(T), Keys(T), NEW p \in Pid, NEW n
  PROVE  Keys(Dispatch(T, p, n)) /\ Dispatch(T, p, n).qkey = T.qkey
<1>. DEFINE D == Dispatch(T, p, n)
<1>1. PICK list, key : list = T.rdy /\ key = T.qkey
  OBVIOUS
<1>2. D.rdy = RemoveFirst(list, p) /\ D.qkey = key /\ D.pprio = T.pprio
  BY <1>1 DEF Dispatch, Fields, Shape
<1>. HIDE DEF D
<1>3. list \in Seq(Pid) /\ key \in [Pid -> Int] /\ Sorted(list, key)
  BY <1>1 DEF Shape, Keys
<1>4. Sorted(RemoveFirst(list, p), key)
  BY <1>3, RemoveFirstSorted
<1>. QED
  BY <1>1, <1>2, <1>3, <1>4 DEF Keys, D

\* agingsched() raises those on the list by one, and nobody else.
LEMMA AgingFacts ==
  ASSUME NEW T, Aged(T)
  PROVE  /\ Aged(agingsched(T))
         /\ agingsched(T).currpid = T.currpid /\ agingsched(T).pstate = T.pstate
         /\ \A p \in Pid :
              /\ agingsched(T).pprio[p] = IF p \in ReadyIn(T) THEN T.pprio[p] + 1 ELSE T.pprio[p]
              /\ agingsched(T).qkey[p] = IF p \in ReadyIn(T) THEN T.qkey[p] + 1 ELSE T.qkey[p]
         /\ Current(T) => Current(agingsched(T))
<1>. DEFINE A == agingsched(T)
            more(f) == [p \in Pid |-> IF Contains(T.rdy, p) THEN f[p] + 1 ELSE f[p]]
<1>1. Shape(T) /\ Alone(T) /\ Keys(T)
  BY DEF Aged
<1>2. /\ A = [x \in Fields |-> A[x]] /\ A.currpid = T.currpid /\ A.pstate = T.pstate
      /\ A.rdy = T.rdy /\ A.pprio = more(T.pprio) /\ A.qkey = more(T.qkey)
  BY <1>1 DEF agingsched, Fields, Shape
<1>. HIDE DEF A
<1>3. \A p \in Pid : Contains(T.rdy, p) <=> p \in ReadyIn(T)
  BY <1>1 DEF Shape, HoldsIn
<1>4. /\ T.pprio \in [Pid -> Nat] /\ T.qkey \in [Pid -> Int] /\ Sorted(T.rdy, T.qkey)
      /\ T.rdy \in Seq(Pid)
  BY <1>1 DEF Keys, Shape
<1>5. \A p \in Pid :
        /\ A.pprio[p] = IF p \in ReadyIn(T) THEN T.pprio[p] + 1 ELSE T.pprio[p]
        /\ A.qkey[p] = IF p \in ReadyIn(T) THEN T.qkey[p] + 1 ELSE T.qkey[p]
  BY <1>2, <1>3
<1>6. A.pprio \in [Pid -> Nat] /\ A.qkey \in [Pid -> Int]
  <2>1. PICK prio, key : prio = T.pprio /\ key = T.qkey
    OBVIOUS
  <2>2. prio \in [Pid -> Nat] /\ key \in [Pid -> Int]
    BY <1>4, <2>1
  <2>3. more(prio) \in [Pid -> Nat] /\ more(key) \in [Pid -> Int]
    BY <2>2
  <2>. HIDE DEF more
  <2>. QED
    BY <1>2, <2>1, <2>3
<1>7. Sorted(A.rdy, A.qkey)
  <2>1. PICK list, key, keys : list = T.rdy /\ key = T.qkey /\ keys = A.qkey
    OBVIOUS
  <2>2. \A i \in 1..Len(list) : list[i] \in Pid /\ keys[list[i]] = key[list[i]] + 1 /\ key[list[i]] \in Int
    <3>1. \A i \in 1..Len(list) : list[i] \in Pid /\ Contains(list, list[i])
      BY <1>4, <2>1 DEF Contains
    <3>. QED
      BY <1>3, <1>4, <1>5, <2>1, <3>1
  <2>3. ASSUME NEW i \in 1..Len(list), NEW j \in 1..Len(list), i < j
        PROVE  keys[list[i]] <= keys[list[j]]
    <3>1. key[list[i]] <= key[list[j]]
      BY <1>4, <2>1, <2>3 DEF Sorted
    <3>. QED
      BY <2>2, <3>1
  <2>. QED
    BY <1>2, <2>1, <2>3 DEF Sorted
<1>8. Shape(A) /\ Alone(A) /\ ReadyIn(A) = ReadyIn(T)
  BY <1>1, <1>2 DEF Shape, Alone, ReadyIn
<1>9. Current(T) => Current(A)
  <2>1. ASSUME Current(T), NEW p \in ReadyIn(T) PROVE A.qkey[p] = A.pprio[p]
    <3>1. p \in Pid /\ T.qkey[p] = T.pprio[p]
      BY <2>1 DEF Current, ReadyIn
    <3>. QED
      BY <1>5, <3>1
  <2>. QED
    BY <1>8, <2>1 DEF Current
<1>. QED
  BY <1>2, <1>5, <1>6, <1>7, <1>8, <1>9 DEF Aged, Keys, A

\* In a list in order nobody's key is above the last one's.
LEMMA LastLeads ==
  ASSUME NEW T, Shape(T), Keys(T), NEW p \in ReadyIn(T)
  PROVE  T.rdy # <<>> /\ Last(T.rdy) \in ReadyIn(T) /\ T.qkey[p] <= T.qkey[Last(T.rdy)]
<1>1. PICK list, key, R : list = T.rdy /\ key = T.qkey /\ R = ReadyIn(T)
  OBVIOUS
<1>2. list \in Seq(Pid) /\ key \in [Pid -> Int] /\ Sorted(list, key) /\ HoldsIn(Pid, list, R)
  BY <1>1 DEF Shape, Keys
<1>3. p \in Pid /\ Contains(list, p)
  BY <1>1, <1>2 DEF HoldsIn, ReadyIn
<1>4. list # <<>>
  BY <1>3 DEF Contains
<1>5. Last(list) \in R
  BY <1>2, <1>4, FrontHoldsIn
<1>6. key[p] <= key[Last(list)]
  BY <1>2, <1>3, <1>4, LastIsHighest
<1>. QED
  BY <1>1, <1>4, <1>5, <1>6

\* defaultsched() leaves somebody running who is not below anybody that waits on,
\* if the keys are the priorities.
LEMMA DefaultFacts ==
  ASSUME NEW T, Aged(T)
  PROVE  /\ Aged(defaultsched(T))
         /\ defaultsched(T).pstate[defaultsched(T).currpid] = "PRCURR"
         /\ defaultsched(T).pprio = T.pprio
         /\ \A p \in Pid : T.pstate[p] # "PRFREE" <=> defaultsched(T).pstate[p] # "PRFREE"
         /\ \A p \in ReadyIn(T) :
              /\ defaultsched(T).qkey[p] = T.qkey[p]
              /\ Current(T) /\ p \in ReadyIn(defaultsched(T)) =>
                   T.pprio[defaultsched(T).currpid] >= T.pprio[p]
<1>. DEFINE c == T.currpid
            D == defaultsched(T)
<1>1. /\ Shape(T) /\ Alone(T) /\ Keys(T) /\ c \in Pid /\ T.pstate \in [Pid -> St]
      /\ T.pprio \in [Pid -> Nat] /\ T.qkey \in [Pid -> Int] /\ T.pprio[c] \in Nat
  BY DEF Aged, Shape, Keys
<1>2. CASE Yields(T) /\ (T.rdy = <<>> \/ T.qkey[Last(T.rdy)] < T.pprio[c])
  <2>1. D = T
    BY <1>2 DEF defaultsched
  <2>. HIDE DEF D
  <2>2. ASSUME NEW p \in ReadyIn(T), Current(T) PROVE T.pprio[c] >= T.pprio[p]
    <3>1. /\ T.rdy # <<>> /\ T.qkey[p] <= T.qkey[Last(T.rdy)] /\ p \in Pid
          /\ Last(T.rdy) \in Pid /\ T.qkey[p] = T.pprio[p]
      BY <1>1, <2>2, LastLeads DEF ReadyIn, Current
    <3>2. T.qkey[Last(T.rdy)] \in Int /\ T.qkey[p] \in Int
      BY <1>1, <3>1
    <3>. QED
      BY <1>1, <1>2, <3>1, <3>2
  <2>. QED
    BY <1>2, <2>1, <2>2 DEF Yields, D
<1>3. CASE ~(Yields(T) /\ (T.rdy = <<>> \/ T.qkey[Last(T.rdy)] < T.pprio[c]))
  <2>1. PICK k : k = T.pprio[c]
    OBVIOUS
  <2>2. PICK S : S = StepDown(T, k)
    OBVIOUS
  <2>3. PICK l : l = Last(S.rdy)
    OBVIOUS
  <2>4. D = Dispatch(S, l, QUANTUM)
    BY <1>3, <2>1, <2>2, <2>3 DEF defaultsched
  <2>. HIDE DEF D
  <2>5. /\ Shape(S) /\ SameShares(S, T) /\ S.currpid = c
        /\ S.pstate = IF Yields(T) THEN [T.pstate EXCEPT ![c] = "PRREADY"] ELSE T.pstate
        /\ \A x \in Pid : S.pstate[x] # "PRCURR"
    BY <1>1, <2>2, StepDownFacts
  <2>6. /\ Keys(S) /\ S.qkey \in [Pid -> Int]
        /\ S.qkey = IF Yields(T) THEN [T.qkey EXCEPT ![c] = k] ELSE T.qkey
    <3>1. CASE Yields(T)
      <4>1. S = PutOn(T, c, k) /\ T.pstate[c] # "PRREADY" /\ k \in Int
        BY <1>1, <2>1, <2>2, <3>1 DEF StepDown, PutOn, Yields
      <4>2. Keys(S) /\ S.qkey = [T.qkey EXCEPT ![c] = k]
        BY <1>1, <4>1, PutOnKeys
      <4>. QED
        BY <3>1, <4>2 DEF Keys
    <3>2. CASE ~Yields(T)
      BY <1>1, <2>2, <3>2 DEF StepDown
    <3>. QED
      BY <3>1, <3>2
  <2>7. NULLPROC \in ReadyIn(S)
    BY <2>5, PidIsFinite DEF Shape, ReadyIn
  <2>8. l \in ReadyIn(S) /\ l \in Pid /\ S.pstate[l] = "PRREADY"
    BY <2>3, <2>5, <2>6, <2>7, LastLeads DEF ReadyIn
  <2>9. /\ Shape(D) /\ Alone(D) /\ SameShares(D, S) /\ D.currpid = l
        /\ D.pstate = [S.pstate EXCEPT ![l] = "PRCURR"]
    <3>1. Shape(S) /\ l \in Pid /\ S.pstate[l] = "PRREADY" /\ \A x \in Pid : S.pstate[x] # "PRCURR"
      BY <2>5, <2>8
    <3>. QED
      BY <2>4, <3>1, DispatchFacts
  <2>10. Keys(D) /\ D.qkey = S.qkey
    BY <2>4, <2>5, <2>6, <2>8, DispatchKeys
  <2>11. D.pprio = T.pprio
    BY <2>5, <2>9 DEF SameShares
  <2>12. S.pstate \in [Pid -> St]
    BY <2>5 DEF Shape
  <2>13. \A p \in Pid : T.pstate[p] # "PRFREE" <=> D.pstate[p] # "PRFREE"
    BY <1>1, <2>5, <2>8, <2>9, <2>12 DEF Yields
  <2>14. D.pstate[D.currpid] = "PRCURR"
    BY <2>8, <2>9, <2>12
  <2>15. ASSUME NEW p \in ReadyIn(T)
         PROVE  /\ D.qkey[p] = T.qkey[p]
                /\ Current(T) => T.pprio[l] >= T.pprio[p]
    <3>1. p # c /\ p \in Pid /\ T.pstate[p] = "PRREADY"
      BY <1>1 DEF ReadyIn, Alone
    <3>2. S.qkey[p] = T.qkey[p] /\ p \in ReadyIn(S)
      BY <1>1, <2>5, <2>6, <3>1 DEF ReadyIn
    <3>3. S.qkey[p] <= S.qkey[l]
      BY <2>3, <2>5, <2>6, <3>2, LastLeads
    <3>4. Current(T) => S.qkey[l] = T.pprio[l]
      <4>1. CASE l = c
        <5>1. Yields(T)
          BY <1>1, <2>5, <2>8, <4>1 DEF Alone
        <5>. QED
          BY <1>1, <2>1, <2>6, <4>1, <5>1
      <4>2. CASE l # c
        <5>1. l \in ReadyIn(T) /\ S.qkey[l] = T.qkey[l]
          BY <1>1, <2>5, <2>6, <2>8, <4>2 DEF ReadyIn
        <5>. QED
          BY <5>1 DEF Current
      <4>. QED
        BY <4>1, <4>2
    <3>5. T.pprio[l] \in Nat /\ T.pprio[p] \in Nat
      BY <1>1, <2>8, <3>1
    <3>6. Current(T) => T.qkey[p] = T.pprio[p]
      BY DEF Current
    <3>. QED
      BY <2>10, <3>2, <3>3, <3>4, <3>5, <3>6
  <2>. QED
    BY <2>9, <2>10, <2>11, <2>13, <2>14, <2>15 DEF Aged, D
<1>. QED
  BY <1>2, <1>3
\* What waking one up or resuming it leaves as it was; its own key is its priority.
Joined(U, T) ==
  /\ U.currpid = T.currpid /\ U.pprio = T.pprio
  /\ \A q \in ReadyIn(T) : q \in ReadyIn(U) /\ U.qkey[q] = T.qkey[q]
  /\ Current(T) => Current(U)

\* ready().
LEMMA ReadyAged ==
  ASSUME NEW T, Aged(T), NEW p \in Pid, T.pstate[p] # "PRREADY", p # T.currpid
  PROVE  /\ Aged(Ready(T, p)) /\ Joined(Ready(T, p), T)
         /\ Ready(T, p).pstate = [T.pstate EXCEPT ![p] = "PRREADY"]
<1>1. PICK k : k = T.pprio[p]
  OBVIOUS
<1>2. PICK U : U = Ready(T, p)
  OBVIOUS
<1>3. U = PutOn(T, p, k)
  BY <1>1, <1>2 DEF Ready, PutOn
<1>4. /\ Shape(T) /\ Alone(T) /\ Keys(T) /\ T.pstate \in [Pid -> St]
      /\ T.qkey \in [Pid -> Int] /\ T.pprio \in [Pid -> Nat] /\ k \in Int
  BY <1>1 DEF Aged, Shape, Keys
<1>5. /\ Shape(U) /\ SameShares(U, T) /\ U.currpid = T.currpid
      /\ U.pstate = [T.pstate EXCEPT ![p] = "PRREADY"]
  BY <1>3, <1>4, PutOnFacts
<1>6. Keys(U) /\ U.qkey = [T.qkey EXCEPT ![p] = k]
  BY <1>3, <1>4, PutOnKeys
<1>7. Alone(U)
  BY <1>4, <1>5 DEF Alone
<1>8. ASSUME NEW q \in ReadyIn(T) PROVE q \in ReadyIn(U) /\ U.qkey[q] = T.qkey[q]
  BY <1>4, <1>5, <1>6 DEF ReadyIn
<1>9. ASSUME Current(T), NEW q \in ReadyIn(U) PROVE U.qkey[q] = U.pprio[q]
  <2>1. U.pprio = T.pprio /\ q \in Pid
    BY <1>5 DEF SameShares, ReadyIn
  <2>2. CASE q = p
    BY <1>1, <1>4, <1>6, <2>1, <2>2
  <2>3. CASE q # p
    <3>1. q \in ReadyIn(T)
      BY <1>4, <1>5, <2>1, <2>3 DEF ReadyIn
    <3>. QED
      BY <1>8, <1>9, <2>1, <3>1 DEF Current
  <2>. QED
    BY <2>2, <2>3
<1>10. Joined(U, T)
  BY <1>5, <1>8, <1>9 DEF Joined, Current, SameShares
<1>. QED
  BY <1>2, <1>5, <1>6, <1>7, <1>10 DEF Aged

\* What SetToSeqs(W) holds: the members of W one after the other.
LEMMA DueFacts ==
  ASSUME NEW W \in SUBSET Pid, NEW due \in SetToSeqs(W)
  PROVE  /\ due \in Seq(Pid) /\ Len(due) \in Nat
         /\ \A i \in 1..Len(due) : due[i] \in W
         /\ \A i, j \in 1..Len(due) : i # j => due[i] # due[j]
<1>1. IsFiniteSet(W)
  <2>1. IsFiniteSet(Pid)
    BY FS_Interval, NPROCAssumption DEF Pid
  <2>. QED
    BY <2>1, FS_Subset
<1>2. Cardinality(W) \in Nat
  BY <1>1, FS_CardinalityType
<1>3. /\ due \in [1..Cardinality(W) -> W]
      /\ \A i, j \in 1..Cardinality(W) : i # j => due[i] # due[j]
  BY <1>2 DEF SetToSeqs
<1>4. due \in Seq(Pid) /\ Len(due) = Cardinality(W)
  BY <1>2, <1>3
<1>. QED
  BY <1>2, <1>3, <1>4

\* wakeup()'s loop: ready() for all who are due.
LEMMA ReadyAllAged ==
  ASSUME NEW T, Aged(T), NEW W \in SUBSET Pid, NEW due \in SetToSeqs(W),
         \A p \in W : T.pstate[p] = "PRSLEEP", T.pstate[T.currpid] = "PRCURR"
  PROVE  Aged(ReadyAll(T, due)) /\ Joined(ReadyAll(T, due), T)
<1>1. /\ due \in Seq(Pid) /\ Len(due) \in Nat
      /\ \A i \in 1..Len(due) : due[i] \in W
      /\ \A i, j \in 1..Len(due) : i # j => due[i] # due[j]
  BY DueFacts
<1>2. PICK f : Readies(f, T, due) /\ ReadyAll(T, due) = f[Len(due)]
  BY <1>1, ReadyAllReadies
<1>. DEFINE n == Len(due)
            Fine(m) == /\ Aged(f[m]) /\ Joined(f[m], T)
                       /\ f[m].pstate[T.currpid] = "PRCURR"
                       /\ \A i \in m + 1..n : f[m].pstate[due[i]] = "PRSLEEP"
<1>3. PICK N : N = {m \in 0..n : Fine(m)}
  OBVIOUS
<1>4. 0 \in N
  <2>1. f[0] = T /\ \A i \in 1..n : T.pstate[due[i]] = "PRSLEEP"
    BY <1>1, <1>2 DEF Readies
  <2>2. Joined(T, T)
    BY DEF Joined
  <2>. QED
    BY <1>1, <1>3, <2>1, <2>2
<1>5. ASSUME NEW m \in 1..n, m - 1 \in N PROVE m \in N
  <2>1. Fine(m - 1) /\ (m - 1) + 1 = m
    BY <1>1, <1>3, <1>5
  <2>2. PICK S, p, U : S = f[m - 1] /\ p = due[m] /\ U = f[m]
    OBVIOUS
  <2>3. /\ Aged(S) /\ Joined(S, T) /\ S.pstate[T.currpid] = "PRCURR"
        /\ \A i \in m..n : S.pstate[due[i]] = "PRSLEEP"
    BY <2>1, <2>2
  <2>4. U = Ready(S, p)
    BY <1>2, <2>2 DEF Readies
  <2>5. p \in Pid /\ S.pstate[p] = "PRSLEEP" /\ S.currpid = T.currpid
    BY <1>1, <2>2, <2>3 DEF Joined
  <2>6. p # S.currpid /\ S.pstate[p] # "PRREADY"
    BY <2>3, <2>5
  <2>7. Aged(U) /\ Joined(U, S) /\ U.pstate = [S.pstate EXCEPT ![p] = "PRREADY"]
    BY <2>3, <2>4, <2>5, <2>6, ReadyAged
  <2>8. S.pstate \in [Pid -> St] /\ S.currpid \in Pid
    BY <2>3 DEF Aged, Shape
  <2>9. U.pstate[T.currpid] = "PRCURR"
    BY <2>3, <2>5, <2>6, <2>7, <2>8
  <2>10. ASSUME NEW i \in m + 1..n PROVE U.pstate[due[i]] = "PRSLEEP"
    <3>1. due[i] # p /\ due[i] \in Pid /\ i \in m..n
      BY <1>1, <2>2
    <3>. QED
      BY <2>3, <2>7, <2>8, <3>1
  <2>11. Joined(U, T)
    BY <2>3, <2>7 DEF Joined
  <2>12. Fine(m)
    BY <2>2, <2>7, <2>9, <2>10, <2>11
  <2>. HIDE DEF Fine
  <2>. QED
    BY <1>1, <1>3, <2>12
<1>6. n \in N
  BY <1>1, <1>4, <1>5, UpToTheLast
<1>. HIDE DEF n
<1>7. Fine(n)
  BY <1>3, <1>6
<1>. QED
  BY <1>2, <1>7 DEF n

-------------------------------------------------------------------------------
(***************************************************************************)
(* What each step leaves of it, and of who is how far behind.              *)
(***************************************************************************)
AgingInv == schedclass = "AGESCHED" => Aged(Tables) /\ pstate[currpid] = "PRCURR"

\* What AgingCatchesUp says of a step.
CatchUp ==
  \A p \in InState("PRREADY") :
    /\ schedclass = "AGESCHED" /\ qkey'[p] > qkey[p] /\ pstate'[p] = "PRREADY"
    /\ \A r \in InState("PRREADY") : qkey[r] = pprio[r]
    => /\ Behind(pprio', p) <= Behind(pprio, p)
       /\ pprio[currpid] >= pprio[p] => Behind(pprio', p) < Behind(pprio, p)
       /\ pprio'[currpid'] >= pprio'[p]

AgingKept == AgingInv' /\ CatchUp

LEMMA TablesKeys == Tables.qkey = qkey
BY DEF Tables

\* A step that leaves tables in order.
LEMMA InstallAged ==
  ASSUME NEW T, Aged(T), T.pstate[T.currpid] = "PRCURR", Install(T)
  PROVE  /\ AgingInv' /\ pstate' = T.pstate /\ currpid' = T.currpid
         /\ pprio' = InUse(T, T.pprio)
         /\ \A p \in Pid : pstate'[p] = "PRREADY" => qkey'[p] = T.qkey[p]
<1>1. PICK U : U = Tables'
  OBVIOUS
<1>2. (/\ Tables = [x \in Fields |-> Tables[x]]
       /\ Tables.currpid = currpid /\ Tables.preempt = preempt /\ Tables.pstate = pstate
       /\ Tables.pprio = pprio /\ Tables.goodness = goodness /\ Tables.quantum = quantum
       /\ Tables.unused = unused_quantum /\ Tables.rdy = rdy)' /\ (Tables.qkey = qkey)'
  BY TablesFields, TablesKeys, PTL
<1>3. /\ U = [x \in Fields |-> U[x]]
      /\ U.currpid = T.currpid /\ U.pstate = T.pstate /\ U.rdy = T.rdy
      /\ U.pprio = InUse(T, T.pprio)
      /\ U.qkey = [p \in Pid |-> IF T.pstate[p] = "PRREADY" THEN T.qkey[p] ELSE 0]
  BY <1>1, <1>2 DEF Install, InUse
<1>4. Shape(T) /\ Alone(T) /\ Keys(T)
  BY DEF Aged
<1>5. Shape(U) /\ Alone(U)
  BY <1>3, <1>4 DEF Shape, Alone, ReadyIn
<1>6. U.pprio \in [Pid -> Nat] /\ U.qkey \in [Pid -> Int]
  BY <1>3, <1>4 DEF Keys, InUse
<1>7. Sorted(U.rdy, U.qkey)
  <2>1. PICK list, key, keys : list = T.rdy /\ key = T.qkey /\ keys = U.qkey
    OBVIOUS
  <2>2. list \in Seq(Pid) /\ Sorted(list, key)
    BY <1>4, <2>1 DEF Shape, Keys
  <2>3. \A r \in Pid : Contains(list, r) => keys[r] = key[r]
    BY <1>3, <1>4, <2>1 DEF Shape, HoldsIn, ReadyIn
  <2>4. Sorted(list, keys)
    BY <2>2, <2>3, SortedSameKeys
  <2>. QED
    BY <1>3, <2>1, <2>4
<1>8. Aged(U) /\ U.pstate[U.currpid] = "PRCURR"
  BY <1>3, <1>5, <1>6, <1>7 DEF Aged, Keys
<1>9. U.pstate = pstate' /\ U.currpid = currpid' /\ U.pprio = pprio' /\ U.qkey = qkey'
  BY <1>1, <1>2
<1>10. AgingInv'
  BY <1>1, <1>8, <1>9 DEF AgingInv
<1>. QED
  BY <1>3, <1>9, <1>10

\* A step that does not reschedule raises nobody's key.
LEMMA QuietAging ==
  ASSUME AgingInv, schedclass = "AGESCHED", NEW T, Aged(T), T.pstate[T.currpid] = "PRCURR",
         Install(T), T.qkey = qkey
  PROVE  AgingKept
<1>1. AgingInv' /\ \A p \in Pid : pstate'[p] = "PRREADY" => qkey'[p] = qkey[p]
  BY InstallAged
<1>2. qkey \in [Pid -> Int]
  BY TablesKeys DEF AgingInv, Aged, Keys
<1>3. ASSUME NEW p \in InState("PRREADY"), qkey'[p] > qkey[p], pstate'[p] = "PRREADY" PROVE FALSE
  <2>1. p \in Pid
    BY DEF InState
  <2>. QED
    BY <1>1, <1>2, <1>3, <2>1
<1>. QED
  BY <1>1, <1>3 DEF AgingKept, CatchUp

\* A step that does.
LEMMA ReschedAging ==
  ASSUME AgingInv, schedclass = "AGESCHED",
         NEW T, Aged(T), Joined(T, Tables), Resched(T)
  PROVE  AgingKept
<1>1. PICK A, R : A = agingsched(T) /\ R = defaultsched(A)
  OBVIOUS
<1>2. Install(R)
  BY <1>1 DEF Resched
<1>3. PICK B : B = Tables
  OBVIOUS
<1>4. /\ Aged(B) /\ B.currpid = currpid /\ B.pstate = pstate /\ B.pprio = pprio
      /\ B.qkey = qkey /\ pstate[currpid] = "PRCURR" /\ pprio \in [Pid -> Nat]
      /\ qkey \in [Pid -> Int] /\ currpid \in Pid /\ pstate \in [Pid -> St]
  BY <1>3, TablesFields, TablesKeys DEF AgingInv, Aged, Keys, Shape
<1>5. /\ T.currpid = currpid /\ T.pprio = pprio
      /\ \A q \in InState("PRREADY") : q \in ReadyIn(T) /\ T.qkey[q] = qkey[q]
      /\ (\A r \in InState("PRREADY") : qkey[r] = pprio[r]) => Current(T)
  BY <1>3, <1>4 DEF Joined, Current, ReadyIn, InState
<1>6. /\ Aged(A) /\ A.currpid = T.currpid /\ A.pstate = T.pstate
      /\ \A p \in Pid : A.pprio[p] = IF p \in ReadyIn(T) THEN T.pprio[p] + 1 ELSE T.pprio[p]
      /\ Current(T) => Current(A)
  BY <1>1, AgingFacts
<1>7. /\ Aged(R) /\ R.pstate[R.currpid] = "PRCURR" /\ R.pprio = A.pprio
      /\ \A p \in ReadyIn(A) : Current(A) /\ p \in ReadyIn(R) => A.pprio[R.currpid] >= A.pprio[p]
  BY <1>1, <1>6, DefaultFacts
<1>8. /\ AgingInv' /\ pstate' = R.pstate /\ currpid' = R.currpid /\ pprio' = InUse(R, R.pprio)
  BY <1>2, <1>7, InstallAged
<1>9. R.currpid \in Pid /\ R.pprio \in [Pid -> Nat]
  BY <1>7 DEF Aged, Shape, Keys
<1>10. ASSUME NEW p \in InState("PRREADY"), pstate'[p] = "PRREADY",
              \A r \in InState("PRREADY") : qkey[r] = pprio[r]
       PROVE  /\ Behind(pprio', p) <= Behind(pprio, p)
              /\ pprio[currpid] >= pprio[p] => Behind(pprio', p) < Behind(pprio, p)
              /\ pprio'[currpid'] >= pprio'[p]
  <2>1. PICK prio, later : prio = pprio /\ later = pprio'
    OBVIOUS
  <2>2. p \in Pid /\ pstate[p] = "PRREADY" /\ p \in ReadyIn(T) /\ Current(T)
    BY <1>5, <1>10 DEF InState
  <2>3. prio \in [Pid -> Nat] /\ later \in [Pid -> Nat]
    BY <1>4, <1>8, <1>9, <2>1 DEF InUse
  <2>4. \A r \in Pid : later[r] = IF R.pstate[r] = "PRFREE" THEN 0 ELSE A.pprio[r]
    BY <1>7, <1>8, <2>1 DEF InUse
  <2>5. later[p] = prio[p] + 1
    BY <1>5, <1>6, <1>8, <1>10, <2>1, <2>2, <2>4
  <2>6. ASSUME NEW r \in Pid
        PROVE  /\ later[r] <= prio[r] + 1
               /\ r = currpid => later[r] <= prio[r]
    <3>1. prio[r] \in Nat /\ A.pprio[r] = IF r \in ReadyIn(T) THEN prio[r] + 1 ELSE prio[r]
      BY <1>5, <1>6, <2>1, <2>3
    <3>2. currpid \notin ReadyIn(T)
      BY <1>5 DEF Aged, Alone, ReadyIn
    <3>. QED
      BY <2>4, <3>1, <3>2
  <2>7. ASSUME NEW r \in Pid
        PROVE  /\ Lead(later, p)[r] <= Lead(prio, p)[r]
               /\ r = currpid /\ prio[r] >= prio[p] => Lead(later, p)[r] < Lead(prio, p)[r]
    <3>1. prio[r] \in Nat /\ later[r] \in Nat /\ prio[p] \in Nat
      BY <2>2, <2>3
    <3>2. PICK a, b, c, d : a = prio[r] /\ b = later[r] /\ c = prio[p] /\ d = later[p]
      OBVIOUS
    <3>3. /\ Lead(prio, p)[r] = IF a >= c THEN a - c + 1 ELSE 0
          /\ Lead(later, p)[r] = IF b >= d THEN b - d + 1 ELSE 0
      BY <3>2 DEF Lead
    <3>. QED
      BY <2>5, <2>6, <3>1, <3>2, <3>3
  <2>8. \A r \in Others(p) : r \in Pid
    BY DEF Others
  <2>9. /\ Behind(later, p) <= Behind(prio, p)
        /\ \A r \in Others(p) : Lead(later, p)[r] < Lead(prio, p)[r] => Behind(later, p) < Behind(prio, p)
    BY <2>2, <2>3, <2>7, <2>8, BehindFalls
  <2>10. currpid \in Others(p)
    BY <1>4, <2>2 DEF Others
  <2>11. prio[currpid] >= prio[p] => Behind(later, p) < Behind(prio, p)
    BY <1>4, <2>7, <2>9, <2>10
  <2>12. later[currpid'] >= later[p]
    <3>1. p \in ReadyIn(A) /\ p \in ReadyIn(R) /\ Current(A)
      BY <1>6, <1>8, <1>10, <2>2 DEF ReadyIn
    <3>2. A.pprio[R.currpid] >= A.pprio[p]
      BY <1>7, <3>1
    <3>3. R.pstate[p] = "PRREADY" /\ R.pstate[R.currpid] = "PRCURR"
      BY <1>7, <3>1 DEF ReadyIn
    <3>4. later[R.currpid] = A.pprio[R.currpid] /\ later[p] = A.pprio[p]
      BY <1>9, <2>2, <2>4, <3>3
    <3>. QED
      BY <1>8, <3>2, <3>4
  <2>. QED
    BY <2>1, <2>9, <2>11, <2>12
<1>. QED
  BY <1>8, <1>10 DEF AgingKept, CatchUp
\* The tables as a call finds them under the aging class.
LEMMA FoundAged ==
  ASSUME AgingInv, schedclass = "AGESCHED"
  PROVE  /\ Aged(Tables) /\ Shape(Tables) /\ Alone(Tables) /\ Keys(Tables)
         /\ pstate[currpid] = "PRCURR" /\ currpid \in Pid /\ pstate \in [Pid -> St]
         /\ pprio \in [Pid -> Nat] /\ qkey \in [Pid -> Int]
         /\ pstate[NULLPROC] \in {"PRCURR", "PRREADY"}
         /\ \A p \in Pid : pstate[p] = "PRCURR" => p = currpid
         /\ HoldsIn(Pid, rdy, ReadyIn(Tables)) /\ rdy \in Seq(Pid) /\ Sorted(rdy, qkey)
BY TablesFields, TablesKeys DEF AgingInv, Aged, Shape, Alone, Keys

\* Tables that differ in who is ready and in what they do not say keep their order.
LEMMA AgedWhen ==
  ASSUME AgingInv, schedclass = "AGESCHED", NEW T, T = [x \in Fields |-> T[x]],
         T.currpid = currpid, T.pstate \in [Pid -> St], T.pprio \in [Pid -> Nat],
         T.qkey = qkey, T.rdy = rdy, T.pstate[NULLPROC] = pstate[NULLPROC],
         \A p \in Pid : T.pstate[p] = "PRREADY" <=> pstate[p] = "PRREADY",
         \A p \in Pid : T.pstate[p] = "PRCURR" => p = currpid
  PROVE  Aged(T) /\ (T.pprio = pprio => Joined(T, Tables))
<1>1. /\ pstate[currpid] = "PRCURR" /\ currpid \in Pid /\ qkey \in [Pid -> Int]
      /\ pstate[NULLPROC] \in {"PRCURR", "PRREADY"}
      /\ HoldsIn(Pid, rdy, ReadyIn(Tables)) /\ rdy \in Seq(Pid) /\ Sorted(rdy, qkey)
  BY FoundAged
<1>2. ReadyIn(T) = ReadyIn(Tables)
  BY TablesFields DEF ReadyIn
<1>3. Shape(T)
  BY <1>1, <1>2 DEF Shape
<1>4. Alone(T)
  BY <1>1 DEF Alone
<1>5. Keys(T)
  BY <1>1 DEF Keys
<1>6. T.pprio = pprio => Joined(T, Tables)
  BY <1>2, TablesFields, TablesKeys DEF Joined, Current
<1>. QED
  BY <1>3, <1>4, <1>5, <1>6 DEF Aged

\* One process's state is another; the null process's is not.
LEMMA StateSet ==
  ASSUME NEW f \in [Pid -> St], NEW p \in Pid, NEW st \in St
  PROVE  /\ [f EXCEPT ![p] = st] \in [Pid -> St]
         /\ p # NULLPROC => [f EXCEPT ![p] = st][NULLPROC] = f[NULLPROC]
BY PidIsFinite

\* create() (create.c).
LEMMA CreateAging ==
  ASSUME AgingInv, schedclass = "AGESCHED", NEW p \in Pid, NEW k \in Prios, Create(p, k)
  PROVE  AgingKept
<1>. DEFINE T == [Tables EXCEPT !.pstate[p] = "PRSUSP", !.pprio[p] = k, !.goodness[p] = 0,
                            !.quantum[p] = 0, !.unused[p] = 0]
<1>1. /\ T = [x \in Fields |-> T[x]] /\ T.currpid = currpid /\ T.rdy = rdy /\ T.qkey = qkey
      /\ T.pstate = [pstate EXCEPT ![p] = "PRSUSP"] /\ T.pprio = [pprio EXCEPT ![p] = k]
  <2>1. PICK B : B = Tables
    OBVIOUS
  <2>2. T = [B EXCEPT !.pstate = [pstate EXCEPT ![p] = "PRSUSP"], !.pprio = [pprio EXCEPT ![p] = k],
                      !.goodness = [goodness EXCEPT ![p] = 0],
                      !.quantum = [quantum EXCEPT ![p] = 0],
                      !.unused = [unused_quantum EXCEPT ![p] = 0]]
    BY <2>1, TablesFields
  <2>3. B = [x \in Fields |-> B[x]] /\ B.currpid = currpid /\ B.rdy = rdy /\ B.qkey = qkey
    BY <2>1, TablesFields, TablesKeys
  <2>. HIDE DEF T
  <2>. QED
    BY <2>2, <2>3 DEF Fields
<1>2. Install(T) /\ pstate[p] = "PRFREE"
  BY DEF Create
<1>. HIDE DEF T
<1>3. /\ pstate[currpid] = "PRCURR" /\ currpid \in Pid /\ pstate \in [Pid -> St]
      /\ pprio \in [Pid -> Nat] /\ pstate[NULLPROC] \in {"PRCURR", "PRREADY"}
      /\ \A q \in Pid : pstate[q] = "PRCURR" => q = currpid
  BY FoundAged
<1>4. k \in Nat /\ p # currpid /\ p # NULLPROC
  BY <1>2, <1>3, PriosAssumption
<1>5. T.pstate \in [Pid -> St] /\ T.pprio \in [Pid -> Nat] /\ T.pstate[NULLPROC] = pstate[NULLPROC]
  <2>1. T.pprio \in [Pid -> Nat]
    BY <1>1, <1>3, <1>4
  <2>2. "PRSUSP" \in St
    BY DEF St
  <2>3. T.pstate = [pstate EXCEPT ![p] = "PRSUSP"] /\ pstate \in [Pid -> St] /\ p # NULLPROC
    BY <1>1, <1>3, <1>4
  <2>. QED
    BY <2>1, <2>2, <2>3, StateSet
<1>6. /\ \A q \in Pid : T.pstate[q] = "PRREADY" <=> pstate[q] = "PRREADY"
      /\ \A q \in Pid : T.pstate[q] = "PRCURR" => q = currpid
  BY <1>1, <1>2, <1>3
<1>7. Aged(T)
  BY <1>1, <1>5, <1>6, AgedWhen
<1>8. T.pstate[T.currpid] = "PRCURR"
  BY <1>1, <1>3, <1>4
<1>. QED
  BY <1>1, <1>2, <1>7, <1>8, QuietAging

\* resume() (resume.c).
LEMMA ResumeAging ==
  ASSUME AgingInv, schedclass = "AGESCHED", NEW p \in Pid, Resume(p)
  PROVE  AgingKept
<1>1. PICK B, T : B = Tables /\ T = Ready(B, p)
  OBVIOUS
<1>2. Resched(T) /\ pstate[p] = "PRSUSP"
  BY <1>1 DEF Resume
<1>3. Aged(B) /\ B.pstate[p] # "PRREADY" /\ p # B.currpid
  BY <1>1, <1>2, FoundAged, TablesFields
<1>4. Aged(T) /\ Joined(T, B)
  BY <1>1, <1>3, ReadyAged
<1>. QED
  BY <1>1, <1>2, <1>4, ReschedAging

\* The running process blocks, is suspended or is killed.
LEMMA StopAging ==
  ASSUME AgingInv, schedclass = "AGESCHED", NEW st \in {"PRSUSP", "PRSLEEP", "PRFREE"},
         NEW c \in Pid, pstate[c] = "PRCURR", currpid # NULLPROC,
         Resched([Tables EXCEPT !.pstate[c] = st])
  PROVE  AgingKept
<1>1. PICK B, T : B = Tables /\ T = [B EXCEPT !.pstate = [pstate EXCEPT ![c] = st]]
  OBVIOUS
<1>2. T = [Tables EXCEPT !.pstate[c] = st]
  BY <1>1, TablesFields
<1>3. /\ T = [x \in Fields |-> T[x]] /\ T.currpid = currpid /\ T.rdy = rdy /\ T.qkey = qkey
      /\ T.pprio = pprio /\ T.pstate = [pstate EXCEPT ![c] = st]
  BY <1>1, TablesFields, TablesKeys DEF Fields
<1>4. Resched(T)
  BY <1>2
<1>5. /\ currpid \in Pid /\ pstate \in [Pid -> St] /\ pprio \in [Pid -> Nat]
      /\ \A q \in Pid : pstate[q] = "PRCURR" => q = currpid
  BY FoundAged
<1>6. T.pstate \in [Pid -> St] /\ T.pstate[NULLPROC] = pstate[NULLPROC]
  <2>1. c # NULLPROC /\ st \in St
    BY <1>5 DEF St
  <2>2. T.pstate = [pstate EXCEPT ![c] = st] /\ pstate \in [Pid -> St]
    BY <1>3, <1>5
  <2>. QED
    BY <2>1, <2>2, StateSet
<1>7. /\ \A q \in Pid : T.pstate[q] = "PRREADY" <=> pstate[q] = "PRREADY"
      /\ \A q \in Pid : T.pstate[q] = "PRCURR" => q = currpid
  BY <1>3, <1>5
<1>8. Aged(T) /\ Joined(T, Tables)
  BY <1>3, <1>5, <1>6, <1>7, AgedWhen
<1>. QED
  BY <1>4, <1>8, ReschedAging

\* Another one is suspended or killed.
LEMMA TakeAging ==
  ASSUME AgingInv, schedclass = "AGESCHED", NEW p \in Pid, NEW st \in {"PRSUSP", "PRFREE"},
         p # NULLPROC, pstate[p] \in {"PRREADY", "PRSUSP", "PRSLEEP"},
         Install([Tables EXCEPT !.pstate[p] = st, !.rdy = RemoveFirst(@, p)])
  PROVE  AgingKept
<1>1. PICK B, T : B = Tables /\ T = [B EXCEPT !.pstate = [pstate EXCEPT ![p] = st],
                                              !.rdy = RemoveFirst(rdy, p)]
  OBVIOUS
<1>2. T = [Tables EXCEPT !.pstate[p] = st, !.rdy = RemoveFirst(@, p)]
  BY <1>1, TablesFields
<1>3. /\ T = [x \in Fields |-> T[x]] /\ T.currpid = currpid /\ T.qkey = qkey
      /\ T.pprio = pprio /\ T.rdy = RemoveFirst(rdy, p) /\ T.pstate = [pstate EXCEPT ![p] = st]
  BY <1>1, TablesFields, TablesKeys DEF Fields
<1>4. Install(T)
  BY <1>2
<1>5. /\ pstate[currpid] = "PRCURR" /\ currpid \in Pid /\ pstate \in [Pid -> St]
      /\ pprio \in [Pid -> Nat] /\ qkey \in [Pid -> Int]
      /\ pstate[NULLPROC] \in {"PRCURR", "PRREADY"}
      /\ \A q \in Pid : pstate[q] = "PRCURR" => q = currpid
      /\ rdy \in Seq(Pid) /\ Sorted(rdy, qkey)
  BY FoundAged
<1>6. T.rdy \in Seq(Pid) /\ HoldsIn(Pid, T.rdy, ReadyIn(T)) /\ Sorted(T.rdy, T.qkey)
  <2>1. PICK R : R = ReadyIn(B)
    OBVIOUS
  <2>2. HoldsIn(Pid, rdy, R)
    BY <1>1, <2>1, FoundAged
  <2>3. RemoveFirst(rdy, p) \in Seq(Pid) /\ HoldsIn(Pid, RemoveFirst(rdy, p), R \ {p})
    BY <1>5, <2>2, RemoveFirstHoldsIn
  <2>4. Sorted(RemoveFirst(rdy, p), qkey)
    BY <1>5, RemoveFirstSorted
  <2>5. ReadyIn(T) = R \ {p}
    BY <1>1, <1>3, <1>5, <2>1, TablesFields DEF ReadyIn
  <2>. QED
    BY <1>3, <2>3, <2>4, <2>5
<1>7. p # currpid
  BY <1>5
<1>8. T.pstate \in [Pid -> St] /\ T.pstate[NULLPROC] = pstate[NULLPROC]
  <2>1. st \in St
    BY DEF St
  <2>2. T.pstate = [pstate EXCEPT ![p] = st] /\ pstate \in [Pid -> St]
    BY <1>3, <1>5
  <2>. QED
    BY <2>1, <2>2, StateSet
<1>9. Shape(T)
  BY <1>3, <1>5, <1>6, <1>8 DEF Shape
<1>10. Alone(T) /\ T.pstate[T.currpid] = "PRCURR"
  <2>1. \A x \in Pid : T.pstate[x] = IF x = p THEN st ELSE pstate[x]
    BY <1>3, <1>5
  <2>. QED
    BY <1>3, <1>5, <1>7, <2>1 DEF Alone
<1>11. Keys(T)
  BY <1>3, <1>5, <1>6 DEF Keys
<1>. QED
  BY <1>3, <1>4, <1>9, <1>10, <1>11, QuietAging DEF Aged

\* chprio() changes no key (chprio.c).
LEMMA ChprioAging ==
  ASSUME AgingInv, schedclass = "AGESCHED", NEW p \in Pid, NEW k \in Prios, Chprio(p, k)
  PROVE  AgingKept
<1>1. PICK B, T : B = Tables /\ T = [B EXCEPT !.pprio = [pprio EXCEPT ![p] = k]]
  OBVIOUS
<1>2. T = [Tables EXCEPT !.pprio[p] = k]
  BY <1>1, TablesFields
<1>3. /\ T = [x \in Fields |-> T[x]] /\ T.currpid = currpid /\ T.rdy = rdy /\ T.qkey = qkey
      /\ T.pstate = pstate /\ T.pprio = [pprio EXCEPT ![p] = k]
  BY <1>1, TablesFields, TablesKeys DEF Fields
<1>4. Install(T)
  BY <1>2 DEF Chprio
<1>5. /\ pstate[currpid] = "PRCURR" /\ pstate \in [Pid -> St] /\ pprio \in [Pid -> Nat]
      /\ \A q \in Pid : pstate[q] = "PRCURR" => q = currpid
  BY FoundAged
<1>6. T.pprio \in [Pid -> Nat]
  BY <1>3, <1>5, PriosAssumption
<1>7. Aged(T)
  BY <1>3, <1>5, <1>6, AgedWhen
<1>. QED
  BY <1>3, <1>4, <1>5, <1>7, QuietAging

\* wakeup() (wakeup.c).
LEMMA WakeupAging ==
  ASSUME AgingInv, schedclass = "AGESCHED",
         NEW W \in SUBSET InState("PRSLEEP"), NEW due \in SetToSeqs(W), Wakeup(due)
  PROVE  AgingKept
<1>1. PICK B, T : B = Tables /\ T = ReadyAll(B, due)
  OBVIOUS
<1>2. Resched(T)
  BY <1>1 DEF Wakeup
<1>3. W \in SUBSET Pid /\ \A p \in W : B.pstate[p] = "PRSLEEP"
  BY <1>1, TablesFields DEF InState
<1>4. Aged(B) /\ B.pstate[B.currpid] = "PRCURR"
  BY <1>1, FoundAged, TablesFields
<1>5. Aged(T) /\ Joined(T, B)
  BY <1>1, <1>3, <1>4, ReadyAllAged
<1>. QED
  BY <1>1, <1>2, <1>5, ReschedAging

\* clpreem (clkint.S).
LEMMA ClpreemAging ==
  ASSUME AgingInv, schedclass = "AGESCHED", Clpreem
  PROVE  AgingKept
<1>1. PICK B, T : B = Tables /\ T = [B EXCEPT !.preempt = preempt - 1]
  OBVIOUS
<1>2. T = [Tables EXCEPT !.preempt = @ - 1]
  BY <1>1, TablesFields
<1>3. /\ T = [x \in Fields |-> T[x]] /\ T.currpid = currpid /\ T.rdy = rdy /\ T.qkey = qkey
      /\ T.pstate = pstate /\ T.pprio = pprio
  BY <1>1, TablesFields, TablesKeys DEF Fields
<1>4. Install(T) \/ Resched(T)
  BY <1>2 DEF Clpreem
<1>5. /\ pstate[currpid] = "PRCURR" /\ pstate \in [Pid -> St] /\ pprio \in [Pid -> Nat]
      /\ \A q \in Pid : pstate[q] = "PRCURR" => q = currpid
  BY FoundAged
<1>6. Aged(T) /\ Joined(T, Tables)
  BY <1>3, <1>5, AgedWhen
<1>. QED
  BY <1>3, <1>4, <1>5, <1>6, QuietAging, ReschedAging

\* clkint begins: nothing of the scheduler's changes.
LEMMA TickAging ==
  ASSUME AgingInv, UNCHANGED <<schedclass, currpid, preempt, epoch, pstate, pprio, goodness,
                               quantum, unused_quantum, rdy, qkey>>
  PROVE  AgingKept
<1>1. Tables' = Tables
  BY DEF Tables
<1>2. AgingInv'
  BY <1>1 DEF AgingInv
<1>3. ASSUME schedclass = "AGESCHED", NEW p \in InState("PRREADY"), qkey'[p] > qkey[p] PROVE FALSE
  <2>1. qkey \in [Pid -> Int] /\ p \in Pid
    BY <1>3, FoundAged DEF InState
  <2>. QED
    BY <1>3, <2>1
<1>. QED
  BY <1>2, <1>3 DEF AgingKept, CatchUp

\* Every step of the model.
LEMMA NextAging ==
  ASSUME AgingInv, [Next]_vars
  PROVE  AgingKept
<1>1. CASE UNCHANGED vars
  BY <1>1, TickAging DEF vars
<1>2. CASE Tick
  BY <1>2, TickAging DEF Tick
<1>3. CASE Next /\ schedclass # "AGESCHED"
  <2>1. schedclass' = schedclass
    BY <1>3 DEF Next, Call, Continue, Create, Resume, Suspend, Kill, Chprio, Sleep, Tick, Wakeup, Clpreem
  <2>. QED
    BY <1>3, <2>1 DEF AgingKept, AgingInv, CatchUp
<1>4. CASE Next /\ schedclass = "AGESCHED"
  <2>1. ASSUME NEW p \in Pid, NEW k \in Prios, Create(p, k) PROVE AgingKept
    BY <1>4, <2>1, CreateAging
  <2>2. ASSUME NEW p \in Pid, Resume(p) PROVE AgingKept
    BY <1>4, <2>2, ResumeAging
  <2>3. ASSUME NEW p \in Pid, Suspend(p) PROVE AgingKept
    <3>1. currpid # NULLPROC /\ p # NULLPROC
      BY <2>3 DEF Suspend, Calling
    <3>2. CASE /\ pstate[p] = "PRREADY"
               /\ Install([Tables EXCEPT !.pstate[p] = "PRSUSP", !.rdy = RemoveFirst(@, p)])
      BY <1>4, <3>1, <3>2, TakeAging
    <3>3. CASE /\ pstate[p] = "PRCURR"
               /\ Resched([Tables EXCEPT !.pstate[p] = "PRSUSP"])
      BY <1>4, <3>1, <3>3, StopAging
    <3>. QED
      BY <2>3, <3>2, <3>3 DEF Suspend
  <2>4. ASSUME NEW p \in Pid, Kill(p) PROVE AgingKept
    <3>1. currpid # NULLPROC /\ p # NULLPROC
      BY <2>4 DEF Kill, Calling
    <3>2. CASE /\ pstate[p] \in {"PRREADY", "PRSUSP", "PRSLEEP"}
               /\ Install([Tables EXCEPT !.pstate[p] = "PRFREE", !.rdy = RemoveFirst(@, p)])
      BY <1>4, <3>1, <3>2, TakeAging
    <3>3. CASE /\ pstate[p] = "PRCURR"
               /\ Resched([Tables EXCEPT !.pstate[p] = "PRFREE"])
      BY <1>4, <3>1, <3>3, StopAging
    <3>. QED
      BY <2>4, <3>2, <3>3 DEF Kill
  <2>5. ASSUME NEW p \in Pid, NEW k \in Prios, Chprio(p, k) PROVE AgingKept
    BY <1>4, <2>5, ChprioAging
  <2>6. CASE Sleep
    BY <1>4, <2>6, FoundAged, StopAging DEF Sleep, Calling
  <2>7. ASSUME NEW W \in SUBSET InState("PRSLEEP"), NEW due \in SetToSeqs(W), Wakeup(due)
        PROVE  AgingKept
    BY <1>4, <2>7, WakeupAging
  <2>8. CASE Clpreem
    BY <1>4, <2>8, ClpreemAging
  <2>. QED
    BY <1>2, <1>4, <2>1, <2>2, <2>3, <2>4, <2>5, <2>6, <2>7, <2>8 DEF Next, Call, Continue
<1>. QED
  BY <1>1, <1>2, <1>3, <1>4

\* At first the null process alone is on the list.
LEMMA InitAging == Init => AgingInv
<1>. SUFFICES ASSUME Init PROVE AgingInv
  OBVIOUS
<1>1. PICK B : B = Tables
  OBVIOUS
<1>2. PICK k \in Prios : pprio = [p \in Pid |-> IF p = Main THEN k ELSE 0]
  BY DEF Init
<1>3. Shape(B) /\ Alone(B) /\ pstate[currpid] = "PRCURR"
  BY <1>1, InitSettled, TablesFields DEF Settled
<1>4. /\ B.pprio \in [Pid -> Nat] /\ B.qkey = [p \in Pid |-> 0] /\ B.rdy = <<NULLPROC>>
  BY <1>1, <1>2, PriosAssumption, TablesFields, TablesKeys DEF Init
<1>5. Sorted(B.rdy, B.qkey)
  BY <1>4 DEF Sorted
<1>. QED
  BY <1>1, <1>3, <1>4, <1>5 DEF AgingInv, Aged, Keys

\* Nobody gains on a process that waits under the aging class, it gains on whoever
\* runs although not below it, and the next one to run is not below it either.
THEOREM AgingAlwaysCatchesUp == Spec => AgingCatchesUp
<1>1. AgingInv /\ [Next]_vars => AgingInv'
  BY NextAging DEF AgingKept
<1>2. Spec => []AgingInv
  BY <1>1, InitAging, PTL DEF Spec
<1>3. AgingInv /\ [Next]_vars =>
        [ \A p \in InState("PRREADY") :
            /\ schedclass = "AGESCHED" /\ qkey'[p] > qkey[p] /\ pstate'[p] = "PRREADY"
            /\ \A r \in InState("PRREADY") : qkey[r] = pprio[r]
            => /\ Behind(pprio', p) <= Behind(pprio, p)
               /\ pprio[currpid] >= pprio[p] => Behind(pprio', p) < Behind(pprio, p)
               /\ pprio'[currpid'] >= pprio'[p] ]_vars
  BY NextAging DEF AgingKept, CatchUp
<1>. QED
  BY <1>2, <1>3, PTL DEF Spec, AgingCatchesUp
===============================================================================
