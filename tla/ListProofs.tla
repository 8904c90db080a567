------------------------------- MODULE ListProofs -------------------------------
(***************************************************************************)
(* What the operations on lists return, whatever is on them: a list that   *)
(* holds the entries it held, with one more or one less.  (The lists of    *)
(* q[], and of pages, are sequences in the models.)                        *)
(***************************************************************************)
EXTENDS Integers, Sequences, FiniteSets, SequencesExt,
        TLAPS, SequenceTheorems, FiniteSetTheorems, WellFoundedInduction

\* `list' holds exactly those of A that are in S, each once.
HoldsIn(A, list, S) ==
  /\ \A x \in A : Contains(list, x) <=> x \in S
  /\ \A i, j \in 1..Len(list) : list[i] = list[j] => i = j

\* A nonempty set of natural numbers has a least element, which Min is
\* (insert() and dequeue() in queue.c are modelled with it).
LEMMA MinIsLeast ==
  ASSUME NEW S \in SUBSET Nat, S # {}
  PROVE  Min(S) \in S /\ \A y \in S : Min(S) <= y
<1>. DEFINE Below == {ss \in Nat \X Nat : ss[1] < ss[2]}
<1>0. OpToRel(<, Nat) = Below
  BY DEF OpToRel
<1>1. IsWellFoundedOn(Below, Nat)
  BY <1>0, NatLessThanWellFounded, Zenon
<1>2. \E x \in S : \A y \in S : ~ (<<y, x>> \in Below)
  <2>. HIDE DEF Below
  <2>. QED
    BY <1>1, WFMin, Zenon
<1>3. \E x \in S : \A y \in S : x <= y
  <2>1. PICK x \in S : \A y \in S : ~ (<<y, x>> \in Below)
    BY <1>2
  <2>2. \A y \in S : ~ (y < x)
    BY <2>1
  <2>. QED
    BY <2>2
<1>. QED
  BY <1>3 DEF Min

\* What holds at first, and of every number after one of which it holds, holds at the end.
LEMMA UpToTheLast ==
  ASSUME NEW last \in Nat, NEW S, 0 \in S, \A m \in 1..last : m - 1 \in S => m \in S
  PROVE  last \in S
<1>. DEFINE bad == {m \in 0..last : m \notin S}
<1>1. bad = {}
  <2>. SUFFICES ASSUME bad # {} PROVE FALSE
    OBVIOUS
  <2>1. bad \in SUBSET Nat
    OBVIOUS
  <2>2. PICK m \in bad : \A j \in bad : m <= j
    <3>. HIDE DEF bad
    <3>. QED
      BY <2>1, MinIsLeast
  <2>3. m \in 1..last /\ m \notin S
    BY <2>2
  <2>4. m - 1 \in 0..last /\ m - 1 < m
    BY <2>3
  <2>5. m - 1 \in S
    BY <2>2, <2>4
  <2>. QED
    BY <2>3, <2>5
<1>. QED
  BY <1>1

\* InsertAt puts one element in and moves those behind it up (insert.c:19-23).
LEMMA InsertAtProperties ==
  ASSUME NEW A, NEW list \in Seq(A), NEW i \in 1..Len(list) + 1, NEW p \in A
  PROVE  /\ InsertAt(list, i, p) \in Seq(A)
         /\ Len(InsertAt(list, i, p)) = Len(list) + 1
         /\ \A j \in 1..Len(list) + 1 :
              InsertAt(list, i, p)[j] = IF j < i THEN list[j]
                                        ELSE IF j = i THEN p ELSE list[j - 1]
<1>. DEFINE before == SubSeq(list, 1, i - 1)
            upto == before \o <<p>>
            behind == SubSeq(list, i, Len(list))
<1>1. /\ before \in Seq(A) /\ Len(before) = i - 1
      /\ \A j \in 1..i - 1 : before[j] = list[j]
  BY SubSeqProperties
<1>2. /\ behind \in Seq(A) /\ Len(behind) = Len(list) - i + 1
      /\ \A j \in 1..Len(list) - i + 1 : behind[j] = list[i + j - 1]
  BY SubSeqProperties
<1>3. /\ upto \in Seq(A) /\ Len(upto) = i
      /\ \A j \in 1..i : upto[j] = IF j < i THEN list[j] ELSE p
  <2>. HIDE DEF before
  <2>1. <<p>> \in Seq(A) /\ Len(<<p>>) = 1 /\ <<p>>[1] = p
    OBVIOUS
  <2>2. /\ before \o <<p>> \in Seq(A)
        /\ Len(before \o <<p>>) = Len(before) + Len(<<p>>)
        /\ \A j \in 1..Len(before) + Len(<<p>>) : (before \o <<p>>)[j] =
             IF j <= Len(before) THEN before[j] ELSE <<p>>[j - Len(before)]
    BY <1>1, <2>1, ConcatProperties
  <2>3. Len(before) + Len(<<p>>) = i
    BY <1>1, <2>1
  <2>4. ASSUME NEW j \in 1..i
        PROVE  upto[j] = IF j < i THEN list[j] ELSE p
    <3>0. j < i \/ j = i
      OBVIOUS
    <3>1. CASE j < i
      BY <1>1, <2>1, <2>2, <2>3, <3>1
    <3>2. CASE j = i
      <4>1. upto[j] = <<p>>[j - Len(before)]
        BY <1>1, <2>2, <2>3, <3>2
      <4>2. j - Len(before) = 1
        BY <1>1, <3>2
      <4>. QED
        BY <2>1, <3>2, <4>1, <4>2
    <3>. HIDE DEF upto
    <3>. QED
      BY <3>0, <3>1, <3>2
  <2>. QED
    BY <2>2, <2>3, <2>4
<1>. HIDE DEF before, behind, upto
<1>4. /\ upto \o behind \in Seq(A)
      /\ Len(upto \o behind) = Len(upto) + Len(behind)
      /\ \A j \in 1..Len(upto) + Len(behind) : (upto \o behind)[j] =
           IF j <= Len(upto) THEN upto[j] ELSE behind[j - Len(upto)]
  BY <1>2, <1>3, ConcatProperties
<1>5. Len(upto) + Len(behind) = Len(list) + 1
  BY <1>2, <1>3
<1>6. ASSUME NEW j \in 1..Len(list) + 1
      PROVE  (upto \o behind)[j] = IF j < i THEN list[j] ELSE IF j = i THEN p ELSE list[j - 1]
  BY <1>2, <1>3, <1>4, <1>5
<1>7. InsertAt(list, i, p) = upto \o behind
  BY DEF InsertAt, upto, before, behind
<1>. QED
  BY <1>4, <1>5, <1>6, <1>7

\* RemoveAt takes one element out and moves those behind it down.
LEMMA RemoveAtProperties ==
  ASSUME NEW A, NEW list \in Seq(A), NEW i \in 1..Len(list)
  PROVE  /\ RemoveAt(list, i) \in Seq(A)
         /\ Len(RemoveAt(list, i)) = Len(list) - 1
         /\ \A j \in 1..Len(list) - 1 :
              RemoveAt(list, i)[j] = IF j < i THEN list[j] ELSE list[j + 1]
<1>. DEFINE before == SubSeq(list, 1, i - 1)
            behind == SubSeq(list, i + 1, Len(list))
<1>1. /\ before \in Seq(A) /\ Len(before) = i - 1
      /\ \A j \in 1..i - 1 : before[j] = list[j]
  BY SubSeqProperties
<1>2. /\ behind \in Seq(A) /\ Len(behind) = Len(list) - i
      /\ \A j \in 1..Len(list) - i : behind[j] = list[i + j]
  BY SubSeqProperties
<1>. HIDE DEF before, behind
<1>3. /\ before \o behind \in Seq(A)
      /\ Len(before \o behind) = Len(before) + Len(behind)
      /\ \A j \in 1..Len(before) + Len(behind) : (before \o behind)[j] =
           IF j <= Len(before) THEN before[j] ELSE behind[j - Len(before)]
  BY <1>1, <1>2, ConcatProperties
<1>4. Len(before) + Len(behind) = Len(list) - 1
  BY <1>1, <1>2
<1>5. ASSUME NEW j \in 1..Len(list) - 1
      PROVE  (before \o behind)[j] = IF j < i THEN list[j] ELSE list[j + 1]
  BY <1>1, <1>2, <1>3, <1>4
<1>6. RemoveAt(list, i) = before \o behind
  BY DEF RemoveAt, before, behind
<1>. QED
  BY <1>3, <1>4, <1>5, <1>6

\* A process put on a list, wherever, joins those on it.
LEMMA InsertAtHoldsIn ==
  ASSUME NEW A, NEW list \in Seq(A), NEW S, HoldsIn(A, list, S),
         NEW p \in A, p \notin S, NEW at \in 1..Len(list) + 1
  PROVE  InsertAt(list, at, p) \in Seq(A) /\ HoldsIn(A, InsertAt(list, at, p), S \cup {p})
<1>. DEFINE new == InsertAt(list, at, p)
<1>3. /\ new \in Seq(A) /\ Len(new) = Len(list) + 1
      /\ \A j \in 1..Len(list) + 1 :
           new[j] = IF j < at THEN list[j] ELSE IF j = at THEN p ELSE list[j - 1]
  BY InsertAtProperties
<1>. HIDE DEF new
<1>4. ~Contains(list, p)
  BY DEF HoldsIn
<1>5. ASSUME NEW r \in A
      PROVE  Contains(new, r) <=> r \in S \cup {p}
  <2>1. ASSUME Contains(new, r) PROVE r \in S \cup {p}
    <3>1. PICK j \in 1..Len(new) : new[j] = r
      BY <2>1 DEF Contains
    <3>2. r = p \/ \E i \in 1..Len(list) : list[i] = r
      BY <1>3, <3>1
    <3>. QED
      BY <3>2 DEF HoldsIn, Contains
  <2>2. ASSUME r \in S \cup {p} PROVE Contains(new, r)
    <3>1. CASE r = p
      BY <1>3, <3>1 DEF Contains
    <3>2. CASE r \in S
      <4>1. PICK i \in 1..Len(list) : list[i] = r
        BY <3>2 DEF HoldsIn, Contains
      <4>2. CASE i < at
        BY <1>3, <4>1, <4>2 DEF Contains
      <4>3. CASE ~(i < at)
        <5>1. i + 1 \in 1..Len(new) /\ new[i + 1] = list[i]
          BY <1>3, <4>1, <4>3
        <5>. QED
          BY <4>1, <5>1 DEF Contains
      <4>. QED
        BY <4>2, <4>3
    <3>. QED
      BY <2>2, <3>1, <3>2
  <2>. QED
    BY <2>1, <2>2
<1>6. ASSUME NEW i \in 1..Len(new), NEW j \in 1..Len(new), new[i] = new[j]
      PROVE  i = j
  <2>1. \A n \in 1..Len(list) : list[n] # p
    BY <1>4 DEF Contains
  <2>2. \A m, n \in 1..Len(list) : list[m] = list[n] => m = n
    BY DEF HoldsIn
  <2>. DEFINE old(m) == IF m < at THEN m ELSE m - 1
  <2>3. \A m \in 1..Len(new) : m # at => old(m) \in 1..Len(list) /\ new[m] = list[old(m)]
    BY <1>3
  <2>4. new[at] = p /\ at \in 1..Len(new)
    BY <1>3
  <2>5. CASE i = at \/ j = at
    BY <1>6, <2>1, <2>3, <2>4, <2>5
  <2>6. CASE i # at /\ j # at
    <3>1. old(i) = old(j)
      BY <1>6, <2>2, <2>3, <2>6
    <3>. QED
      BY <2>6, <3>1
  <2>. QED
    BY <2>5, <2>6
<1>. QED
  BY <1>3, <1>5, <1>6 DEF HoldsIn, new

\* dequeue() takes its process, and no other, off the list (queue.c:30).
LEMMA RemoveFirstHoldsIn ==
  ASSUME NEW A, NEW list \in Seq(A), NEW S, HoldsIn(A, list, S), NEW p \in A
  PROVE  RemoveFirst(list, p) \in Seq(A) /\ HoldsIn(A, RemoveFirst(list, p), S \ {p})
<1>1. CASE ~\E i \in 1..Len(list) : list[i] = p
  <2>1. RemoveFirst(list, p) = list
    BY <1>1 DEF RemoveFirst
  <2>2. p \notin S
    BY <1>1 DEF HoldsIn, Contains
  <2>. QED
    BY <2>1, <2>2 DEF HoldsIn
<1>2. CASE \E i \in 1..Len(list) : list[i] = p
  <2>. DEFINE places == {i \in 1..Len(list) : list[i] = p}
              at == Min(places)
              new == RemoveAt(list, at)
  <2>1. places \in SUBSET Nat /\ places # {}
    BY <1>2
  <2>2. at \in 1..Len(list) /\ list[at] = p
    BY <2>1, MinIsLeast
  <2>3. RemoveFirst(list, p) = new
    BY <1>2, <2>1 DEF RemoveFirst, SelectInSeq
  <2>. HIDE DEF places, at
  <2>4. /\ new \in Seq(A) /\ Len(new) = Len(list) - 1
        /\ \A j \in 1..Len(list) - 1 : new[j] = IF j < at THEN list[j] ELSE list[j + 1]
    BY <2>2, RemoveAtProperties
  <2>. HIDE DEF new
  <2>5. \A m, n \in 1..Len(list) : list[m] = list[n] => m = n
    BY DEF HoldsIn
  <2>6. ASSUME NEW r \in A
        PROVE  Contains(new, r) <=> r \in S \ {p}
    <3>1. ASSUME Contains(new, r) PROVE r \in S \ {p}
      <4>1. PICK j \in 1..Len(new) : new[j] = r
        BY <3>1 DEF Contains
      <4>2. PICK i \in 1..Len(list) : list[i] = r /\ i # at
        BY <2>2, <2>4, <4>1
      <4>3. r # p
        BY <2>2, <2>5, <4>2
      <4>. QED
        BY <4>2, <4>3 DEF HoldsIn, Contains
    <3>2. ASSUME r \in S \ {p} PROVE Contains(new, r)
      <4>1. PICK i \in 1..Len(list) : list[i] = r
        BY <3>2 DEF HoldsIn, Contains
      <4>2. i # at
        BY <2>2, <3>2, <4>1
      <4>3. CASE i < at
        BY <2>2, <2>4, <4>1, <4>3 DEF Contains
      <4>4. CASE i > at
        <5>1. i - 1 \in 1..Len(new) /\ new[i - 1] = list[i]
          BY <2>2, <2>4, <4>1, <4>4
        <5>. QED
          BY <4>1, <5>1 DEF Contains
      <4>. QED
        BY <2>2, <4>2, <4>3, <4>4
    <3>. QED
      BY <3>1, <3>2
  <2>7. ASSUME NEW i \in 1..Len(new), NEW j \in 1..Len(new), new[i] = new[j]
        PROVE  i = j
    BY <2>2, <2>4, <2>5, <2>7
  <2>. QED
    BY <2>3, <2>4, <2>6, <2>7 DEF HoldsIn
<1>. QED
  BY <1>1, <1>2

\* The rest of a list holds all but its head (getfirst, queue.c).
LEMMA TailHoldsIn ==
  ASSUME NEW A, NEW list \in Seq(A), NEW S, HoldsIn(A, list, S), list # <<>>
  PROVE  /\ Head(list) \in A /\ Head(list) \in S
         /\ Tail(list) \in Seq(A) /\ HoldsIn(A, Tail(list), S \ {Head(list)})
<1>1. /\ Head(list) \in A /\ Head(list) = list[1] /\ Len(list) >= 1
      /\ Tail(list) \in Seq(A) /\ Len(Tail(list)) = Len(list) - 1
      /\ \A i \in 1..Len(Tail(list)) : Tail(list)[i] = list[i + 1]
  BY HeadTailProperties
<1>. DEFINE rest == Tail(list)  first == Head(list)
<1>. HIDE DEF rest, first
<1>2. \A m, n \in 1..Len(list) : list[m] = list[n] => m = n
  BY DEF HoldsIn
<1>3. first \in S
  BY <1>1 DEF HoldsIn, Contains, first
<1>4. /\ rest \in Seq(A) /\ Len(rest) = Len(list) - 1 /\ first = list[1]
      /\ \A i \in 1..Len(rest) : rest[i] = list[i + 1]
  BY <1>1 DEF rest, first
<1>5. ASSUME NEW r \in A
      PROVE  Contains(rest, r) <=> r \in S \ {first}
  <2>1. ASSUME Contains(rest, r) PROVE r \in S \ {first}
    <3>1. PICK i \in 1..Len(rest) : rest[i] = r
      BY <2>1 DEF Contains
    <3>2. i + 1 \in 1..Len(list) /\ list[i + 1] = r /\ i + 1 # 1 /\ 1 \in 1..Len(list)
      BY <1>1, <1>4, <3>1
    <3>3. r # first
      BY <1>2, <1>4, <3>2
    <3>. QED
      BY <3>2, <3>3 DEF HoldsIn, Contains
  <2>2. ASSUME r \in S \ {first} PROVE Contains(rest, r)
    <3>1. PICK i \in 1..Len(list) : list[i] = r
      BY <2>2 DEF HoldsIn, Contains
    <3>2. i # 1
      BY <1>4, <2>2, <3>1
    <3>3. i - 1 \in 1..Len(rest) /\ rest[i - 1] = list[i]
      BY <1>4, <3>1, <3>2
    <3>. QED
      BY <3>1, <3>3 DEF Contains
  <2>. QED
    BY <2>1, <2>2
<1>6. ASSUME NEW i \in 1..Len(rest), NEW j \in 1..Len(rest), rest[i] = rest[j]
      PROVE  i = j
  <2>1. i + 1 \in 1..Len(list) /\ j + 1 \in 1..Len(list) /\ list[i + 1] = list[j + 1]
    BY <1>4, <1>6
  <2>. QED
    BY <1>2, <2>1
<1>. QED
  BY <1>1, <1>3, <1>5, <1>6 DEF HoldsIn, rest, first

\* Taking the last entry off leaves the others where they are (getlast, queue.c).
LEMMA FrontProperties ==
  ASSUME NEW A, NEW list \in Seq(A), list # <<>>
  PROVE  /\ Front(list) \in Seq(A) /\ Len(Front(list)) = Len(list) - 1
         /\ \A i \in 1..Len(list) - 1 : Front(list)[i] = list[i]
<1>1. Len(list) \in Nat /\ Len(list) >= 1
  OBVIOUS
<1>. DEFINE rest == Front(list)  n == Len(list)
<1>2. /\ rest \in Seq(A) /\ Len(rest) = n - 1
      /\ \A i \in 1..n - 1 : rest[i] = list[i]
  <2>1. \A i \in 1..n - 1 : list[i] \in A
    BY <1>1
  <2>2. /\ SubSeq(list, 1, n - 1) \in Seq(A)
        /\ Len(SubSeq(list, 1, n - 1)) = IF 1 <= n - 1 THEN (n - 1) - 1 + 1 ELSE 0
        /\ \A i \in 1..(n - 1) - 1 + 1 : SubSeq(list, 1, n - 1)[i] = list[1 + i - 1]
    BY <1>1, <2>1, SubSeqProperties
  <2>3. rest = SubSeq(list, 1, n - 1)
    BY DEF Front
  <2>. HIDE DEF rest
  <2>4. /\ rest \in Seq(A)
        /\ Len(rest) = IF 1 <= n - 1 THEN (n - 1) - 1 + 1 ELSE 0
        /\ \A i \in 1..(n - 1) - 1 + 1 : rest[i] = list[1 + i - 1]
    BY <2>2, <2>3, Zenon
  <2>. HIDE DEF n
  <2>5. n \in Nat /\ n >= 1
    BY <1>1 DEF n
  <2>6. Len(rest) = n - 1
    BY <2>4, <2>5
  <2>7. ASSUME NEW i \in 1..n - 1 PROVE rest[i] = list[i]
    BY <2>4, <2>5
  <2>. QED
    BY <2>4, <2>6, <2>7
<1>. QED
  BY <1>2

\* The front of a list holds all but its last entry (getlast, queue.c).
LEMMA FrontHoldsIn ==
  ASSUME NEW A, NEW list \in Seq(A), NEW S, HoldsIn(A, list, S), list # <<>>
  PROVE  /\ Last(list) \in A /\ Last(list) \in S
         /\ Front(list) \in Seq(A) /\ HoldsIn(A, Front(list), S \ {Last(list)})
<1>1. Len(list) \in Nat /\ Len(list) >= 1
  OBVIOUS
<1>. DEFINE rest == Front(list)  last == Last(list)  n == Len(list)
<1>2. last = list[n] /\ last \in A
  BY <1>1 DEF Last
<1>3. /\ rest \in Seq(A) /\ Len(rest) = n - 1
      /\ \A i \in 1..n - 1 : rest[i] = list[i]
  BY FrontProperties
<1>. HIDE DEF rest, last
<1>4. \A i, j \in 1..n : list[i] = list[j] => i = j
  BY DEF HoldsIn
<1>5. last \in S
  BY <1>1, <1>2 DEF HoldsIn, Contains
<1>6. ASSUME NEW r \in A
      PROVE  Contains(rest, r) <=> r \in S \ {last}
  <2>1. ASSUME Contains(rest, r) PROVE r \in S \ {last}
    <3>1. PICK i \in 1..n - 1 : rest[i] = r
      BY <1>3, <2>1 DEF Contains
    <3>2. i \in 1..n /\ list[i] = r /\ i # n /\ n \in 1..n
      BY <1>1, <1>3, <3>1
    <3>3. r # last
      BY <1>2, <1>4, <3>2
    <3>. QED
      BY <3>2, <3>3 DEF HoldsIn, Contains
  <2>2. ASSUME r \in S \ {last} PROVE Contains(rest, r)
    <3>1. PICK i \in 1..n : list[i] = r
      BY <2>2 DEF HoldsIn, Contains
    <3>2. i # n
      BY <1>2, <2>2, <3>1
    <3>3. i \in 1..Len(rest) /\ rest[i] = list[i]
      BY <1>3, <3>1, <3>2
    <3>. QED
      BY <3>1, <3>3 DEF Contains
  <2>. QED
    BY <2>1, <2>2
<1>7. ASSUME NEW i \in 1..Len(rest), NEW j \in 1..Len(rest), rest[i] = rest[j]
      PROVE  i = j
  BY <1>3, <1>4, <1>7
<1>. QED
  BY <1>2, <1>3, <1>5, <1>6, <1>7 DEF HoldsIn, rest, last

\* enqueue() adds its process to those on the list (queue.c:11).
LEMMA AppendHoldsIn ==
  ASSUME NEW A, NEW list \in Seq(A), NEW S, HoldsIn(A, list, S), NEW p \in A, p \notin S
  PROVE  Append(list, p) \in Seq(A) /\ HoldsIn(A, Append(list, p), S \cup {p})
<1>. DEFINE new == Append(list, p)  n == Len(list)
<1>1. /\ new \in Seq(A) /\ Len(new) = n + 1 /\ new[n + 1] = p /\ n \in Nat
      /\ \A i \in 1..n : new[i] = list[i]
  BY AppendProperties
<1>. HIDE DEF new
<1>2. \A i, j \in 1..n : list[i] = list[j] => i = j
  BY DEF HoldsIn
<1>3. \A i \in 1..n : list[i] # p
  BY DEF HoldsIn, Contains
<1>4. ASSUME NEW r \in A
      PROVE  Contains(new, r) <=> r \in S \cup {p}
  <2>1. Contains(new, r) <=> Contains(list, r) \/ r = p
    BY <1>1 DEF Contains
  <2>. QED
    BY <2>1 DEF HoldsIn
<1>5. ASSUME NEW i \in 1..Len(new), NEW j \in 1..Len(new), new[i] = new[j]
      PROVE  i = j
  BY <1>1, <1>2, <1>3, <1>5
<1>. QED
  BY <1>1, <1>4, <1>5 DEF HoldsIn, new

\* dequeue() takes one entry off the list its process is on (queue.c:30).
LEMMA RemoveFirstLength ==
  ASSUME NEW A, NEW list \in Seq(A), NEW p \in A, Contains(list, p)
  PROVE  Len(RemoveFirst(list, p)) = Len(list) - 1
<1>. DEFINE places == {i \in 1..Len(list) : list[i] = p}  at == Min(places)
<1>1. places \in SUBSET Nat /\ places # {}
  BY DEF Contains
<1>2. at \in 1..Len(list)
  BY <1>1, MinIsLeast
<1>3. RemoveFirst(list, p) = RemoveAt(list, at)
  BY <1>1 DEF RemoveFirst, SelectInSeq
<1>. HIDE DEF places, at
<1>. QED
  BY <1>2, <1>3, RemoveAtProperties

-------------------------------------------------------------------------------
(***************************************************************************)
(* Lists in the order of keys, which insert() keeps (insert.c).            *)
(***************************************************************************)
Sorted(list, key) == \A i, j \in 1..Len(list) : i < j => key[list[i]] <= key[list[j]]

\* The keys of those on the list are all that matters.
LEMMA SortedSameKeys ==
  ASSUME NEW A, NEW list \in Seq(A), NEW key, NEW keys, Sorted(list, key),
         \A r \in A : Contains(list, r) => keys[r] = key[r]
  PROVE  Sorted(list, keys)
<1>1. \A i \in 1..Len(list) : keys[list[i]] = key[list[i]]
  BY DEF Contains
<1>. QED
  BY <1>1 DEF Sorted

\* insert() into a list in order leaves one in order (insert.c:15-23).
LEMMA InsertAtSorted ==
  ASSUME NEW A, NEW list \in Seq(A), NEW key \in [A -> Int], Sorted(list, key),
         NEW p \in A, ~Contains(list, p), NEW k \in Int
  PROVE  Sorted(InsertAt(list, Min({i \in 1..Len(list) : key[list[i]] >= k} \cup {Len(list) + 1}), p),
                [key EXCEPT ![p] = k])
<1>. DEFINE stop == {i \in 1..Len(list) : key[list[i]] >= k} \cup {Len(list) + 1}
            new == InsertAt(list, Min(stop), p)
            keys == [key EXCEPT ![p] = k]
<1>1. stop \in SUBSET Nat /\ stop # {} /\ stop \subseteq 1..Len(list) + 1
  OBVIOUS
<1>2. PICK at \in 1..Len(list) + 1 :
         at \in stop /\ (\A i \in stop : at <= i) /\ new = InsertAt(list, at, p)
  <2>1. Min(stop) \in stop /\ \A i \in stop : Min(stop) <= i
    <3>. HIDE DEF stop
    <3>. QED
      BY <1>1, MinIsLeast
  <2>. QED
    BY <1>1, <2>1
<1>. HIDE DEF new
<1>3. /\ new \in Seq(A) /\ Len(new) = Len(list) + 1
      /\ \A j \in 1..Len(list) + 1 :
           new[j] = IF j < at THEN list[j] ELSE IF j = at THEN p ELSE list[j - 1]
  <2>. HIDE DEF stop
  <2>1. /\ InsertAt(list, at, p) \in Seq(A) /\ Len(InsertAt(list, at, p)) = Len(list) + 1
        /\ \A j \in 1..Len(list) + 1 :
             InsertAt(list, at, p)[j] = IF j < at THEN list[j] ELSE IF j = at THEN p ELSE list[j - 1]
    BY InsertAtProperties
  <2>2. new = InsertAt(list, at, p)
    BY <1>2
  <2>. QED
    BY <2>1, <2>2, Zenon
<1>4. \A i \in 1..Len(list) : list[i] \in A /\ list[i] # p /\ keys[list[i]] = key[list[i]] /\ key[list[i]] \in Int
  BY DEF Contains
<1>5. keys[p] = k
  OBVIOUS
<1>6. \A i \in 1..Len(list) : i < at => key[list[i]] < k
  BY <1>2, <1>4
<1>7. \A i \in 1..Len(list) : i >= at => key[list[i]] >= k
  <2>1. at <= Len(list) => key[list[at]] >= k
    BY <1>2
  <2>2. ASSUME NEW i \in 1..Len(list), i > at PROVE key[list[i]] >= k
    <3>1. at \in 1..Len(list) /\ key[list[at]] <= key[list[i]]
      BY <2>2 DEF Sorted
    <3>. QED
      BY <1>4, <2>1, <3>1
  <2>. QED
    BY <2>1, <2>2
<1>. HIDE DEF keys, stop
<1>8. ASSUME NEW i \in 1..Len(new), NEW j \in 1..Len(new), i < j
      PROVE  keys[new[i]] <= keys[new[j]]
  <2>0. i \in 1..Len(list) + 1 /\ j \in 1..Len(list) + 1
    BY <1>3
  <2>1. CASE j < at
    <3>1. /\ new[i] = list[i] /\ i \in 1..Len(list)
          /\ new[j] = list[j] /\ j \in 1..Len(list)
      BY <1>3, <1>8, <2>0, <2>1
    <3>. QED
      BY <1>4, <1>8, <3>1 DEF Sorted
  <2>2. CASE j = at
    <3>1. new[j] = p /\ new[i] = list[i] /\ i \in 1..Len(list) /\ i < at
      BY <1>3, <1>8, <2>0, <2>2
    <3>. QED
      BY <1>4, <1>5, <1>6, <3>1
  <2>3. CASE j > at
    <3>1. new[j] = list[j - 1] /\ j - 1 \in 1..Len(list) /\ j - 1 >= at
      BY <1>3, <2>0, <2>3
    <3>2. CASE i < at
      <4>1. new[i] = list[i] /\ i \in 1..Len(list) /\ i < j - 1
        BY SMTT(30), <1>3, <2>0, <2>3, <3>2
      <4>. QED
        BY <1>4, <3>1, <4>1 DEF Sorted
    <3>3. CASE i = at
      <4>1. new[i] = p
        BY <1>3, <2>0, <3>3
      <4>. QED
        BY <1>4, <1>5, <1>7, <3>1, <4>1
    <3>4. CASE i > at
      <4>1. new[i] = list[i - 1] /\ i - 1 \in 1..Len(list) /\ i - 1 < j - 1
        BY SMTT(30), <1>3, <1>8, <2>0, <3>4
      <4>. QED
        BY <1>4, <3>1, <4>1 DEF Sorted
    <3>. QED
      BY <2>0, <3>2, <3>3, <3>4
  <2>. QED
    BY <2>0, <2>1, <2>2, <2>3
<1>9. Sorted(new, keys)
  BY <1>8 DEF Sorted
<1>. QED
  BY <1>9, Zenon DEF new, keys, stop

\* So does taking the last entry off (getlast, queue.c).
LEMMA FrontSorted ==
  ASSUME NEW A, NEW list \in Seq(A), NEW key, Sorted(list, key), list # <<>>
  PROVE  Sorted(Front(list), key)
<1>1. list # <<>> => Len(list) \in Nat
  OBVIOUS
<1>2. /\ Len(Front(list)) = Len(list) - 1
      /\ \A i \in 1..Len(list) - 1 : Front(list)[i] = list[i]
  BY FrontProperties
<1>. QED
  BY <1>1, <1>2 DEF Sorted

\* And taking one out (dequeue, queue.c).
LEMMA RemoveFirstSorted ==
  ASSUME NEW A, NEW list \in Seq(A), NEW key, Sorted(list, key), NEW p \in A
  PROVE  Sorted(RemoveFirst(list, p), key)
<1>1. CASE ~\E i \in 1..Len(list) : list[i] = p
  BY <1>1 DEF RemoveFirst
<1>2. CASE \E i \in 1..Len(list) : list[i] = p
  <2>. DEFINE places == {i \in 1..Len(list) : list[i] = p}
  <2>1. Min(places) \in 1..Len(list)
    <3>1. places \in SUBSET Nat /\ places # {}
      BY <1>2
    <3>2. Min(places) \in places
      <4>. HIDE DEF places
      <4>. QED
        BY <3>1, MinIsLeast
    <3>. QED
      BY <3>2
  <2>2. RemoveFirst(list, p) = RemoveAt(list, Min(places))
    BY <1>2 DEF RemoveFirst, SelectInSeq
  <2>. HIDE DEF places
  <2>3. PICK at \in 1..Len(list) : at = Min(places)
    BY <2>1
  <2>4. /\ Len(RemoveFirst(list, p)) = Len(list) - 1
        /\ \A j \in 1..Len(list) - 1 :
             RemoveFirst(list, p)[j] = IF j < at THEN list[j] ELSE list[j + 1]
    BY <2>2, <2>3, RemoveAtProperties
  <2>5. ASSUME NEW i \in 1..Len(list) - 1, NEW j \in 1..Len(list) - 1, i < j
        PROVE  key[RemoveFirst(list, p)[i]] <= key[RemoveFirst(list, p)[j]]
    BY <2>4, <2>5 DEF Sorted
  <2>. QED
    BY <2>4, <2>5 DEF Sorted
<1>. QED
  BY <1>1, <1>2

\* In a list in order nobody has a higher key than the last entry.
LEMMA LastIsHighest ==
  ASSUME NEW A, NEW list \in Seq(A), NEW key \in [A -> Int], Sorted(list, key), list # <<>>
  PROVE  /\ Last(list) \in A
         /\ \A r \in A : Contains(list, r) => key[r] <= key[Last(list)]
<1>1. Len(list) \in 1..Len(list) /\ Last(list) = list[Len(list)]
  BY DEF Last
<1>2. ASSUME NEW i \in 1..Len(list) PROVE key[list[i]] <= key[list[Len(list)]]
  <2>1. CASE i = Len(list)
    BY <1>1, <2>1
  <2>2. CASE i < Len(list)
    BY <1>1, <2>2 DEF Sorted
  <2>. QED
    BY <2>1, <2>2
<1>. QED
  BY <1>1, <1>2 DEF Contains
===============================================================================
