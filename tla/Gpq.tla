----------------------------------- MODULE Gpq -----------------------------------
(***************************************************************************)
(* General priority queues (newq(), enq(), deq(), freeq() of               *)
(* csc501-lab1/sys/gpq.c).  A queue of type QF_NOWAIT is worked on with    *)
(* interrupts disabled, any other under its mutex, and both only after     *)
(* q_valid and q_count were tested without either.                         *)
(*                                                                         *)
(* Programs use a queue from the return of newq() to the call of freeq(),  *)
(* and free it when nobody is in a call on it.  headq(), seeq() and lenq() *)
(* only look, and are left out with q_seen.                                *)
(***************************************************************************)
EXTENDS Memory, Tasks

CONSTANTS
  MAXNQ,
  QueueSizes,
  QueueTypes,  \* QF_WAIT and QF_NOWAIT
  Elements,    \* what is queued
  Keys,
  NOTHING

ASSUME QueuesAssumption ==
  /\ MAXNQ \in Nat /\ QueueSizes \subseteq Nat \ {0} /\ Keys \subseteq Int
  /\ QueueTypes \subseteq {"QF_WAIT", "QF_NOWAIT"}
  /\ NOTHING \notin [key : Keys, elt : Elements]

VARIABLES
  Q,           \* Q[]: q_valid, q_type, q_max, q_count, q_mutex, q_key with q_elt in list
  arrays,      \* the memory at q_elt and q_key
  broken,      \* q_count went behind the arrays, or two newq() took one queue: the model stops
  usable,      \* history: queues that newq() returned and nobody frees
  arrived,     \* history: what is in each queue, in the order it came
  raced        \* history: two enq(), or two deq(), were in their calls at a time

queues == <<Q, arrays, broken, usable, arrived, raced>>

Queues == 0..MAXNQ - 1
NoQueue == [valid |-> FALSE, type |-> "QF_NOWAIT", max |-> 0, count |-> 0,
            mutex |-> SYSERR, list |-> <<>>]

QueuesInit ==
  /\ Q = [q \in Queues |-> NoQueue]
  /\ arrays = [q \in Queues |-> <<>>]
  /\ broken = FALSE
  /\ usable = {}
  /\ arrived = [q \in Queues |-> <<>>]
  /\ raced = {}

NoWait(q) == Q[q].type = "QF_NOWAIT"

Past(calls, q) == {p \in Procs : doing[p].call \in calls /\ doing[p].q = q}
Enqueuing == {"enq", "enqPlaces", "enqCounts"}
Dequeuing == {"deq", "deqShifts", "deqCounts"}
InUse(q) == Past(Enqueuing \cup Dequeuing, q) # {}

-------------------------------------------------------------------------------
(***************************************************************************)
(* The arrays q_key and q_elt, as one sequence of q_max entries.           *)
(***************************************************************************)
Entry(key, elt) == [key |-> key, elt |-> elt]

\* Faulty: past equal keys too.
AheadOfEquals(list, count, key) ==
  LET Stops == {i \in 1..count : list[i] # NOTHING /\ key < list[i].key} IN
  IF Stops = {} THEN 0 ELSE CHOOSE i \in Stops : \A j \in Stops : j <= i

\* From the tail towards the head, as long as the new key is greater.
Behind(list, count, key) ==
  LET Stops == {i \in 1..count : list[i] # NOTHING /\ key <= list[i].key} IN
  IF Stops = {} THEN 0 ELSE CHOOSE i \in Stops : \A j \in Stops : j <= i

Placed(list, count, entry) ==
  LET i == Behind(list, count, entry.key) IN
  SubSeq(list, 1, i) \o <<entry>> \o SubSeq(list, i + 1, count)
                     \o SubSeq(list, count + 2, Len(list))

Shifted(list, count) ==
  IF count < 1 THEN list
  ELSE SubSeq(list, 2, count) \o SubSeq(list, count, Len(list))

\* "this shouldn't happen, but..."
Repaired(count) == IF count < 0 THEN 0 ELSE count

Without(entries, entry) ==
  IF \E i \in DOMAIN entries : entries[i] = entry
  THEN LET i == CHOOSE i \in DOMAIN entries : entries[i] = entry IN
       SubSeq(entries, 1, i - 1) \o SubSeq(entries, i + 1, Len(entries))
  ELSE entries

-------------------------------------------------------------------------------
(* enq() *)

\* Faulty: one element too many is let in.
enqOneMore(p, q, elt, key) ==
  /\ Calls(p)
  /\ Q[q].valid /\ Q[q].count <= Q[q].max
  /\ Goes(p, [call |-> IF NoWait(q) THEN "enqPlaces" ELSE "enq", q |-> q,
              entry |-> Entry(key, elt)])
  /\ raced' = IF Past(Enqueuing, q) = {} THEN raced ELSE raced \cup {q}
  /\ UNCHANGED <<semaph, Q, arrays, broken, usable, arrived>>

enq(p, q, elt, key) ==
  /\ Calls(p)
  /\ Q[q].valid /\ Q[q].count < Q[q].max
  /\ Goes(p, [call |-> IF NoWait(q) THEN "enqPlaces" ELSE "enq", q |-> q,
              entry |-> Entry(key, elt)])
  /\ raced' = IF Past(Enqueuing, q) = {} THEN raced ELSE raced \cup {q}
  /\ UNCHANGED <<semaph, Q, arrays, broken, usable, arrived>>

enqWaits(p) ==
  /\ At(p, "enq")
  /\ semaph' = wait(p, Q[doing[p].q].mutex)
  /\ Goes(p, [doing[p] EXCEPT !.call = "enqPlaces"])
  /\ UNCHANGED queues

enqPlaces(p) ==
  LET q == doing[p].q
      entry == doing[p].entry
      count == Repaired(Q[q].count)
  IN
  /\ At(p, "enqPlaces")
  /\ IF count >= Q[q].max
     THEN broken' = TRUE /\ UNCHANGED <<doing, Q, arrived>>
     ELSE /\ Q' = [Q EXCEPT ![q].list = Placed(@, count, entry),
                            ![q].count = IF NoWait(q) THEN count + 1 ELSE count]
          /\ arrived' = [arrived EXCEPT ![q] = Append(@, entry)]
          /\ IF NoWait(q) THEN Returns(p)
             ELSE Goes(p, [doing[p] EXCEPT !.call = "enqCounts"])
          /\ UNCHANGED broken
  /\ UNCHANGED <<semaph, arrays, usable, raced>>

enqCounts(p) ==
  LET q == doing[p].q IN
  /\ At(p, "enqCounts")
  /\ Q' = [Q EXCEPT ![q].count = @ + 1]
  /\ broken' = (Q'[q].count > Q[q].max)
  /\ semaph' = signal(Q[q].mutex)
  /\ Returns(p)
  /\ UNCHANGED <<arrays, usable, arrived, raced>>

-------------------------------------------------------------------------------
(* deq() *)

deq(p, q) ==
  /\ Calls(p)
  /\ Q[q].valid /\ Q[q].count > 0
  /\ Goes(p, [call |-> IF NoWait(q) THEN "deqShifts" ELSE "deq", q |-> q])
  /\ raced' = IF Past(Dequeuing, q) = {} THEN raced ELSE raced \cup {q}
  /\ UNCHANGED <<semaph, Q, arrays, broken, usable, arrived>>

deqWaits(p) ==
  /\ At(p, "deq")
  /\ semaph' = wait(p, Q[doing[p].q].mutex)
  /\ Goes(p, [doing[p] EXCEPT !.call = "deqShifts"])
  /\ UNCHANGED queues

deqShifts(p) ==
  LET q == doing[p].q
      list == Q[q].list
  IN
  /\ At(p, "deqShifts")
  /\ Q' = [Q EXCEPT ![q].list = Shifted(@, Q[q].count),
                    ![q].count = IF NoWait(q) THEN @ - 1 ELSE @]
  /\ arrived' = [arrived EXCEPT ![q] = Without(@, list[1])]
  /\ IF NoWait(q) THEN Returns(p)
     ELSE Goes(p, [doing[p] EXCEPT !.call = "deqCounts"])
  /\ UNCHANGED <<semaph, arrays, broken, usable, raced>>

deqCounts(p) ==
  LET q == doing[p].q IN
  /\ At(p, "deqCounts")
  /\ Q' = [Q EXCEPT ![q].count = @ - 1]
  /\ semaph' = signal(Q[q].mutex)
  /\ Returns(p)
  /\ UNCHANGED <<arrays, broken, usable, arrived, raced>>

-------------------------------------------------------------------------------
(* newq() and freeq() *)

\* The first queue that is not valid.
newq(p, size, type) ==
  /\ Calls(p)
  /\ \E q \in Queues :
       /\ ~Q[q].valid /\ \A r \in 0..q - 1 : Q[r].valid
       /\ Goes(p, [call |-> "newq", q |-> q, size |-> size, type |-> type])
  /\ UNCHANGED <<semaph, queues, memory>>

\* The next of the two arrays, if there is memory for it.
Array(q, size) ==
  \/ /\ Getmem(4 * size, "heap")
     /\ arrays' = [arrays EXCEPT ![q] = Append(@, CHOOSE h \in held' : h \notin held)]
  \/ /\ GetmemFails(4 * size)
     /\ UNCHANGED <<arrays, memory>>

newqFills(p) ==
  LET q == doing[p].q
      size == doing[p].size
      mutex == IF doing[p].type = "QF_NOWAIT" THEN SYSERR ELSE newsem
  IN
  /\ At(p, "newq")
  /\ IF Q[q].valid
     THEN broken' = TRUE /\ UNCHANGED <<Q, arrays, raced, semaph, doing, memory>>
     ELSE /\ Q' = [Q EXCEPT ![q] = [valid |-> TRUE, type |-> doing[p].type, max |-> size,
                                    count |-> 0, mutex |-> mutex,
                                    list |-> [i \in 1..size |-> NOTHING]]]
          /\ semaph' = screate(mutex, 1)
          /\ Array(q, size)
          /\ raced' = raced \ {q}
          /\ Goes(p, [call |-> "newqKeys", q |-> q])
          /\ UNCHANGED broken
  /\ UNCHANGED <<usable, arrived>>

\* Without one of the arrays newq() fails, and the queue stays valid for ever.
newqKeys(p) ==
  LET q == doing[p].q IN
  /\ At(p, "newqKeys")
  /\ Array(q, Q[q].max)
  /\ usable' = IF Len(arrays'[q]) = 2 THEN usable \cup {q} ELSE usable
  /\ Returns(p)
  /\ UNCHANGED <<Q, broken, arrived, raced, semaph>>

freeq(p, q) ==
  /\ Calls(p)
  /\ ~InUse(q)
  /\ Q[q].valid /\ Q[q].count = 0
  /\ Freemem(arrays[q][2])
  /\ Goes(p, [call |-> "freeq", q |-> q])
  /\ usable' = usable \ {q}
  /\ UNCHANGED <<semaph, Q, arrays, broken, arrived, raced>>

\* Faulty: the same array is freed twice.
freeqEndsTwice(p) ==
  LET q == doing[p].q IN
  /\ At(p, "freeq")
  /\ Freemem(arrays[q][2])
  /\ semaph' = IF NoWait(q) THEN semaph ELSE sdelete(Q[q].mutex)
  /\ Q' = [Q EXCEPT ![q] = NoQueue]
  /\ arrays' = [arrays EXCEPT ![q] = <<>>]
  /\ arrived' = [arrived EXCEPT ![q] = <<>>]
  /\ Returns(p)
  /\ UNCHANGED <<broken, usable, raced>>

freeqEnds(p) ==
  LET q == doing[p].q IN
  /\ At(p, "freeq")
  /\ Freemem(arrays[q][1])
  /\ semaph' = IF NoWait(q) THEN semaph ELSE sdelete(Q[q].mutex)
  /\ Q' = [Q EXCEPT ![q] = NoQueue]
  /\ arrays' = [arrays EXCEPT ![q] = <<>>]
  /\ arrived' = [arrived EXCEPT ![q] = <<>>]
  /\ Returns(p)
  /\ UNCHANGED <<broken, usable, raced>>

QueuesNext(p) ==
  \/ /\ \/ \E q \in usable :
             \/ \E elt \in Elements, key \in Keys :
                  /\ \A r \in Queues : \A i \in DOMAIN arrived[r] : arrived[r][i].elt # elt
                  /\ \A r \in Procs : doing[r].call \in Enqueuing => doing[r].entry.elt # elt
                  /\ enq(p, q, elt, key)
             \/ deq(p, q)
        \/ enqWaits(p) \/ enqPlaces(p) \/ enqCounts(p)
        \/ deqWaits(p) \/ deqShifts(p) \/ deqCounts(p)
     /\ UNCHANGED memory
  \/ \E size \in QueueSizes, type \in QueueTypes : newq(p, size, type)
  \/ newqFills(p) \/ newqKeys(p)
  \/ \E q \in usable : freeq(p, q)
  \/ freeqEnds(p)

-------------------------------------------------------------------------------
(* Safety *)

\* The queue's mutex, if it needs one, was to be had.
Protected(q) == NoWait(q) \/ Known(Q[q].mutex)

Came(q, entry) == CHOOSE i \in DOMAIN arrived[q] : arrived[q][i] = entry

\* A queue that no two processes enqueue to and no two dequeue from at a time holds
\* what came and was not yet taken, the greatest key first and equal keys in the order
\* they came, although enq() and deq() test q_count before they take the mutex.
QueueInOrder ==
  \A q \in Queues \ raced :
    Q[q].valid /\ Protected(q) /\ Past({"enqCounts", "deqCounts"}, q) = {} =>
      LET list == Q[q].list IN
      /\ Q[q].count = Len(arrived[q])
      /\ {list[i] : i \in 1..Q[q].count} = {arrived[q][i] : i \in DOMAIN arrived[q]}
      /\ \A i, j \in 1..Q[q].count : i < j =>
           \/ list[i].key > list[j].key
           \/ list[i].key = list[j].key /\ Came(q, list[i]) < Came(q, list[j])

\* enq() writes behind the arrays, or q_count gets negative, only where two processes
\* were in enq(), or two in deq(), or a queue was made by two newq(), at a time.
OnlyRacesBreak ==
  /\ \A q \in Queues \ raced : Protected(q) => Q[q].count >= 0
  /\ broken => \E q \in Queues :
       q \in raced \/ ~Protected(q) \/ (Q[q].valid /\ Past({"newq"}, q) # {})
===============================================================================
