------------------------------ MODULE KernelProofs ------------------------------
(***************************************************************************)
(* Whatever processes call, and wherever a call is overtaken by others,    *)
(* the lists of q[] and the process states agree, and the null process can *)
(* always run.  Then what the kernel promises its callers: no receive()    *)
(* ends without a message, wait() tells the truth, counts and queues       *)
(* agree, the clock interrupt follows the right pointer.                   *)
(***************************************************************************)
EXTENDS Kernel, ListProofs

\* The CPU and the ready list.
Dispatched ==
  /\ currpid \in Pid
  /\ pstate \in [Pid -> States]
  /\ rdy \in Seq(Pid)
  /\ InState({"PRCURR"}) = {currpid}
  /\ Holds(rdy, InState({"PRREADY"}))
  /\ NullProcessRunnable

\* The other lists.
Blocked ==
  /\ psem \in [Pid -> Sem]
  /\ clockq \in Seq(Pid)
  /\ semq \in [Sem -> Seq(Pid)]
  /\ Holds(clockq, InState({"PRSLEEP", "PRTRECV"}))
  /\ \A s \in Sem : Holds(semq[s], {p \in InState({"PRWAIT"}) : psem[p] = s})

\* The rest of a call works on the process or semaphore its start has checked.
FrameOK(f) ==
  /\ f \in FrameType
  /\ f.at = "kill" => f.x \in Pid \ {NULLPROC}
  /\ f.at \in {"signaln", "sreset", "sdelete"} => f.x \in Sem

Resumable ==
  /\ frame \in [Pid -> FrameType]
  /\ \A p \in Pid : FrameOK(frame[p])
  /\ nextproc \in Pid
  /\ pnxtkin \in [Pid -> Int]

\* The inductive invariant.
IInv == Dispatched /\ Blocked /\ Resumable

-------------------------------------------------------------------------------
(***************************************************************************)
(* The lists of q[] (ListProofs says the same of any list).                *)
(***************************************************************************)
\* `list' holds the processes of S.
LEMMA HoldsIsHoldsIn == \A list, S : Holds(list, S) <=> HoldsIn(Pid, list, S)
BY DEF Holds, HoldsIn

\* A process put on a list, wherever, joins those on it.
LEMMA PlacedHolds ==
  ASSUME NEW list \in Seq(Pid), NEW S, Holds(list, S),
         NEW p \in Pid, p \notin S, NEW at \in 1..Len(list) + 1
  PROVE  InsertAt(list, at, p) \in Seq(Pid) /\ Holds(InsertAt(list, at, p), S \cup {p})
BY HoldsIsHoldsIn, InsertAtHoldsIn

\* insert() adds its process to those on the list (insert.c).
LEMMA InsertHolds ==
  ASSUME NEW list \in Seq(Pid), NEW S, Holds(list, S),
         NEW p \in Pid, p \notin S, NEW key, NEW k
  PROVE  Insert(list, key, p, k) \in Seq(Pid) /\ Holds(Insert(list, key, p, k), S \cup {p})
<1>. DEFINE stop == {i \in 1..Len(list) : key[list[i]] >= k} \cup {Len(list) + 1}
<1>1. stop \in SUBSET Nat /\ stop # {} /\ stop \subseteq 1..Len(list) + 1
  OBVIOUS
<1>2. Insert(list, key, p, k) = InsertAt(list, Min(stop), p)
  BY DEF Insert
<1>. HIDE DEF stop
<1>3. Min(stop) \in 1..Len(list) + 1
  BY <1>1, MinIsLeast
<1>. QED
  BY <1>2, <1>3, PlacedHolds

\* dequeue() takes its process, and no other, off the list (queue.c:30).
LEMMA DequeueHolds ==
  ASSUME NEW list \in Seq(Pid), NEW S, Holds(list, S), NEW p \in Pid
  PROVE  Dequeue(list, p) \in Seq(Pid) /\ Holds(Dequeue(list, p), S \ {p})
BY HoldsIsHoldsIn, RemoveFirstHoldsIn DEF Dequeue

\* The rest of a list holds all but its head (getfirst, queue.c).
LEMMA TailHolds ==
  ASSUME NEW list \in Seq(Pid), NEW S, Holds(list, S), list # <<>>
  PROVE  /\ Head(list) \in Pid /\ Head(list) \in S
         /\ Tail(list) \in Seq(Pid) /\ Holds(Tail(list), S \ {Head(list)})
BY HoldsIsHoldsIn, TailHoldsIn

\* The front of a list holds all but its last entry (getlast, queue.c).
LEMMA FrontHolds ==
  ASSUME NEW list \in Seq(Pid), NEW S, Holds(list, S), list # <<>>
  PROVE  /\ Last(list) \in Pid /\ Last(list) \in S
         /\ Front(list) \in Seq(Pid) /\ Holds(Front(list), S \ {Last(list)})
BY HoldsIsHoldsIn, FrontHoldsIn

\* enqueue() adds its process to those on the list (queue.c:11).
LEMMA AppendHolds ==
  ASSUME NEW list \in Seq(Pid), NEW S, Holds(list, S), NEW p \in Pid, p \notin S
  PROVE  Append(list, p) \in Seq(Pid) /\ Holds(Append(list, p), S \cup {p})
BY HoldsIsHoldsIn, AppendHoldsIn

\* dequeue() takes one entry off the list its process is on (queue.c:30).
LEMMA DequeueLength ==
  ASSUME NEW list \in Seq(Pid), NEW p \in Pid, Contains(list, p)
  PROVE  Len(Dequeue(list, p)) = Len(list) - 1
BY RemoveFirstLength DEF Dequeue

\* newpid() and newsem() come back with a slot that is free.
LEMMA FoundIsFree ==
  ASSUME NEW start, NEW N \in Nat, NEW used, FreeSlots(start, N, used) # {}
  PROVE  FoundSlot(start, N, used) \notin used
<1>1. FreeSlots(start, N, used) \in SUBSET Nat
  BY DEF FreeSlots
<1>2. Min(FreeSlots(start, N, used)) \in FreeSlots(start, N, used)
  BY <1>1, MinIsLeast
<1>. QED
  BY <1>2 DEF FreeSlots, FoundSlot

\* And in the table, and so is the one the next search begins with.
LEMMA FoundInTable ==
  ASSUME NEW N \in Nat \ {0}, NEW start \in 0..N - 1, NEW used, FreeSlots(start, N, used) # {}
  PROVE  /\ FoundSlot(start, N, used) \in 0..N - 1
         /\ SlotAfter(FoundSlot(start, N, used), 1, N) \in 0..N - 1
<1>. DEFINE i == Min(FreeSlots(start, N, used))
<1>1. FreeSlots(start, N, used) \in SUBSET Nat /\ FreeSlots(start, N, used) \subseteq 0..N - 1
  BY DEF FreeSlots
<1>2. i \in 0..N - 1
  BY <1>1, MinIsLeast
<1>3. FoundSlot(start, N, used) = SlotAfter(start, i, N)
  BY DEF FoundSlot
<1>. HIDE DEF i
<1>4. FoundSlot(start, N, used) \in 0..N - 1
  BY <1>2, <1>3 DEF SlotAfter
<1>. QED
  BY <1>4 DEF SlotAfter

-------------------------------------------------------------------------------
(***************************************************************************)
(* What ready() and resched() promise of tables T in the middle of a call. *)
(***************************************************************************)
StateIs(ps, st) == {p \in Pid : ps[p] \in st}

Queued(T) ==
  /\ T.pstate \in [Pid -> States]
  /\ T.rdy \in Seq(Pid)
  /\ Holds(T.rdy, StateIs(T.pstate, {"PRREADY"}))
  /\ T.pstate[NULLPROC] \in {"PRCURR", "PRREADY"}

\* Two states of a process differ at most in whether it has the CPU.
SameBut(ps, qs) ==
  \A p \in Pid : ps[p] = qs[p] \/ {ps[p], qs[p]} \subseteq {"PRCURR", "PRREADY"}

\* The null process is in the table, and isbadpid (proc.h) refuses it, and what
\* is outside the table, only.
LEMMA PidFacts ==
  /\ NULLPROC \in Pid
  /\ \A p \in Pid : isbadpid(p) <=> p = NULLPROC
  /\ \A p \in Int : ~isbadpid(p) => p \in Pid \ {NULLPROC}
BY NPROCAssumption DEF Pid, NULLPROC, isbadpid

\* ready() adds a process that was on no list to the ready list (ready.c).
LEMMA ReadyQueued ==
  ASSUME NEW T, Queued(T), NEW p \in Pid \ {NULLPROC}, T.pstate[p] # "PRREADY"
  PROVE  /\ Queued(Ready(T, p))
         /\ Ready(T, p).pstate = [T.pstate EXCEPT ![p] = "PRREADY"]
<1>1. ~isbadpid(p)
  BY PidFacts
<1>. DEFINE R == Ready(T, p)
<1>2. /\ R.pstate = [T.pstate EXCEPT ![p] = "PRREADY"]
      /\ R.rdy = Insert(T.rdy, T.qkey, p, pprio[p])
  BY <1>1 DEF Ready
<1>. HIDE DEF R
<1>3. p \notin StateIs(T.pstate, {"PRREADY"})
  BY DEF StateIs
<1>4. /\ R.rdy \in Seq(Pid)
      /\ Holds(R.rdy, StateIs(T.pstate, {"PRREADY"}) \cup {p})
  BY <1>2, <1>3, InsertHolds DEF Queued
<1>5. R.pstate \in [Pid -> States]
  BY <1>2 DEF Queued, States
<1>6. StateIs(R.pstate, {"PRREADY"}) = StateIs(T.pstate, {"PRREADY"}) \cup {p}
  BY <1>2 DEF Queued, StateIs
<1>7. R.pstate[NULLPROC] \in {"PRCURR", "PRREADY"}
  BY <1>2, PidFacts DEF Queued
<1>. QED
  BY <1>2, <1>4, <1>5, <1>6, <1>7 DEF Queued, R

\* Without a reschedule the tables are as they were built (RESCHNO).
LEMMA KeepDispatched ==
  ASSUME NEW T, Queued(T), currpid \in Pid, StateIs(T.pstate, {"PRCURR"}) = {currpid}, Keep(T)
  PROVE  Dispatched' /\ SameBut(T.pstate, pstate') /\ pstate' = T.pstate
BY DEF Queued, Keep, Dispatched, StateIs, InState, NullProcessRunnable, SameBut

\* resched() dispatches exactly one process, and there is always one to take
\* from the end of the ready list (resched.c:145-177).
LEMMA ReschedDispatched ==
  ASSUME NEW T, Queued(T), currpid \in Pid, NEW ticks, Resched(T, ticks),
         StateIs(T.pstate, {"PRCURR"}) \subseteq {currpid}, T.pstate[currpid] # "PRREADY"
  PROVE  Dispatched' /\ SameBut(T.pstate, pstate')
<1>1. CASE T.pstate[currpid] = "PRCURR" /\ (T.rdy = <<>> \/ T.qkey[Last(T.rdy)] < pprio[currpid])
  <2>1. Keep(T)
    BY <1>1 DEF Resched
  <2>2. StateIs(T.pstate, {"PRCURR"}) = {currpid}
    BY <1>1 DEF StateIs
  <2>. QED
    BY <2>1, <2>2, KeepDispatched
<1>2. CASE ~(T.pstate[currpid] = "PRCURR" /\ (T.rdy = <<>> \/ T.qkey[Last(T.rdy)] < pprio[currpid]))
  <2>. DEFINE yields == T.pstate[currpid] = "PRCURR"
              list == IF yields THEN Insert(T.rdy, T.qkey, currpid, pprio[currpid]) ELSE T.rdy
              old == IF yields THEN [T.pstate EXCEPT ![currpid] = "PRREADY"] ELSE T.pstate
              new == Last(list)
  <2>1. currpid' = new /\ pstate' = [old EXCEPT ![new] = "PRCURR"] /\ rdy' = Front(list)
    BY <1>2 DEF Resched
  <2>2. old \in [Pid -> States] /\ SameBut(T.pstate, old) /\ StateIs(old, {"PRCURR"}) = {}
    BY DEF Queued, SameBut, StateIs, States
  <2>3. list \in Seq(Pid) /\ Holds(list, StateIs(old, {"PRREADY"}))
    <3>1. CASE yields
      <4>1. currpid \notin StateIs(T.pstate, {"PRREADY"})
        BY DEF StateIs
      <4>2. StateIs(old, {"PRREADY"}) = StateIs(T.pstate, {"PRREADY"}) \cup {currpid}
        BY <3>1 DEF StateIs, Queued
      <4>. QED
        BY <3>1, <4>1, <4>2, InsertHolds DEF Queued
    <3>2. CASE ~yields
      BY <3>2 DEF Queued
    <3>. QED
      BY <3>1, <3>2
  <2>. HIDE DEF list, old
  <2>4. NULLPROC \in StateIs(old, {"PRREADY"})
    BY <2>2, PidFacts DEF StateIs, SameBut, Queued
  <2>5. list # <<>>
    BY <2>3, <2>4, PidFacts DEF Holds, Contains
  <2>6. /\ new \in Pid /\ new \in StateIs(old, {"PRREADY"})
        /\ Front(list) \in Seq(Pid) /\ Holds(Front(list), StateIs(old, {"PRREADY"}) \ {new})
    BY <2>3, <2>5, FrontHolds
  <2>. HIDE DEF new
  <2>7. pstate' \in [Pid -> States] /\ SameBut(T.pstate, pstate')
    BY <2>1, <2>2, <2>6 DEF SameBut, StateIs, States
  <2>8. StateIs(pstate', {"PRCURR"}) = {currpid'}
    BY <2>1, <2>2, <2>6 DEF StateIs
  <2>9. StateIs(pstate', {"PRREADY"}) = StateIs(old, {"PRREADY"}) \ {new}
    BY <2>1, <2>2, <2>6 DEF StateIs
  <2>10. pstate'[NULLPROC] \in {"PRCURR", "PRREADY"}
    BY <2>1, <2>2, <2>4, <2>6, PidFacts DEF StateIs
  <2>. QED
    BY <2>1, <2>6, <2>7, <2>8, <2>9, <2>10 DEF Dispatched, InState, StateIs, NullProcessRunnable
<1>. QED
  BY <1>1, <1>2

-------------------------------------------------------------------------------
(***************************************************************************)
(* The lists of blocked processes, and the frames.                         *)
(***************************************************************************)
ListsOK(ps, sm, cq, sq) ==
  /\ sm \in [Pid -> Sem]
  /\ cq \in Seq(Pid)
  /\ sq \in [Sem -> Seq(Pid)]
  /\ Holds(cq, StateIs(ps, {"PRSLEEP", "PRTRECV"}))
  /\ \A s \in Sem : Holds(sq[s], {p \in StateIs(ps, {"PRWAIT"}) : sm[p] = s})

\* Blocked, written over the state functions a step computes.
LEMMA BlockedIsListsOK == Blocked <=> ListsOK(pstate, psem, clockq, semq)
BY DEF Blocked, ListsOK, StateIs, InState

\* The same of the next state.
LEMMA BlockedIsListsOKNext == Blocked' <=> ListsOK(pstate', psem', clockq', semq')
BY DEF Blocked, ListsOK, StateIs, InState, Holds, Contains

\* Who has the CPU is no matter to the lists of blocked processes.
LEMMA ListsKeep ==
  ASSUME NEW ps, NEW qs, SameBut(ps, qs), NEW sm, NEW cq, NEW sq, ListsOK(ps, sm, cq, sq)
  PROVE  ListsOK(qs, sm, cq, sq)
<1>1. StateIs(ps, {"PRSLEEP", "PRTRECV"}) = StateIs(qs, {"PRSLEEP", "PRTRECV"})
  BY DEF SameBut, StateIs
<1>2. StateIs(ps, {"PRWAIT"}) = StateIs(qs, {"PRWAIT"})
  BY DEF SameBut, StateIs
<1>. QED
  BY <1>1, <1>2 DEF ListsOK

\* At the start of a call the tables are consistent.
LEMMA TablesQueued ==
  ASSUME IInv
  PROVE  /\ Queued(Tables) /\ currpid \in Pid /\ StateIs(pstate, {"PRCURR"}) = {currpid}
         /\ pstate[currpid] = "PRCURR" /\ pstate \in [Pid -> States]
         /\ Tables.pstate = pstate /\ Tables.rdy = rdy
         /\ ListsOK(pstate, psem, clockq, semq)
         /\ NULLPROC \in Pid /\ pstate[NULLPROC] \in {"PRCURR", "PRREADY"}
<1>1. Tables.pstate = pstate /\ Tables.rdy = rdy
  BY DEF Tables
<1>. QED
  BY <1>1, BlockedIsListsOK, PidFacts
     DEF IInv, Dispatched, Queued, StateIs, InState, NullProcessRunnable

\* A process set to a state that is no list's, taken off the ready list.
LEMMA SetStateQueued ==
  ASSUME NEW T, Queued(T), NEW p \in Pid \ {NULLPROC}, T.pstate[p] # "PRREADY",
         NEW st \in States \ {"PRREADY", "PRCURR"}, NEW R,
         R.pstate = [T.pstate EXCEPT ![p] = st], R.rdy = T.rdy
  PROVE  Queued(R)
<1>1. StateIs(R.pstate, {"PRREADY"}) = StateIs(T.pstate, {"PRREADY"})
  BY DEF StateIs, Queued
<1>. QED
  BY <1>1, PidFacts DEF Queued

\* The frame a call leaves behind is one it can go on from.
LEMMA LeaveResumable ==
  ASSUME IInv, NEW f, FrameOK(f), Leave(f), UNCHANGED <<nextproc, pnxtkin>>
  PROVE  Resumable'
BY DEF IInv, Dispatched, Resumable, Leave, FrameOK

\* So do calls that end in the step they begin in.
LEMMA SameResumable ==
  ASSUME IInv, UNCHANGED <<frame, nextproc, pnxtkin>>
  PROVE  Resumable'
BY DEF IInv, Resumable, FrameOK

\* The frames a step may leave behind have their type.
LEMMA FrameFacts ==
  /\ FrameOK(User)
  /\ \A at \in {"receive", "recvtim", "wakeup", "clpreem"} : FrameOK(At(at, 0, 0))
  /\ \A p \in Pid \ {NULLPROC} : FrameOK(At("kill", p, 0))
  /\ \A s \in Sem, n \in Int, at \in {"signaln", "sreset", "sdelete"} : FrameOK(At(at, s, n))
BY NPROCAssumption, NSEMAssumption DEF FrameOK, FrameType, User, At, Points, Pid, Sem

\* A step that leaves the CPU and every list alone.
LEMMA QuietStep ==
  ASSUME IInv, UNCHANGED <<currpid, pstate, rdy, psem, clockq, semq>>, Resumable'
  PROVE  IInv'
BY DEF IInv, Dispatched, Blocked, InState, Holds, Contains, NullProcessRunnable

\* A step that does no more to the lists than resched() does.
LEMMA ReschedStep ==
  ASSUME IInv, NEW ticks, Resched(Tables, ticks), UNCHANGED <<psem, clockq, semq>>, Resumable'
  PROVE  IInv'
<1>1. Dispatched' /\ SameBut(pstate, pstate')
  BY TablesQueued, ReschedDispatched
<1>2. ListsOK(pstate', psem', clockq', semq')
  BY <1>1, TablesQueued, ListsKeep
<1>. QED
  BY <1>1, <1>2, BlockedIsListsOKNext DEF IInv

\* Waking p: it goes to the ready list, and perhaps at once to the CPU.
LEMMA WakeNow ==
  ASSUME IInv, NEW T, Queued(T), T.pstate = pstate, NEW p \in Pid \ {NULLPROC},
         pstate[p] \notin {"PRREADY", "PRCURR"}, ReadyNow(T, p)
  PROVE  Dispatched' /\ SameBut([pstate EXCEPT ![p] = "PRREADY"], pstate')
<1>1. /\ Queued(Ready(T, p)) /\ Ready(T, p).pstate = [pstate EXCEPT ![p] = "PRREADY"]
      /\ Resched(Ready(T, p), preempt)
  BY ReadyQueued, PidFacts DEF ReadyNow
<1>. DEFINE R == Ready(T, p)
<1>. HIDE DEF R
<1>2. /\ Queued(R) /\ R.pstate = [pstate EXCEPT ![p] = "PRREADY"] /\ Resched(R, preempt)
  BY <1>1 DEF R
<1>3. currpid \in Pid /\ pstate[currpid] = "PRCURR" /\ pstate \in [Pid -> States]
  BY TablesQueued
<1>4. StateIs(R.pstate, {"PRCURR"}) \subseteq {currpid} /\ R.pstate[currpid] # "PRREADY"
  BY <1>2, <1>3, TablesQueued DEF StateIs
<1>5. Dispatched' /\ SameBut(R.pstate, pstate')
  BY <1>2, <1>3, <1>4, ReschedDispatched
<1>. QED
  BY <1>2, <1>5

\* Waking p without a reschedule.
LEMMA WakeLater ==
  ASSUME IInv, NEW p \in Pid \ {NULLPROC}, pstate[p] \notin {"PRREADY", "PRCURR"},
         Keep(Ready(Tables, p))
  PROVE  Dispatched' /\ pstate' = [pstate EXCEPT ![p] = "PRREADY"]
<1>1. /\ Queued(Ready(Tables, p))
      /\ Ready(Tables, p).pstate = [pstate EXCEPT ![p] = "PRREADY"]
  BY ZenonT(30), TablesQueued, ReadyQueued
<1>2. StateIs([pstate EXCEPT ![p] = "PRREADY"], {"PRCURR"}) = {currpid}
  BY TablesQueued DEF StateIs
<1>. QED
  BY <1>1, <1>2, TablesQueued, KeepDispatched

\* The running process blocks, or ends.
LEMMA BlockNow ==
  ASSUME IInv, currpid # NULLPROC, NEW st \in States \ {"PRREADY", "PRCURR"},
         NEW T, T.pstate = [pstate EXCEPT ![currpid] = st], T.rdy = rdy,
         NEW ticks, Resched(T, ticks)
  PROVE  Dispatched' /\ SameBut([pstate EXCEPT ![currpid] = st], pstate')
<1>1. Queued(T)
  <2>1. /\ Queued(Tables) /\ currpid \in Pid \ {NULLPROC} /\ Tables.pstate[currpid] # "PRREADY"
        /\ T.pstate = [Tables.pstate EXCEPT ![currpid] = st] /\ T.rdy = Tables.rdy
    BY TablesQueued
  <2>. QED
    BY <2>1, SetStateQueued
<1>2. /\ StateIs(T.pstate, {"PRCURR"}) \subseteq {currpid}
      /\ T.pstate[currpid] # "PRREADY"
  BY TablesQueued DEF StateIs
<1>. QED
  BY ZenonT(30), <1>1, <1>2, TablesQueued, ReschedDispatched

\* insertd() adds its process to the sleeping ones (insertd.c).
LEMMA DeltaListHolds ==
  ASSUME NEW list \in Seq(Pid), NEW S, Holds(list, S),
         NEW p \in Pid, p \notin S, NEW key, NEW k
  PROVE  /\ DeltaList(list, key, p, k) \in Seq(Pid)
         /\ Holds(DeltaList(list, key, p, k), S \cup {p})
<1>. DEFINE stop == {i \in 1..Len(list) : key[list[i]] >= Residue(list, key, k)[i - 1]}
                    \cup {Len(list) + 1}
<1>1. stop \in SUBSET Nat /\ stop # {} /\ stop \subseteq 1..Len(list) + 1
  OBVIOUS
<1>2. DeltaPosition(list, key, k) = Min(stop)
  BY DEF DeltaPosition
<1>. HIDE DEF stop
<1>3. DeltaPosition(list, key, k) \in 1..Len(list) + 1
  BY <1>1, <1>2, MinIsLeast
<1>. QED
  BY <1>3, PlacedHolds DEF DeltaList

\* One change of one process state, seen by the lists of the blocked.
LEMMA LeavesSleepers ==
  ASSUME NEW ps \in [Pid -> States], NEW sm, NEW cq, NEW sq, ListsOK(ps, sm, cq, sq),
         NEW p \in Pid, ps[p] # "PRWAIT", NEW st \in States \ {"PRWAIT", "PRSLEEP", "PRTRECV"}
  PROVE  ListsOK([ps EXCEPT ![p] = st], sm, Dequeue(cq, p), sq)
<1>. DEFINE qs == [ps EXCEPT ![p] = st]
<1>1. StateIs(qs, {"PRSLEEP", "PRTRECV"}) = StateIs(ps, {"PRSLEEP", "PRTRECV"}) \ {p}
  BY DEF StateIs
<1>2. StateIs(qs, {"PRWAIT"}) = StateIs(ps, {"PRWAIT"})
  BY DEF StateIs
<1>. HIDE DEF qs
<1>3. /\ Dequeue(cq, p) \in Seq(Pid)
      /\ Holds(Dequeue(cq, p), StateIs(qs, {"PRSLEEP", "PRTRECV"}))
  BY <1>1, DequeueHolds DEF ListsOK
<1>4. ListsOK(qs, sm, Dequeue(cq, p), sq)
  BY <1>2, <1>3 DEF ListsOK
<1>. QED
  BY <1>4 DEF qs

\* The running process goes on the delta list (sleep10.c, recvtim.c).
LEMMA JoinsSleepers ==
  ASSUME NEW ps \in [Pid -> States], NEW sm, NEW cq, NEW sq, ListsOK(ps, sm, cq, sq),
         NEW p \in Pid, ps[p] \notin {"PRWAIT", "PRSLEEP", "PRTRECV"},
         NEW st \in {"PRSLEEP", "PRTRECV"}, NEW key, NEW k
  PROVE  /\ DeltaList(cq, key, p, k) \in Seq(Pid)
         /\ ListsOK([ps EXCEPT ![p] = st], sm, DeltaList(cq, key, p, k), sq)
<1>. DEFINE qs == [ps EXCEPT ![p] = st]
<1>1. StateIs(qs, {"PRSLEEP", "PRTRECV"}) = StateIs(ps, {"PRSLEEP", "PRTRECV"}) \cup {p}
  BY DEF StateIs
<1>2. StateIs(qs, {"PRWAIT"}) = StateIs(ps, {"PRWAIT"})
  BY DEF StateIs
<1>3. p \notin StateIs(ps, {"PRSLEEP", "PRTRECV"})
  BY DEF StateIs
<1>. HIDE DEF qs
<1>4. /\ DeltaList(cq, key, p, k) \in Seq(Pid)
      /\ Holds(DeltaList(cq, key, p, k), StateIs(qs, {"PRSLEEP", "PRTRECV"}))
  BY <1>1, <1>3, DeltaListHolds DEF ListsOK
<1>5. ListsOK(qs, sm, DeltaList(cq, key, p, k), sq)
  BY <1>2, <1>4 DEF ListsOK
<1>. QED
  BY <1>4, <1>5 DEF qs

\* A waiter is taken off the queue of its semaphore, wherever it stands.
LEMMA LeavesWaiters ==
  ASSUME NEW ps \in [Pid -> States], NEW sm, NEW cq, NEW sq, ListsOK(ps, sm, cq, sq),
         NEW p \in Pid, ps[p] = "PRWAIT", NEW s \in Sem, sm[p] = s,
         NEW st \in States \ {"PRWAIT", "PRSLEEP", "PRTRECV"}, NEW list \in Seq(Pid),
         Holds(list, {r \in StateIs(ps, {"PRWAIT"}) : sm[r] = s} \ {p})
  PROVE  ListsOK([ps EXCEPT ![p] = st], sm, cq, [sq EXCEPT ![s] = list])
<1>. DEFINE qs == [ps EXCEPT ![p] = st]  nq == [sq EXCEPT ![s] = list]
            of(r, z) == {x \in StateIs(r, {"PRWAIT"}) : sm[x] = z}
<1>1. StateIs(qs, {"PRSLEEP", "PRTRECV"}) = StateIs(ps, {"PRSLEEP", "PRTRECV"})
  BY DEF StateIs
<1>2. of(qs, s) = of(ps, s) \ {p}
  BY DEF StateIs
<1>3. \A z \in Sem \ {s} : of(qs, z) = of(ps, z)
  BY DEF StateIs
<1>4. nq \in [Sem -> Seq(Pid)] /\ nq[s] = list /\ \A z \in Sem \ {s} : nq[z] = sq[z]
  BY DEF ListsOK
<1>. HIDE DEF qs, nq
<1>5. \A z \in Sem : Holds(nq[z], of(qs, z))
  BY <1>2, <1>3, <1>4 DEF ListsOK
<1>6. ListsOK(qs, sm, cq, nq)
  BY <1>1, <1>4, <1>5 DEF ListsOK
<1>. QED
  BY <1>6 DEF qs, nq

\* The running process goes to the end of a semaphore's queue (wait.c).
LEMMA JoinsWaiters ==
  ASSUME NEW ps \in [Pid -> States], NEW sm, NEW cq, NEW sq, ListsOK(ps, sm, cq, sq),
         NEW p \in Pid, ps[p] \notin {"PRWAIT", "PRSLEEP", "PRTRECV"}, NEW s \in Sem
  PROVE  ListsOK([ps EXCEPT ![p] = "PRWAIT"], [sm EXCEPT ![p] = s], cq,
                 [sq EXCEPT ![s] = Append(@, p)])
<1>. DEFINE qs == [ps EXCEPT ![p] = "PRWAIT"]  nq == [sq EXCEPT ![s] = Append(@, p)]
            tm == [sm EXCEPT ![p] = s]
            of(r, m, z) == {x \in StateIs(r, {"PRWAIT"}) : m[x] = z}
<1>0. tm \in [Pid -> Sem] /\ sm \in [Pid -> Sem]
  BY DEF ListsOK
<1>1. StateIs(qs, {"PRSLEEP", "PRTRECV"}) = StateIs(ps, {"PRSLEEP", "PRTRECV"})
  BY DEF StateIs
<1>2. of(qs, tm, s) = of(ps, sm, s) \cup {p}
  BY <1>0 DEF StateIs
<1>3. \A z \in Sem \ {s} : of(qs, tm, z) = of(ps, sm, z)
  BY <1>0 DEF StateIs
<1>4. p \notin of(ps, sm, s)
  BY DEF StateIs
<1>5. Append(sq[s], p) \in Seq(Pid) /\ Holds(Append(sq[s], p), of(ps, sm, s) \cup {p})
  BY <1>4, AppendHolds DEF ListsOK
<1>6. /\ nq \in [Sem -> Seq(Pid)] /\ nq[s] = Append(sq[s], p)
      /\ \A z \in Sem \ {s} : nq[z] = sq[z]
  BY <1>5 DEF ListsOK
<1>. HIDE DEF qs, nq, tm
<1>7. \A z \in Sem : Holds(nq[z], of(qs, tm, z))
  BY <1>2, <1>3, <1>5, <1>6 DEF ListsOK
<1>8. ListsOK(qs, tm, cq, nq)
  BY <1>0, <1>1, <1>6, <1>7 DEF ListsOK
<1>. QED
  BY <1>8 DEF qs, nq, tm

\* A change between states that are on no list of the blocked.
LEMMA OtherLists ==
  ASSUME NEW ps \in [Pid -> States], NEW sm, NEW cq, NEW sq, ListsOK(ps, sm, cq, sq),
         NEW p \in Pid, ps[p] \notin {"PRWAIT", "PRSLEEP", "PRTRECV"},
         NEW st \in States \ {"PRWAIT", "PRSLEEP", "PRTRECV"}
  PROVE  ListsOK([ps EXCEPT ![p] = st], sm, cq, sq)
<1>1. StateIs([ps EXCEPT ![p] = st], {"PRSLEEP", "PRTRECV"}) = StateIs(ps, {"PRSLEEP", "PRTRECV"})
  BY DEF StateIs
<1>2. StateIs([ps EXCEPT ![p] = st], {"PRWAIT"}) = StateIs(ps, {"PRWAIT"})
  BY DEF StateIs
<1>. QED
  BY <1>1, <1>2 DEF ListsOK

-------------------------------------------------------------------------------
(***************************************************************************)
(* The clock.                                                              *)
(***************************************************************************)
\* Going to sleep keeps the invariant.
LEMMA SleepForStep ==
  ASSUME IInv, currpid # NULLPROC, NEW k, NEW st \in {"PRSLEEP", "PRTRECV"}, NEW f, FrameOK(f),
         SleepFor(k, st, f), UNCHANGED <<psem, semq, nextproc, pnxtkin>>
  PROVE  IInv'
<1>. DEFINE keys == DeltaKeys(clockq, qkey, currpid, k)
            T == [SetState(Tables, currpid, st) EXCEPT !.qkey = keys]
            ps == [pstate EXCEPT ![currpid] = st]
<1>1. T.pstate = ps /\ T.rdy = rdy
  BY DEF SetState, Tables
<1>2. Resched(T, preempt) /\ clockq' = DeltaList(clockq, qkey, currpid, k) /\ Leave(f)
  BY DEF SleepFor
<1>. HIDE DEF T
<1>3. st \in States \ {"PRREADY", "PRCURR"}
  BY DEF States
<1>4. Dispatched' /\ SameBut(ps, pstate')
  BY <1>1, <1>2, <1>3, BlockNow
<1>5. ListsOK(ps, psem, clockq', semq)
  BY <1>2, TablesQueued, JoinsSleepers
<1>6. ListsOK(pstate', psem', clockq', semq')
  BY <1>4, <1>5, ListsKeep
<1>7. Resumable'
  BY <1>2, LeaveResumable
<1>. QED
  BY <1>4, <1>6, <1>7, BlockedIsListsOKNext DEF IInv

\* The clock, and the processes that sleep.
LEMMA ClockSteps ==
  ASSUME IInv
  PROVE  /\ \A k : Sleep(k) => IInv'
         /\ Tick => IInv'
         /\ WakeupNext => IInv'
         /\ WakeupEnd => IInv'
         /\ Clpreem => IInv'
<1>1. ASSUME NEW k, Sleep(k)
      PROVE  IInv'
  <2>. USE <1>1
  <2>1. currpid # NULLPROC
    BY DEF Sleep, Calling
  <2>2. CASE k = 0
    BY <2>2, ReschedStep, SameResumable DEF Sleep, clockVars, semVars, tableVars
  <2>3. CASE k # 0
    BY <2>1, <2>3, SleepForStep, FrameFacts DEF Sleep, semVars, tableVars
  <2>. QED
    BY <2>2, <2>3
\* The clock interrupt itself moves nobody.
<1>2. ASSUME Tick
      PROVE  IInv'
  <2>. USE <1>2
  <2>1. UNCHANGED <<currpid, pstate, rdy, psem, clockq, semq, nextproc, pnxtkin>>
    BY DEF Tick, clockVars, semVars, tableVars
  <2>2. \E f : FrameOK(f) /\ Leave(f)
    BY FrameFacts DEF Tick
  <2>. QED
    BY <2>1, <2>2, LeaveResumable, QuietStep
<1>3. ASSUME WakeupNext
      PROVE  IInv'
  <2>. USE <1>3
  <2>. DEFINE p == Head(clockq)
  <2>1. clockq # <<>> /\ clockq' = Tail(clockq) /\ Keep(Ready(Tables, p))
    BY DEF WakeupNext, FirstIsDue
  <2>2. UNCHANGED <<psem, semq, frame, nextproc, pnxtkin>>
    BY DEF WakeupNext, semVars, tableVars
  <2>3. /\ p \in Pid /\ p \in StateIs(pstate, {"PRSLEEP", "PRTRECV"}) /\ Tail(clockq) \in Seq(Pid)
        /\ Holds(Tail(clockq), StateIs(pstate, {"PRSLEEP", "PRTRECV"}) \ {p})
    BY <2>1, TablesQueued, TailHolds DEF ListsOK
  <2>. HIDE DEF p
  <2>4. p \in Pid \ {NULLPROC} /\ pstate[p] \in {"PRSLEEP", "PRTRECV"}
    BY <2>3, TablesQueued DEF StateIs
  <2>5. Dispatched' /\ pstate' = [pstate EXCEPT ![p] = "PRREADY"]
    BY <2>1, <2>4, WakeLater
  <2>6. /\ StateIs(pstate', {"PRSLEEP", "PRTRECV"}) = StateIs(pstate, {"PRSLEEP", "PRTRECV"}) \ {p}
        /\ StateIs(pstate', {"PRWAIT"}) = StateIs(pstate, {"PRWAIT"})
    BY <2>4, <2>5, TablesQueued DEF StateIs
  <2>7. ListsOK(pstate', psem', clockq', semq')
    BY <2>1, <2>2, <2>3, <2>6, TablesQueued DEF ListsOK
  <2>. QED
    BY <2>2, <2>5, <2>7, BlockedIsListsOKNext, SameResumable DEF IInv
<1>4. ASSUME WakeupEnd
      PROVE  IInv'
  BY <1>4, ReschedStep, LeaveResumable, FrameFacts DEF WakeupEnd, semVars, tableVars
<1>5. ASSUME Clpreem
      PROVE  IInv'
  <2>. USE <1>5
  <2>. DEFINE ticks == IF preempt > 0 THEN preempt - 1 ELSE 0
  <2>1. Leave(User) /\ UNCHANGED <<psem, clockq, semq, nextproc, pnxtkin>>
    BY DEF Clpreem, clockVars, semVars, tableVars
  <2>2. Resumable'
    BY <2>1, LeaveResumable, FrameFacts
  <2>3. CASE ticks > 0
    BY <2>1, <2>2, <2>3, QuietStep DEF Clpreem
  <2>4. CASE ~(ticks > 0)
    <3>1. Resched(Tables, ticks)
      BY <2>4 DEF Clpreem
    <3>. HIDE DEF ticks
    <3>. QED
      BY <2>1, <2>2, <3>1, ReschedStep
  <2>. QED
    BY <2>3, <2>4
<1>. QED
  BY <1>1, <1>2, <1>3, <1>4, <1>5

-------------------------------------------------------------------------------
(***************************************************************************)
(* Messages.                                                               *)
(***************************************************************************)
\* unsleep() takes p, and nobody else, off the delta list.
LEMMA SendToLists ==
  ASSUME IInv, NEW p \in Int, SendTo(p), UNCHANGED <<psem, semq>>
  PROVE  Dispatched' /\ Blocked'
<1>1. CASE UNCHANGED <<cpuVars, clockVars>>
  <2>1. UNCHANGED <<currpid, pstate, rdy, clockq>>
    BY <1>1 DEF cpuVars, clockVars
  <2>. QED
    BY <2>1 DEF IInv, Dispatched, Blocked, InState, Holds, Contains, NullProcessRunnable
<1>2. CASE Accepts(p) /\ pstate[p] = "PRRECV" /\ ReadyNow(Tables, p) /\ UNCHANGED clockVars
  <2>1. p \in Pid \ {NULLPROC} /\ clockq' = clockq
    BY <1>2, PidFacts DEF Accepts, clockVars
  <2>2. Dispatched' /\ SameBut([pstate EXCEPT ![p] = "PRREADY"], pstate')
    BY <1>2, <2>1, TablesQueued, WakeNow
  <2>3. ListsOK([pstate EXCEPT ![p] = "PRREADY"], psem, clockq, semq)
    BY <1>2, <2>1, TablesQueued, OtherLists DEF States
  <2>4. ListsOK(pstate', psem', clockq', semq')
    BY <2>1, <2>2, <2>3, ListsKeep
  <2>. QED
    BY <2>2, <2>4, BlockedIsListsOKNext
<1>3. CASE /\ Accepts(p) /\ pstate[p] = "PRTRECV" /\ Unsleep(p)
           /\ ReadyNow([Tables EXCEPT !.qkey = UnsleepKeys(p)], p)
  <2>. DEFINE T == [Tables EXCEPT !.qkey = UnsleepKeys(p)]
  <2>1. p \in Pid \ {NULLPROC} /\ clockq' = Dequeue(clockq, p)
    BY <1>3, PidFacts DEF Accepts, Unsleep
  <2>2. T.pstate = pstate /\ T.rdy = rdy /\ ReadyNow(T, p)
    BY <1>3 DEF Tables
  <2>. HIDE DEF T
  <2>3. Queued(T)
    BY <2>2, TablesQueued DEF Queued
  <2>4. Dispatched' /\ SameBut([pstate EXCEPT ![p] = "PRREADY"], pstate')
    BY <1>3, <2>1, <2>2, <2>3, WakeNow
  <2>5. ListsOK([pstate EXCEPT ![p] = "PRREADY"], psem, Dequeue(clockq, p), semq)
    BY <1>3, <2>1, TablesQueued, LeavesSleepers DEF States
  <2>6. ListsOK(pstate', psem', clockq', semq')
    BY <2>1, <2>4, <2>5, ListsKeep
  <2>. QED
    BY <2>4, <2>6, BlockedIsListsOKNext
<1>. QED
  BY <1>1, <1>2, <1>3 DEF SendTo

\* Messages.
LEMMA MessageSteps ==
  ASSUME IInv
  PROVE  /\ \A p \in Pid : Send(p) => IInv'
         /\ Receive => IInv'
         /\ \A k : Recvtim(k) => IInv'
         /\ ReceiveEnd \/ RecvtimEnd \/ Recvclr => IInv'
<1>1. ASSUME NEW p \in Pid, Send(p)
      PROVE  IInv'
  <2>. USE <1>1
  <2>1. p \in Int
    BY NPROCAssumption DEF Pid
  <2>2. SendTo(p) /\ UNCHANGED <<psem, semq, frame, nextproc, pnxtkin>>
    BY DEF Send, semVars
  <2>. QED
    BY <2>1, <2>2, SendToLists, SameResumable DEF IInv
<1>2. ASSUME Receive
      PROVE  IInv'
  <2>. USE <1>2
  <2>1. currpid # NULLPROC /\ UNCHANGED <<clockq, semq>>
    BY DEF Receive, Calling, clockVars, semVars
  <2>2. CASE phasmsg[currpid]
    BY <2>1, <2>2, QuietStep, SameResumable DEF Receive, TakeMessage, cpuVars
  <2>3. CASE ~phasmsg[currpid]
    <3>. DEFINE T == SetState(Tables, currpid, "PRRECV")
    <3>1. /\ Leave(At("receive", 0, 0)) /\ Resched(T, preempt)
          /\ UNCHANGED <<psem, nextproc, pnxtkin>>
      BY <2>3 DEF Receive, tableVars
    <3>2. T.pstate = [pstate EXCEPT ![currpid] = "PRRECV"] /\ T.rdy = rdy
      BY DEF SetState, Tables
    <3>. HIDE DEF T
    <3>3. Dispatched' /\ SameBut([pstate EXCEPT ![currpid] = "PRRECV"], pstate')
      BY <2>1, <3>1, <3>2, BlockNow DEF States
    <3>4. ListsOK([pstate EXCEPT ![currpid] = "PRRECV"], psem, clockq, semq)
      BY TablesQueued, OtherLists DEF States
    <3>5. ListsOK(pstate', psem', clockq', semq')
      BY <2>1, <3>1, <3>3, <3>4, ListsKeep
    <3>. QED
      BY <3>1, <3>3, <3>5, BlockedIsListsOKNext, LeaveResumable, FrameFacts DEF IInv
  <2>. QED
    BY <2>2, <2>3
<1>3. ASSUME NEW k, Recvtim(k)
      PROVE  IInv'
  <2>. USE <1>3
  <2>1. currpid # NULLPROC /\ UNCHANGED semq
    BY DEF Recvtim, Calling, semVars
  <2>2. CASE phasmsg[currpid]
    BY <2>1, <2>2, QuietStep, SameResumable DEF Recvtim, TakeMessage, cpuVars, clockVars
  <2>3. CASE ~phasmsg[currpid]
    BY <2>1, <2>3, SleepForStep, FrameFacts DEF Recvtim, tableVars
  <2>. QED
    BY <2>2, <2>3
<1>4. ASSUME ReceiveEnd \/ RecvtimEnd \/ Recvclr
      PROVE  IInv'
  <2>. USE <1>4
  <2>1. UNCHANGED <<currpid, pstate, rdy, psem, clockq, semq, nextproc, pnxtkin>>
    BY DEF ReceiveEnd, RecvtimEnd, Recvclr, TakeMessage, cpuVars, clockVars, semVars, tableVars
  <2>2. Leave(User) \/ UNCHANGED frame
    BY DEF ReceiveEnd, RecvtimEnd, Recvclr
  <2>. QED
    BY <2>1, <2>2, QuietStep, LeaveResumable, SameResumable, FrameFacts
<1>. QED
  BY <1>1, <1>2, <1>3, <1>4

-------------------------------------------------------------------------------
(***************************************************************************)
(* Semaphores.                                                             *)
(***************************************************************************)
\* The first waiter of a semaphore leaves its queue for the ready list.
LEMMA HeadWakes ==
  ASSUME IInv, NEW s \in Sem, semq[s] # <<>>
  PROVE  /\ Head(semq[s]) \in Pid \ {NULLPROC}
         /\ pstate[Head(semq[s])] = "PRWAIT"
         /\ ListsOK([pstate EXCEPT ![Head(semq[s])] = "PRREADY"], psem, clockq,
                    [semq EXCEPT ![s] = Tail(semq[s])])
<1>. DEFINE p == Head(semq[s])  waiting == {r \in StateIs(pstate, {"PRWAIT"}) : psem[r] = s}
<1>1. semq[s] \in Seq(Pid) /\ Holds(semq[s], waiting)
  BY TablesQueued DEF ListsOK
<1>. HIDE DEF waiting
<1>2. p \in Pid /\ p \in waiting /\ Tail(semq[s]) \in Seq(Pid) /\ Holds(Tail(semq[s]), waiting \ {p})
  BY <1>1, TailHolds
<1>. HIDE DEF p
<1>3. p \in Pid \ {NULLPROC} /\ pstate[p] = "PRWAIT" /\ psem[p] = s
  BY <1>2, TablesQueued DEF waiting, StateIs
<1>. DEFINE rest == Tail(semq[s])
<1>4. rest \in Seq(Pid) /\ Holds(rest, {r \in StateIs(pstate, {"PRWAIT"}) : psem[r] = s} \ {p})
  BY <1>2 DEF waiting
<1>. HIDE DEF rest
<1>5. "PRREADY" \in States \ {"PRWAIT", "PRSLEEP", "PRTRECV"}
  BY DEF States
<1>6. ListsOK([pstate EXCEPT ![p] = "PRREADY"], psem, clockq, [semq EXCEPT ![s] = rest])
  BY ZenonT(30), <1>3, <1>4, <1>5, TablesQueued, LeavesWaiters
<1>. QED
  BY <1>3, <1>6 DEF p, rest

\* The turn of a loop, or a signal: at most the first waiter is woken.
LEMMA CountUpWakes ==
  ASSUME IInv, NEW s \in Sem, CountUp(s)
  PROVE  \/ Woken(s) = EMPTY /\ semq' = semq
         \/ /\ Woken(s) \in Pid \ {NULLPROC} /\ pstate[Woken(s)] = "PRWAIT"
            /\ ListsOK([pstate EXCEPT ![Woken(s)] = "PRREADY"], psem, clockq, semq')
<1>0. semq \in [Sem -> Seq(Pid)]
  BY TablesQueued DEF ListsOK
<1>1. CASE ~(semcnt[s] < 0)
  BY <1>1 DEF CountUp, Woken
<1>2. CASE semcnt[s] < 0 /\ semq[s] = <<>>
  <2>1. semq' = [semq EXCEPT ![s] = semq[s]]
    BY <1>0, <1>2 DEF CountUp, Rest
  <2>. QED
    BY <1>0, <1>2, <2>1 DEF Woken, First
<1>3. CASE semcnt[s] < 0 /\ semq[s] # <<>>
  <2>1. semq' = [semq EXCEPT ![s] = Tail(semq[s])] /\ Woken(s) = Head(semq[s])
    BY <1>0, <1>3 DEF CountUp, Woken, First, Rest
  <2>. QED
    BY <1>3, <2>1, HeadWakes
<1>. QED
  BY <1>1, <1>2, <1>3

\* ready() refuses the EMPTY that getfirst() returns of an empty list.
LEMMA EmptyIsBad == isbadpid(EMPTY)
BY DEF isbadpid, EMPTY

\* Semaphores.
LEMMA SemaphoreSteps ==
  ASSUME IInv
  PROVE  /\ \A s \in Sem : Signal(s) => IInv'
         /\ SignalnNext => IInv'
         /\ SresetNext \/ SdeleteNext => IInv'
         /\ SignalnEnd \/ SresetEnd \/ SdeleteEnd => IInv'
         /\ \A s \in Sem, c \in Int : Signaln(s, c) \/ Sreset(s, c) \/ Sdelete(s) => IInv'
         /\ \A s \in Sem : Wait(s) => IInv'
         /\ \A c : Screate(c) => IInv'
<1>1. ASSUME NEW s \in Sem, Signal(s)
      PROVE  IInv'
  <2>. USE <1>1
  <2>1. CountUp(s) /\ ReadyNow(Tables, Woken(s)) /\ UNCHANGED <<clockq, psem, frame, nextproc, pnxtkin>>
    BY DEF Signal, clockVars, tableVars
  <2>2. CASE Woken(s) = EMPTY /\ semq' = semq
    <3>1. Keep(Tables)
      BY <2>1, <2>2, EmptyIsBad DEF ReadyNow
    <3>2. UNCHANGED <<currpid, pstate, rdy>>
      BY <3>1, TablesQueued DEF Keep
    <3>. QED
      BY <2>1, <2>2, <3>2, QuietStep, SameResumable
  <2>3. CASE /\ Woken(s) \in Pid \ {NULLPROC} /\ pstate[Woken(s)] = "PRWAIT"
             /\ ListsOK([pstate EXCEPT ![Woken(s)] = "PRREADY"], psem, clockq, semq')
    <3>1. Dispatched' /\ SameBut([pstate EXCEPT ![Woken(s)] = "PRREADY"], pstate')
      BY <2>1, <2>3, TablesQueued, WakeNow
    <3>2. ListsOK(pstate', psem', clockq', semq')
      BY <2>1, <2>3, <3>1, ListsKeep
    <3>. QED
      BY <2>1, <3>1, <3>2, BlockedIsListsOKNext, SameResumable DEF IInv
  <2>. QED
    BY <2>1, <2>2, <2>3, CountUpWakes
<1>2. ASSUME SignalnNext
      PROVE  IInv'
  <2>. USE <1>2
  <2>. DEFINE s == frame[currpid].x  n == frame[currpid].n
  <2>1. /\ CountUp(s) /\ Keep(Ready(Tables, Woken(s))) /\ Leave(At("signaln", s, n - 1))
        /\ UNCHANGED <<clockq, psem, nextproc, pnxtkin>>
    BY DEF SignalnNext, clockVars, tableVars
  <2>2. s \in Sem /\ n \in Int
    BY TablesQueued DEF SignalnNext, Running, IInv, Resumable, FrameOK, FrameType
  <2>. HIDE DEF s, n
  <2>3. FrameOK(At("signaln", s, n - 1))
    BY <2>2, FrameFacts
  <2>4. Resumable'
    BY <2>1, <2>3, LeaveResumable
  <2>5. CASE Woken(s) = EMPTY /\ semq' = semq
    <3>1. Keep(Tables)
      BY <2>1, <2>5, EmptyIsBad DEF Ready
    <3>2. UNCHANGED <<currpid, pstate, rdy>>
      BY <3>1, TablesQueued DEF Keep
    <3>. QED
      BY <2>1, <2>4, <2>5, <3>2, QuietStep
  <2>6. CASE /\ Woken(s) \in Pid \ {NULLPROC} /\ pstate[Woken(s)] = "PRWAIT"
             /\ ListsOK([pstate EXCEPT ![Woken(s)] = "PRREADY"], psem, clockq, semq')
    <3>1. Dispatched' /\ pstate' = [pstate EXCEPT ![Woken(s)] = "PRREADY"]
      BY <2>1, <2>6, WakeLater
    <3>. QED
      BY <2>1, <2>4, <2>6, <3>1, BlockedIsListsOKNext DEF IInv
  <2>. QED
    BY <2>1, <2>2, <2>5, <2>6, CountUpWakes
\* One turn of the loops of sreset() and sdelete().
<1>3. ASSUME SresetNext \/ SdeleteNext
      PROVE  IInv'
  <2>. USE <1>3
  <2>. DEFINE s == frame[currpid].x  p == Head(semq[s])
  <2>1. /\ semq[s] # <<>> /\ semq' = [semq EXCEPT ![s] = Tail(semq[s])] /\ Keep(Ready(Tables, p))
        /\ UNCHANGED <<clockq, psem, frame, nextproc, pnxtkin>>
    BY DEF SresetNext, SdeleteNext, clockVars, tableVars
  <2>2. s \in Sem
    BY TablesQueued DEF SresetNext, SdeleteNext, Running, IInv, Resumable, FrameOK
  <2>. HIDE DEF s
  <2>3. /\ p \in Pid \ {NULLPROC} /\ pstate[p] = "PRWAIT"
        /\ ListsOK([pstate EXCEPT ![p] = "PRREADY"], psem, clockq, semq')
    BY <2>1, <2>2, HeadWakes
  <2>. HIDE DEF p
  <2>4. Dispatched' /\ pstate' = [pstate EXCEPT ![p] = "PRREADY"]
    BY <2>1, <2>3, WakeLater
  <2>. QED
    BY <2>1, <2>3, <2>4, BlockedIsListsOKNext, SameResumable DEF IInv
<1>4. ASSUME SignalnEnd \/ SresetEnd \/ SdeleteEnd
      PROVE  IInv'
  <2>. USE <1>4
  <2>1. /\ Resched(Tables, preempt) /\ Leave(User)
        /\ UNCHANGED <<psem, clockq, semq, nextproc, pnxtkin>>
    BY DEF SignalnEnd, SresetEnd, SdeleteEnd, semVars, clockVars, tableVars
  <2>. QED
    BY <2>1, ReschedStep, LeaveResumable, FrameFacts
<1>5. ASSUME NEW s \in Sem, NEW c \in Int, Signaln(s, c) \/ Sreset(s, c) \/ Sdelete(s)
      PROVE  IInv'
  <2>. USE <1>5
  <2>1. UNCHANGED <<currpid, pstate, rdy, psem, clockq, semq, nextproc, pnxtkin>>
    BY DEF Signaln, Sreset, Sdelete, cpuVars, clockVars, semVars, tableVars
  <2>2. UNCHANGED frame \/ \E f : FrameOK(f) /\ Leave(f)
    BY FrameFacts DEF Signaln, Sreset, Sdelete
  <2>. QED
    BY <2>1, <2>2, QuietStep, LeaveResumable, SameResumable
<1>6. ASSUME NEW s \in Sem, Wait(s)
      PROVE  IInv'
  <2>. USE <1>6
  <2>1. currpid # NULLPROC /\ UNCHANGED <<clockq, frame, nextproc, pnxtkin>>
    BY DEF Wait, Calling, clockVars
  <2>2. CASE semcnt[s] > 0
    BY <2>1, <2>2, QuietStep, SameResumable DEF Wait, cpuVars
  <2>3. CASE ~(semcnt[s] > 0)
    <3>. DEFINE T == SetState(Tables, currpid, "PRWAIT")
    <3>1. /\ Resched(T, preempt) /\ psem' = [psem EXCEPT ![currpid] = s]
          /\ semq' = [semq EXCEPT ![s] = Append(@, currpid)]
      BY <2>3 DEF Wait
    <3>2. T.pstate = [pstate EXCEPT ![currpid] = "PRWAIT"] /\ T.rdy = rdy
      BY DEF SetState, Tables
    <3>. HIDE DEF T
    <3>3. Dispatched' /\ SameBut([pstate EXCEPT ![currpid] = "PRWAIT"], pstate')
      BY <2>1, <3>1, <3>2, BlockNow DEF States
    <3>4. ListsOK([pstate EXCEPT ![currpid] = "PRWAIT"], psem', clockq, semq')
      BY <3>1, TablesQueued, JoinsWaiters
    <3>5. ListsOK(pstate', psem', clockq', semq')
      BY <2>1, <3>3, <3>4, ListsKeep
    <3>. QED
      BY <2>1, <3>3, <3>5, BlockedIsListsOKNext, SameResumable DEF IInv
  <2>. QED
    BY <2>2, <2>3
<1>7. ASSUME NEW c, Screate(c)
      PROVE  IInv'
  BY <1>7, QuietStep, SameResumable DEF Screate, cpuVars, clockVars, tableVars
<1>. QED
  BY <1>1, <1>2, <1>3, <1>4, <1>5, <1>6, <1>7

-------------------------------------------------------------------------------
(***************************************************************************)
(* Processes.                                                              *)
(***************************************************************************)
\* newpid() finds a slot that is free, and moves nextproc to another.
LEMMA FoundPid ==
  ASSUME IInv, FreeSlots(nextproc, NPROC, Occupied) # {},
         NEW p, p = FoundSlot(nextproc, NPROC, Occupied)
  PROVE  p \in Pid /\ pstate[p] = "PRFREE" /\ SlotAfter(p, 1, NPROC) \in Pid
<1>1. nextproc \in 0..NPROC - 1 /\ NPROC \in Nat \ {0}
  BY NPROCAssumption DEF IInv, Resumable, Pid
<1>2. p \in Pid /\ SlotAfter(p, 1, NPROC) \in Pid
  BY <1>1, FoundInTable DEF Pid
<1>3. p \notin Occupied
  BY <1>1, FoundIsFree
<1>. QED
  BY <1>2, <1>3 DEF Taken, Occupied

\* A ready process is taken off the ready list, by suspend() or kill().
LEMMA LeavesReady ==
  ASSUME IInv, NEW p \in Pid \ {NULLPROC}, pstate[p] = "PRREADY",
         NEW st \in {"PRSUSP", "PRFREE"}, NEW T, T.pstate = [pstate EXCEPT ![p] = st],
         T.rdy = Dequeue(rdy, p), Keep(T), UNCHANGED <<psem, clockq, semq>>
  PROVE  Dispatched' /\ Blocked'
<1>1. /\ StateIs(T.pstate, {"PRREADY"}) = StateIs(pstate, {"PRREADY"}) \ {p}
      /\ StateIs(T.pstate, {"PRCURR"}) = StateIs(pstate, {"PRCURR"})
      /\ T.pstate \in [Pid -> States] /\ T.pstate[NULLPROC] \in {"PRCURR", "PRREADY"}
  BY TablesQueued DEF StateIs, States
<1>2. rdy \in Seq(Pid) /\ Holds(rdy, StateIs(pstate, {"PRREADY"}))
  BY TablesQueued DEF Queued
<1>3. T.rdy \in Seq(Pid) /\ Holds(T.rdy, StateIs(pstate, {"PRREADY"}) \ {p})
  BY <1>2, DequeueHolds
<1>4. Queued(T)
  BY <1>1, <1>3 DEF Queued
<1>5. Dispatched' /\ pstate' = T.pstate
  BY <1>1, <1>4, TablesQueued, KeepDispatched
<1>6. ListsOK([pstate EXCEPT ![p] = st], psem, clockq, semq)
  BY TablesQueued, OtherLists DEF States
<1>. QED
  BY <1>5, <1>6, BlockedIsListsOKNext

\* The running process suspends or kills itself.
LEMMA LeavesCPU ==
  ASSUME IInv, currpid # NULLPROC, NEW st \in {"PRSUSP", "PRFREE"},
         Resched(SetState(Tables, currpid, st), preempt), UNCHANGED <<psem, clockq, semq>>
  PROVE  Dispatched' /\ Blocked'
<1>. DEFINE T == SetState(Tables, currpid, st)
<1>1. T.pstate = [pstate EXCEPT ![currpid] = st] /\ T.rdy = rdy /\ Resched(T, preempt)
  BY DEF SetState, Tables
<1>. HIDE DEF T
<1>2. st \in States \ {"PRREADY", "PRCURR"}
  BY DEF States
<1>3. Dispatched' /\ SameBut([pstate EXCEPT ![currpid] = st], pstate')
  BY <1>1, <1>2, BlockNow
<1>4. ListsOK([pstate EXCEPT ![currpid] = st], psem, clockq, semq)
  BY TablesQueued, OtherLists DEF States
<1>5. ListsOK(pstate', psem', clockq', semq')
  BY <1>3, <1>4, ListsKeep
<1>. QED
  BY <1>3, <1>5, BlockedIsListsOKNext

\* Processes.
LEMMA ProcessSteps ==
  ASSUME IInv
  PROVE  /\ \A priority : Create(priority) => IInv'
         /\ CreateRefused => IInv'
         /\ \A p \in Pid : Resume(p) => IInv'
         /\ \A p \in Pid : Suspend(p) => IInv'
         /\ \A p : \A k : Chprio(p, k) => IInv'
         /\ \A p \in Pid, nok \in Kins : Setnok(nok, p) => IInv'
         /\ \A p \in Pid : Kill(p) => IInv'
         /\ KillEnd => IInv'
<1>1. ASSUME NEW priority, Create(priority)
      PROVE  IInv'
  <2>. USE <1>1
  <2>. DEFINE p == FoundSlot(nextproc, NPROC, Occupied)
  <2>1. /\ p \in Pid /\ pstate[p] = "PRFREE" /\ SlotAfter(p, 1, NPROC) \in Pid
    BY FoundPid DEF Create
  <2>2. /\ nextproc' = SlotAfter(p, 1, NPROC) /\ pstate' = [pstate EXCEPT ![p] = "PRSUSP"]
        /\ psem' = [psem EXCEPT ![p] = 0] /\ pnxtkin' = [pnxtkin EXCEPT ![p] = BADPID]
        /\ frame' = [frame EXCEPT ![p] = User] /\ UNCHANGED <<currpid, rdy, clockq, semq>>
    BY DEF Create, clockVars, semVars
  <2>. HIDE DEF p
  <2>3. /\ StateIs(pstate', {"PRCURR"}) = {currpid'}
        /\ StateIs(pstate', {"PRREADY"}) = StateIs(pstate, {"PRREADY"})
        /\ StateIs(pstate', {"PRSLEEP", "PRTRECV"}) = StateIs(pstate, {"PRSLEEP", "PRTRECV"})
        /\ StateIs(pstate', {"PRWAIT"}) = StateIs(pstate, {"PRWAIT"})
        /\ pstate' \in [Pid -> States] /\ pstate'[NULLPROC] \in {"PRCURR", "PRREADY"}
    BY <2>1, <2>2, TablesQueued DEF StateIs, States
  <2>4. Dispatched'
    BY <2>2, <2>3 DEF IInv, Dispatched, InState, StateIs, NullProcessRunnable
  <2>5. 0 \in Sem /\ BADPID \in Int
    BY NSEMAssumption DEF Sem, BADPID
  <2>6. \A s \in Sem : {r \in StateIs(pstate, {"PRWAIT"}) : psem[r] = s}
                       = {r \in StateIs(pstate', {"PRWAIT"}) : psem'[r] = s}
    BY <2>1, <2>2, <2>3, TablesQueued DEF StateIs, ListsOK
  <2>7. ListsOK(pstate', psem', clockq', semq')
    BY <2>1, <2>2, <2>3, <2>5, <2>6, TablesQueued DEF ListsOK
  <2>8. Resumable'
    BY <2>1, <2>2, <2>5, FrameFacts DEF IInv, Resumable, FrameOK
  <2>. QED
    BY <2>4, <2>7, <2>8, BlockedIsListsOKNext DEF IInv
<1>2. ASSUME CreateRefused
      PROVE  IInv'
  <2>. USE <1>2
  <2>1. UNCHANGED <<currpid, pstate, rdy, psem, clockq, semq, frame, pnxtkin>>
    BY DEF CreateRefused, cpuVars, clockVars, semVars
  <2>2. nextproc' \in Pid
    BY FoundPid DEF CreateRefused
  <2>3. Resumable'
    BY <2>1, <2>2 DEF IInv, Resumable, FrameOK
  <2>. QED
    BY <2>1, <2>3, QuietStep
<1>3. ASSUME NEW p \in Pid, Resume(p)
      PROVE  IInv'
  <2>. USE <1>3
  <2>1. /\ p \in Pid \ {NULLPROC} /\ pstate[p] = "PRSUSP" /\ ReadyNow(Tables, p)
        /\ UNCHANGED <<psem, clockq, semq, frame, nextproc, pnxtkin>>
    BY PidFacts DEF Resume, clockVars, semVars, tableVars
  <2>2. Dispatched' /\ SameBut([pstate EXCEPT ![p] = "PRREADY"], pstate')
    BY <2>1, TablesQueued, WakeNow
  <2>3. ListsOK([pstate EXCEPT ![p] = "PRREADY"], psem, clockq, semq)
    BY <2>1, TablesQueued, OtherLists DEF States
  <2>4. ListsOK(pstate', psem', clockq', semq')
    BY <2>1, <2>2, <2>3, ListsKeep
  <2>. QED
    BY <2>1, <2>2, <2>4, BlockedIsListsOKNext, SameResumable DEF IInv
<1>4. ASSUME NEW p \in Pid, Suspend(p)
      PROVE  IInv'
  <2>. USE <1>4
  <2>1. p \in Pid \ {NULLPROC} /\ UNCHANGED <<psem, clockq, semq, frame, nextproc, pnxtkin>>
    BY PidFacts DEF Suspend, clockVars, semVars, tableVars
  <2>2. CASE pstate[p] = "PRREADY"
    <3>. DEFINE T == [SetState(Tables, p, "PRSUSP") EXCEPT !.rdy = Dequeue(rdy, p)]
    <3>1. T.pstate = [pstate EXCEPT ![p] = "PRSUSP"] /\ T.rdy = Dequeue(rdy, p)
      BY DEF SetState, Tables
    <3>2. Keep(T)
      BY <2>2 DEF Suspend
    <3>. HIDE DEF T
    <3>. QED
      BY <2>1, <2>2, <3>1, <3>2, LeavesReady, SameResumable DEF IInv
  <2>3. CASE pstate[p] = "PRCURR"
    <3>1. p = currpid
      BY <2>3, TablesQueued DEF StateIs
    <3>2. Resched(SetState(Tables, p, "PRSUSP"), preempt)
      BY <2>3 DEF Suspend
    <3>. QED
      BY <2>1, <3>1, <3>2, LeavesCPU, SameResumable DEF IInv
  <2>. QED
    BY <2>2, <2>3 DEF Suspend
<1>5. ASSUME NEW p, NEW k, Chprio(p, k)
      PROVE  IInv'
  BY <1>5, QuietStep, SameResumable DEF Chprio, cpuVars, clockVars, semVars
<1>6. ASSUME NEW p \in Pid, NEW nok \in Kins, Setnok(nok, p)
      PROVE  IInv'
  <2>. USE <1>6
  <2>1. UNCHANGED <<currpid, pstate, rdy, psem, clockq, semq, frame, nextproc>>
    BY DEF Setnok, cpuVars, clockVars, semVars
  <2>2. nok \in Int
    BY KinsAssumption, NPROCAssumption DEF Pid
  <2>3. Resumable'
    BY <2>1, <2>2 DEF Setnok, IInv, Resumable, FrameOK
  <2>. QED
    BY <2>1, <2>3, QuietStep
<1>7. ASSUME NEW p \in Pid, Kill(p)
      PROVE  IInv'
  <2>. USE <1>7
  <2>1. /\ p \in Pid \ {NULLPROC} /\ SendTo(pnxtkin[p]) /\ Leave(At("kill", p, 0))
        /\ UNCHANGED <<psem, semq, nextproc, pnxtkin>>
    BY PidFacts DEF Kill, semVars
  <2>2. pnxtkin[p] \in Int
    BY DEF IInv, Resumable
  <2>3. Dispatched' /\ Blocked'
    BY <2>1, <2>2, SendToLists
  <2>4. Resumable'
    BY <2>1, FrameFacts, LeaveResumable
  <2>. QED
    BY <2>3, <2>4 DEF IInv
\* The end of kill(), whatever has become of the victim since its start: it
\* may have been killed, created anew, or even be running.
<1>8. ASSUME KillEnd
      PROVE  IInv'
  <2>. USE <1>8
  <2>. DEFINE p == frame[currpid].x  freed == SetState(Tables, p, "PRFREE")
              ps == [pstate EXCEPT ![p] = "PRFREE"]
  <2>1. p \in Pid \ {NULLPROC}
    BY TablesQueued DEF KillEnd, Running, IInv, Resumable, FrameOK
  <2>2. Leave(User) /\ UNCHANGED <<psem, nextproc, pnxtkin>>
    BY DEF KillEnd, tableVars
  <2>3. Resumable'
    BY <2>2, FrameFacts, LeaveResumable
  <2>4. freed.pstate = ps /\ freed.rdy = rdy
    BY DEF SetState, Tables
  <2>5. CASE pstate[p] = "PRCURR"
    <3>1. p = currpid
      BY <2>1, <2>5, TablesQueued DEF StateIs
    <3>2. Resched(SetState(Tables, currpid, "PRFREE"), preempt) /\ UNCHANGED <<clockq, semq>>
      BY <2>5, <3>1 DEF KillEnd, clockVars
    <3>3. currpid # NULLPROC
      BY <2>1, <3>1
    <3>. HIDE DEF p, freed, ps
    <3>. QED
      BY <2>2, <2>3, <3>2, <3>3, LeavesCPU DEF IInv
  <2>6. CASE pstate[p] = "PRWAIT"
    <3>. DEFINE s == psem[p]  list == Dequeue(semq[s], p)
                waiting == {r \in StateIs(pstate, {"PRWAIT"}) : psem[r] = s}
    <3>1. Keep(freed) /\ clockq' = clockq /\ semq' = [semq EXCEPT ![s] = Dequeue(@, p)]
      BY <2>6 DEF KillEnd, clockVars
    <3>2. s \in Sem /\ semq[s] \in Seq(Pid) /\ Holds(semq[s], waiting) /\ semq \in [Sem -> Seq(Pid)]
      BY <2>1, TablesQueued DEF ListsOK
    <3>3. semq' = [semq EXCEPT ![s] = list]
      BY <3>1, <3>2
    <3>. HIDE DEF p, freed, ps
    <3>4. list \in Seq(Pid) /\ Holds(list, waiting \ {p})
      BY <2>1, <3>2, DequeueHolds
    <3>. HIDE DEF list
    <3>5. ListsOK(ps, psem, clockq, semq')
      <4>1. "PRFREE" \in States \ {"PRWAIT", "PRSLEEP", "PRTRECV"}
        BY DEF States
      <4>. QED
        BY <2>1, <2>6, <3>2, <3>3, <3>4, <4>1, TablesQueued, LeavesWaiters DEF ps
    <3>6. Queued(freed)
      <4>1. /\ Queued(Tables) /\ Tables.pstate[p] # "PRREADY"
            /\ freed.pstate = [Tables.pstate EXCEPT ![p] = "PRFREE"] /\ freed.rdy = Tables.rdy
            /\ "PRFREE" \in States \ {"PRREADY", "PRCURR"}
        BY <2>4, <2>6, TablesQueued DEF ps, States
      <4>. QED
        BY <2>1, <4>1, SetStateQueued
    <3>7. StateIs(freed.pstate, {"PRCURR"}) = {currpid}
      BY <2>1, <2>4, <2>6, TablesQueued DEF StateIs, ps
    <3>8. Dispatched' /\ pstate' = ps
      BY <2>4, <3>1, <3>6, <3>7, TablesQueued, KeepDispatched
    <3>. QED
      BY <2>2, <2>3, <3>1, <3>5, <3>8, BlockedIsListsOKNext DEF IInv
  <2>7. CASE pstate[p] = "PRREADY"
    <3>. DEFINE T == [freed EXCEPT !.rdy = Dequeue(@, p)]
    <3>1. T.pstate = ps /\ T.rdy = Dequeue(rdy, p)
      BY DEF SetState, Tables
    <3>2. Keep(T) /\ UNCHANGED <<clockq, semq>>
      BY <2>7 DEF KillEnd, clockVars
    <3>. HIDE DEF T, p, freed
    <3>. QED
      BY <2>1, <2>2, <2>3, <2>7, <3>1, <3>2, LeavesReady DEF IInv
  <2>8. CASE pstate[p] \in {"PRSLEEP", "PRTRECV", "PRSUSP", "PRRECV", "PRFREE"}
    <3>. DEFINE T == IF pstate[p] \in {"PRSLEEP", "PRTRECV"}
                     THEN [freed EXCEPT !.qkey = UnsleepKeys(p)] ELSE freed
    <3>1. T.pstate = ps /\ T.rdy = rdy
      BY DEF SetState, Tables
    <3>2. /\ Keep(T) /\ UNCHANGED semq
          /\ clockq' = IF pstate[p] \in {"PRSLEEP", "PRTRECV"} THEN Dequeue(clockq, p) ELSE clockq
      BY <2>8 DEF KillEnd, clockVars, Unsleep
    <3>. HIDE DEF T, p, freed, ps
    <3>3. Queued(T)
      <4>1. /\ Queued(Tables) /\ Tables.pstate[p] # "PRREADY"
            /\ T.pstate = [Tables.pstate EXCEPT ![p] = "PRFREE"] /\ T.rdy = Tables.rdy
            /\ "PRFREE" \in States \ {"PRREADY", "PRCURR"}
        BY <2>8, <3>1, TablesQueued DEF ps, States
      <4>. QED
        BY <2>1, <4>1, SetStateQueued
    <3>4. StateIs(T.pstate, {"PRCURR"}) = {currpid}
      BY <2>1, <2>8, <3>1, TablesQueued DEF StateIs, ps
    <3>5. Dispatched' /\ pstate' = ps
      BY <3>1, <3>2, <3>3, <3>4, TablesQueued, KeepDispatched
    <3>6. ListsOK(ps, psem, clockq', semq)
      <4>1. "PRFREE" \in States \ {"PRWAIT", "PRSLEEP", "PRTRECV"}
        BY DEF States
      <4>2. CASE pstate[p] \in {"PRSLEEP", "PRTRECV"}
        BY <2>1, <3>2, <4>1, <4>2, TablesQueued, LeavesSleepers DEF ps
      <4>3. CASE pstate[p] \notin {"PRSLEEP", "PRTRECV"}
        BY <2>1, <2>8, <3>2, <4>1, <4>3, TablesQueued, OtherLists DEF ps
      <4>. QED
        BY <4>2, <4>3
    <3>. QED
      BY <2>2, <2>3, <3>2, <3>5, <3>6, BlockedIsListsOKNext DEF IInv
  <2>. QED
    BY <2>1, <2>5, <2>6, <2>7, <2>8, TablesQueued DEF States
<1>. QED
  BY <1>1, <1>2, <1>3, <1>4, <1>5, <1>6, <1>7, <1>8

-------------------------------------------------------------------------------
(***************************************************************************)
(* The invariant.                                                          *)
(***************************************************************************)
\* The state main() starts in satisfies the invariant (initialize.c).
LEMMA InitIInv == Init => IInv
<1>. SUFFICES ASSUME Init PROVE IInv
  OBVIOUS
<1>1. Main \in Pid \ {NULLPROC} /\ NULLPROC \in Pid /\ nextproc \in Pid
  BY NPROCAssumption, NBORNAssumption DEF Init, Main, Pid, NULLPROC
<1>2. /\ currpid = Main /\ rdy = <<NULLPROC>> /\ clockq = <<>>
      /\ pstate = [p \in Pid |-> IF p = Main THEN "PRCURR"
                                 ELSE IF p = NULLPROC THEN "PRREADY"
                                 ELSE IF p \in Born THEN "PRSUSP" ELSE "PRFREE"]
      /\ semq = [s \in Sem |-> <<>>] /\ psem = [p \in Pid |-> 0]
      /\ frame = [p \in Pid |-> User]
      /\ pnxtkin = [p \in Pid |-> IF p \in Born \cup {Main} THEN BADPID ELSE 0]
  BY DEF Init
<1>3. /\ pstate \in [Pid -> States]
      /\ StateIs(pstate, {"PRCURR"}) = {Main} /\ StateIs(pstate, {"PRREADY"}) = {NULLPROC}
      /\ StateIs(pstate, {"PRSLEEP", "PRTRECV"}) = {} /\ StateIs(pstate, {"PRWAIT"}) = {}
  BY <1>1, <1>2 DEF StateIs, States
<1>4. rdy \in Seq(Pid) /\ Len(rdy) = 1 /\ rdy[1] = NULLPROC
  BY <1>1, <1>2
<1>5. Holds(rdy, {NULLPROC})
  BY <1>4 DEF Holds, Contains
<1>6. Dispatched
  BY <1>1, <1>2, <1>3, <1>4, <1>5 DEF Dispatched, InState, StateIs, NullProcessRunnable
<1>7. <<>> \in Seq(Pid) /\ Holds(<<>>, {})
  BY DEF Holds, Contains
<1>8. 0 \in Sem /\ BADPID \in Int
  BY NSEMAssumption DEF Sem, BADPID
<1>9. ListsOK(pstate, psem, clockq, semq)
  BY <1>2, <1>3, <1>7, <1>8 DEF ListsOK
<1>10. Resumable
  BY <1>1, <1>2, <1>8, FrameFacts DEF Resumable, FrameOK
<1>. QED
  BY <1>6, <1>9, <1>10, BlockedIsListsOK DEF IInv

\* Every step keeps it.
LEMMA NextIInv == IInv /\ [Next]_vars => IInv'
<1>. SUFFICES ASSUME IInv, [Next]_vars PROVE IInv'
  OBVIOUS
<1>1. CASE UNCHANGED vars
  BY <1>1, QuietStep, SameResumable
     DEF vars, cpuVars, clockVars, semVars, tableVars
<1>2. CASE ProcessCall
  BY <1>2, ProcessSteps
     DEF ProcessCall
<1>3. CASE SemaphoreCall
  BY <1>3, SemaphoreSteps, CountsAssumption DEF SemaphoreCall
<1>4. CASE MessageCall
  BY <1>4, MessageSteps DEF MessageCall
<1>5. CASE SleepCall
  BY <1>5, ClockSteps DEF SleepCall
<1>6. CASE Tick
  BY <1>6, ClockSteps
<1>7. CASE Continue
  BY <1>7, ProcessSteps, SemaphoreSteps, MessageSteps, ClockSteps DEF Continue
<1>. QED
  BY <1>1, <1>2, <1>3, <1>4, <1>5, <1>6, <1>7 DEF Next

\* Each list holds, at all times and for tables of any size, exactly the
\* processes whose pstate names it, each once (queue.c, and every system call).
THEOREM QueuesAlwaysMatchStates == Spec => []QueuesMatchStates
<1>1. IInv => QueuesMatchStates
  BY DEF IInv, Dispatched, Blocked, QueuesMatchStates
<1>. QED
  BY <1>1, InitIInv, NextIInv, PTL DEF Spec

\* resched() never takes a process from an empty ready list: the null process
\* is on it or running (resched.c:167).
THEOREM NullProcessAlwaysRunnable == Spec => []NullProcessRunnable
<1>1. IInv => NullProcessRunnable
  BY DEF IInv, Dispatched
<1>. QED
  BY <1>1, InitIInv, NextIInv, PTL DEF Spec

-------------------------------------------------------------------------------
(***************************************************************************)
(* Each step moves at most one process from one state to another; beside   *)
(* that it may give the CPU to another.                                    *)
(***************************************************************************)
Stays == SameBut(pstate, pstate')
Moves(p, st) == SameBut([pstate EXCEPT ![p] = st], pstate')

\* What is left after p has moved.
LEMMA MovesFacts ==
  ASSUME pstate \in [Pid -> States], NEW p \in Pid, NEW st, Moves(p, st), NEW r \in Pid
  PROVE  /\ r # p => pstate'[r] = pstate[r] \/ {pstate[r], pstate'[r]} \subseteq {"PRCURR", "PRREADY"}
         /\ r = p => pstate'[r] = st \/ {st, pstate'[r]} \subseteq {"PRCURR", "PRREADY"}
BY DEF Moves, SameBut

\* A step that moves nobody at all.
LEMMA StaysIfSame == pstate' = pstate => Stays
BY DEF Stays, SameBut

\* resched() by itself moves nobody.
LEMMA ReschedStays ==
  ASSUME IInv, NEW ticks, Resched(Tables, ticks)
  PROVE  Stays
BY TablesQueued, ReschedDispatched DEF Stays

\* Nor does ready() without a process.
LEMMA KeepStays ==
  ASSUME Keep(Tables)
  PROVE  pstate' = pstate /\ rdy' = rdy /\ qkey' = qkey /\ currpid' = currpid
BY DEF Keep, Tables

\* The running process blocks or ends.
LEMMA BlockMoves ==
  ASSUME IInv, currpid # NULLPROC, NEW st \in States \ {"PRREADY", "PRCURR"}, NEW ticks,
         NEW T, T.pstate = [pstate EXCEPT ![currpid] = st], T.rdy = rdy, Resched(T, ticks)
  PROVE  Moves(currpid, st)
BY BlockNow DEF Moves

\* The state it blocks in is set in the tables.
LEMMA SetStateFields ==
  ASSUME NEW p, NEW st
  PROVE  /\ SetState(Tables, p, st).pstate = [pstate EXCEPT ![p] = st]
         /\ SetState(Tables, p, st).rdy = rdy
         /\ SetState(Tables, p, st).qkey = qkey
BY DEF SetState, Tables

\* Messages and sleeps.
LEMMA SleepForMoves ==
  ASSUME IInv, currpid # NULLPROC, NEW k, NEW st \in {"PRSLEEP", "PRTRECV"}, NEW f, SleepFor(k, st, f)
  PROVE  Moves(currpid, st)
<1>. DEFINE T == [SetState(Tables, currpid, st) EXCEPT !.qkey = DeltaKeys(clockq, qkey, currpid, k)]
<1>1. T.pstate = [pstate EXCEPT ![currpid] = st] /\ T.rdy = rdy
  BY DEF SetState, Tables
<1>2. Resched(T, preempt)
  BY DEF SleepFor
<1>. HIDE DEF T
<1>. QED
  BY <1>1, <1>2, BlockMoves DEF States

\* send() starts a process that waits for a message, and nobody else.
LEMMA SendToMoves ==
  ASSUME IInv, NEW p \in Int, SendTo(p)
  PROVE  \/ Stays /\ (Accepts(p) => pstate[p] \notin {"PRRECV", "PRTRECV"})
         \/ /\ p \in Pid \ {NULLPROC} /\ Accepts(p) /\ pstate[p] \in {"PRRECV", "PRTRECV"}
            /\ Moves(p, "PRREADY")
<1>1. CASE UNCHANGED cpuVars /\ (Accepts(p) => pstate[p] \notin {"PRRECV", "PRTRECV"})
  BY <1>1, StaysIfSame DEF cpuVars
<1>2. CASE Accepts(p) /\ pstate[p] = "PRRECV" /\ ReadyNow(Tables, p)
  <2>1. p \in Pid \ {NULLPROC}
    BY <1>2, PidFacts DEF Accepts
  <2>. QED
    BY <1>2, <2>1, TablesQueued, WakeNow DEF Moves
<1>3. CASE /\ Accepts(p) /\ pstate[p] = "PRTRECV"
           /\ ReadyNow([Tables EXCEPT !.qkey = UnsleepKeys(p)], p)
  <2>. DEFINE T == [Tables EXCEPT !.qkey = UnsleepKeys(p)]
  <2>1. p \in Pid \ {NULLPROC}
    BY <1>3, PidFacts DEF Accepts
  <2>2. T.pstate = pstate /\ T.rdy = rdy /\ ReadyNow(T, p)
    BY <1>3 DEF Tables
  <2>. HIDE DEF T
  <2>3. Queued(T)
    BY <2>2, TablesQueued DEF Queued
  <2>. QED
    BY <1>3, <2>1, <2>2, <2>3, WakeNow DEF Moves
<1>. QED
  BY <1>1, <1>2, <1>3 DEF SendTo

\* send(), receive(), recvtim(): who waits, and who no longer does.
LEMMA MessageMoves ==
  ASSUME IInv
  PROVE  /\ Receive => IF phasmsg[currpid] THEN Stays ELSE Moves(currpid, "PRRECV")
         /\ \A k : Recvtim(k) => IF phasmsg[currpid] THEN Stays ELSE Moves(currpid, "PRTRECV")
         /\ ReceiveEnd \/ RecvtimEnd \/ Recvclr => Stays
<1>1. ASSUME Receive, ~phasmsg[currpid]
      PROVE  Moves(currpid, "PRRECV")
  BY <1>1, SetStateFields, BlockMoves DEF Receive, Calling, States
<1>2. ASSUME NEW k, Recvtim(k), ~phasmsg[currpid]
      PROVE  Moves(currpid, "PRTRECV")
  BY <1>2, SleepForMoves DEF Recvtim, Calling
<1>3. ASSUME \/ Receive /\ phasmsg[currpid]
             \/ (\E k : Recvtim(k)) /\ phasmsg[currpid]
             \/ ReceiveEnd \/ RecvtimEnd \/ Recvclr
      PROVE  Stays
  BY <1>3, StaysIfSame DEF Receive, Recvtim, ReceiveEnd, RecvtimEnd, Recvclr, cpuVars
<1>. QED
  BY <1>1, <1>2, <1>3

\* The clock: a sleeper that is due is made ready.
LEMMA ClockMoves ==
  ASSUME IInv
  PROVE  /\ \A k : Sleep(k) => IF k = 0 THEN Stays ELSE Moves(currpid, "PRSLEEP")
         /\ Tick \/ WakeupEnd \/ Clpreem => Stays
         /\ WakeupNext => /\ Head(clockq) \in Pid \ {NULLPROC}
                          /\ pstate[Head(clockq)] \in {"PRSLEEP", "PRTRECV"}
                          /\ Moves(Head(clockq), "PRREADY")
                          /\ UNCHANGED currpid
<1>1. ASSUME NEW k, Sleep(k)
      PROVE  IF k = 0 THEN Stays ELSE Moves(currpid, "PRSLEEP")
  BY <1>1, ReschedStays, SleepForMoves DEF Sleep, Calling
<1>2. ASSUME Tick \/ WakeupEnd
      PROVE  Stays
  BY <1>2, ReschedStays, StaysIfSame DEF Tick, WakeupEnd
<1>3. ASSUME Clpreem
      PROVE  Stays
  <2>1. \/ UNCHANGED pstate
        \/ \E ticks : Resched(Tables, ticks)
    BY <1>3 DEF Clpreem
  <2>. QED
    BY <2>1, ReschedStays, StaysIfSame
<1>4. ASSUME WakeupNext
      PROVE  /\ Head(clockq) \in Pid \ {NULLPROC}
             /\ pstate[Head(clockq)] \in {"PRSLEEP", "PRTRECV"}
             /\ Moves(Head(clockq), "PRREADY")
             /\ UNCHANGED currpid
  <2>1. clockq # <<>> /\ Keep(Ready(Tables, Head(clockq)))
    BY <1>4 DEF WakeupNext, FirstIsDue
  <2>2. Head(clockq) \in Pid /\ Head(clockq) \in StateIs(pstate, {"PRSLEEP", "PRTRECV"})
    BY <2>1, TablesQueued, TailHolds DEF ListsOK
  <2>3. Head(clockq) \in Pid \ {NULLPROC} /\ pstate[Head(clockq)] \in {"PRSLEEP", "PRTRECV"}
    BY <2>2, TablesQueued DEF StateIs
  <2>4. pstate' = [pstate EXCEPT ![Head(clockq)] = "PRREADY"]
    BY <2>1, <2>3, WakeLater
  <2>. QED
    BY <2>1, <2>3, <2>4 DEF Moves, SameBut, Keep
<1>. QED
  BY <1>1, <1>2, <1>3, <1>4

\* One signal wakes the head of the queue, or nobody.
LEMMA WokenIsHead ==
  ASSUME IInv, NEW s \in Sem
  PROVE  \/ Woken(s) = EMPTY /\ (semcnt[s] < 0 => semq[s] = <<>>)
         \/ /\ semcnt[s] < 0 /\ semq[s] # <<>> /\ Woken(s) = Head(semq[s])
            /\ Woken(s) \in Pid \ {NULLPROC} /\ pstate[Woken(s)] = "PRWAIT"
<1>1. CASE ~(semcnt[s] < 0) \/ semq[s] = <<>>
  BY <1>1 DEF Woken, First
<1>2. CASE semcnt[s] < 0 /\ semq[s] # <<>>
  BY <1>2, HeadWakes DEF Woken, First
<1>. QED
  BY <1>1, <1>2

\* Semaphores: one that waits, and one that no longer does.
LEMMA SemaphoreMoves ==
  ASSUME IInv
  PROVE  /\ \A s \in Sem : Wait(s) =>
              /\ semcnt[s] > 0 => pstate' = pstate
              /\ ~(semcnt[s] > 0) => Moves(currpid, "PRWAIT")
         /\ \A s \in Sem : Signal(s) =>
              /\ Woken(s) = EMPTY => pstate' = pstate
              /\ Woken(s) # EMPTY => Moves(Woken(s), "PRREADY")
         /\ SignalnNext => \A s : s = frame[currpid].x =>
              /\ s \in Sem
              /\ Woken(s) = EMPTY => pstate' = pstate
              /\ Woken(s) # EMPTY => pstate' = [pstate EXCEPT ![Woken(s)] = "PRREADY"]
         /\ SresetNext \/ SdeleteNext => \A s, p : s = frame[currpid].x /\ p = Head(semq[s]) =>
              /\ s \in Sem /\ semq[s] # <<>>
              /\ p \in Pid \ {NULLPROC} /\ pstate[p] = "PRWAIT"
              /\ pstate' = [pstate EXCEPT ![p] = "PRREADY"]
         /\ SignalnEnd \/ SresetEnd \/ SdeleteEnd => Stays
         /\ \A s : \A c : Signaln(s, c) \/ Sreset(s, c) \/ Sdelete(s) \/ Screate(c) => pstate' = pstate
<1>1. ASSUME NEW s \in Sem, Wait(s), semcnt[s] > 0
      PROVE  pstate' = pstate
  BY <1>1 DEF Wait, cpuVars
<1>2. ASSUME NEW s \in Sem, Wait(s), ~(semcnt[s] > 0)
      PROVE  Moves(currpid, "PRWAIT")
  <2>1. currpid # NULLPROC /\ Resched(SetState(Tables, currpid, "PRWAIT"), preempt)
    BY <1>2 DEF Wait, Calling
  <2>. QED
    BY <2>1, SetStateFields, BlockMoves DEF States
<1>3. ASSUME NEW s \in Sem, Signal(s)
      PROVE  /\ Woken(s) = EMPTY => pstate' = pstate
             /\ Woken(s) # EMPTY => Moves(Woken(s), "PRREADY")
  <2>1. ReadyNow(Tables, Woken(s))
    BY <1>3 DEF Signal
  <2>2. ASSUME Woken(s) = EMPTY PROVE pstate' = pstate
    BY <2>1, <2>2, EmptyIsBad, KeepStays DEF ReadyNow
  <2>3. ASSUME Woken(s) # EMPTY PROVE Moves(Woken(s), "PRREADY")
    BY <2>1, <2>3, WokenIsHead, TablesQueued, WakeNow DEF Moves
  <2>. QED
    BY <2>2, <2>3
<1>4. ASSUME SignalnNext, NEW s, s = frame[currpid].x
      PROVE  /\ s \in Sem
             /\ Woken(s) = EMPTY => pstate' = pstate
             /\ Woken(s) # EMPTY => pstate' = [pstate EXCEPT ![Woken(s)] = "PRREADY"]
  <2>1. Keep(Ready(Tables, Woken(s))) /\ s \in Sem
    BY <1>4, TablesQueued DEF SignalnNext, Running, IInv, Resumable, FrameOK
  <2>2. ASSUME Woken(s) = EMPTY PROVE pstate' = pstate
    BY <2>1, <2>2, EmptyIsBad, KeepStays DEF Ready
  <2>3. ASSUME Woken(s) # EMPTY PROVE pstate' = [pstate EXCEPT ![Woken(s)] = "PRREADY"]
    <3>1. Woken(s) \in Pid \ {NULLPROC} /\ pstate[Woken(s)] = "PRWAIT"
      BY <2>1, <2>3, WokenIsHead
    <3>. QED
      BY <2>1, <3>1, WakeLater
  <2>. QED
    BY <2>1, <2>2, <2>3
<1>5. ASSUME SresetNext \/ SdeleteNext, NEW s, NEW p, s = frame[currpid].x, p = Head(semq[s])
      PROVE  /\ s \in Sem /\ semq[s] # <<>>
             /\ p \in Pid \ {NULLPROC} /\ pstate[p] = "PRWAIT"
             /\ pstate' = [pstate EXCEPT ![p] = "PRREADY"]
  <2>1. Keep(Ready(Tables, p)) /\ s \in Sem /\ semq[s] # <<>>
    BY <1>5, TablesQueued DEF SresetNext, SdeleteNext, Running, IInv, Resumable, FrameOK
  <2>2. p \in Pid \ {NULLPROC} /\ pstate[p] = "PRWAIT"
    BY <1>5, <2>1, HeadWakes
  <2>3. pstate' = [pstate EXCEPT ![p] = "PRREADY"]
    BY <2>1, <2>2, WakeLater
  <2>. QED
    BY <2>1, <2>2, <2>3
<1>6. ASSUME SignalnEnd \/ SresetEnd \/ SdeleteEnd
      PROVE  Stays
  BY <1>6, ReschedStays DEF SignalnEnd, SresetEnd, SdeleteEnd
<1>7. ASSUME NEW s, NEW c, Signaln(s, c) \/ Sreset(s, c) \/ Sdelete(s) \/ Screate(c)
      PROVE  pstate' = pstate
  BY <1>7 DEF Signaln, Sreset, Sdelete, Screate, cpuVars
<1>. QED
  BY <1>1, <1>2, <1>3, <1>4, <1>5, <1>6, <1>7

\* Processes: created, resumed, suspended, killed.
LEMMA ProcessMoves ==
  ASSUME IInv
  PROVE  /\ \A k : Create(k) =>
              \E p \in Pid \ {NULLPROC, currpid} :
                /\ pstate[p] = "PRFREE" /\ pstate' = [pstate EXCEPT ![p] = "PRSUSP"]
                /\ frame' = [frame EXCEPT ![p] = User]
                /\ pprio' = [pprio EXCEPT ![p] = k] /\ psem' = [psem EXCEPT ![p] = 0]
                /\ phasmsg' = [phasmsg EXCEPT ![p] = FALSE] /\ nextproc' \in Pid
                /\ pnxtkin' = [pnxtkin EXCEPT ![p] = BADPID]
         /\ CreateRefused => pstate' = pstate
         /\ \A p : \A k : Chprio(p, k) \/ Setnok(k, p) => pstate' = pstate
         /\ \A p \in Pid : Resume(p) => p # NULLPROC /\ pstate[p] = "PRSUSP" /\ Moves(p, "PRREADY")
         /\ \A p \in Pid : Suspend(p) =>
              p # NULLPROC /\ pstate[p] \in {"PRREADY", "PRCURR"} /\ Moves(p, "PRSUSP")
         /\ KillEnd => frame[currpid].x \in Pid \ {NULLPROC} /\ Moves(frame[currpid].x, "PRFREE")
<1>1. ASSUME NEW k, Create(k)
      PROVE  \E p \in Pid \ {NULLPROC, currpid} :
               /\ pstate[p] = "PRFREE" /\ pstate' = [pstate EXCEPT ![p] = "PRSUSP"]
               /\ frame' = [frame EXCEPT ![p] = User]
               /\ pprio' = [pprio EXCEPT ![p] = k] /\ psem' = [psem EXCEPT ![p] = 0]
               /\ phasmsg' = [phasmsg EXCEPT ![p] = FALSE] /\ nextproc' \in Pid
               /\ pnxtkin' = [pnxtkin EXCEPT ![p] = BADPID]
  <2>. DEFINE p == FoundSlot(nextproc, NPROC, Occupied)
  <2>1. p \in Pid /\ pstate[p] = "PRFREE" /\ SlotAfter(p, 1, NPROC) \in Pid
    BY <1>1, FoundPid DEF Create
  <2>2. p # NULLPROC /\ p # currpid
    BY <2>1, TablesQueued
  <2>3. /\ pstate' = [pstate EXCEPT ![p] = "PRSUSP"] /\ frame' = [frame EXCEPT ![p] = User]
        /\ pprio' = [pprio EXCEPT ![p] = k] /\ psem' = [psem EXCEPT ![p] = 0]
        /\ phasmsg' = [phasmsg EXCEPT ![p] = FALSE] /\ nextproc' = SlotAfter(p, 1, NPROC)
        /\ pnxtkin' = [pnxtkin EXCEPT ![p] = BADPID]
    BY <1>1 DEF Create
  <2>. HIDE DEF p
  <2>. QED
    BY <2>1, <2>2, <2>3
<1>2. ASSUME NEW p, NEW k, CreateRefused \/ Chprio(p, k) \/ Setnok(k, p)
      PROVE  pstate' = pstate
  BY <1>2 DEF CreateRefused, Chprio, Setnok, cpuVars
<1>3. ASSUME NEW p \in Pid, Resume(p)
      PROVE  p # NULLPROC /\ pstate[p] = "PRSUSP" /\ Moves(p, "PRREADY")
  <2>1. p \in Pid \ {NULLPROC} /\ pstate[p] = "PRSUSP" /\ ReadyNow(Tables, p)
    BY <1>3, PidFacts DEF Resume
  <2>. QED
    BY <2>1, TablesQueued, WakeNow DEF Moves
<1>4. ASSUME NEW p \in Pid, Suspend(p)
      PROVE  p # NULLPROC /\ pstate[p] \in {"PRREADY", "PRCURR"} /\ Moves(p, "PRSUSP")
  <2>1. p \in Pid \ {NULLPROC} /\ pstate[p] \in {"PRREADY", "PRCURR"}
    BY <1>4, PidFacts DEF Suspend
  <2>2. CASE pstate[p] = "PRREADY"
    <3>1. pstate' = [pstate EXCEPT ![p] = "PRSUSP"]
      BY <1>4, <2>2 DEF Suspend, Keep, SetState, Tables
    <3>. QED
      BY <2>1, <3>1 DEF Moves, SameBut
  <2>3. CASE pstate[p] = "PRCURR"
    <3>1. p = currpid /\ Resched(SetState(Tables, p, "PRSUSP"), preempt)
      BY <1>4, <2>3, TablesQueued DEF Suspend, StateIs
    <3>. QED
      BY <2>1, <3>1, SetStateFields, BlockMoves DEF States
  <2>. QED
    BY <2>1, <2>2, <2>3
<1>5. ASSUME KillEnd
      PROVE  /\ frame[currpid].x \in Pid \ {NULLPROC}
             /\ Moves(frame[currpid].x, "PRFREE")
  <2>. DEFINE p == frame[currpid].x  freed == SetState(Tables, p, "PRFREE")
              ps == [pstate EXCEPT ![p] = "PRFREE"]
  <2>1. p \in Pid \ {NULLPROC}
    BY <1>5, TablesQueued DEF KillEnd, Running, IInv, Resumable, FrameOK
  <2>2. CASE pstate[p] = "PRCURR"
    <3>1. p = currpid /\ Resched(freed, preempt)
      BY <1>5, <2>1, <2>2, TablesQueued DEF KillEnd, StateIs
    <3>. HIDE DEF p
    <3>2. Resched(SetState(Tables, currpid, "PRFREE"), preempt) /\ currpid # NULLPROC
      BY <2>1, <3>1
    <3>3. Moves(currpid, "PRFREE")
      BY <3>2, SetStateFields, BlockMoves DEF States
    <3>. QED
      BY <2>1, <3>1, <3>3 DEF p
  <2>3. CASE pstate[p] # "PRCURR"
    <3>1. freed.pstate = ps
      BY SetStateFields
    <3>. HIDE DEF p, freed, ps
    <3>2. pstate' = freed.pstate
      BY <1>5, <2>3 DEF KillEnd, Keep, p, freed
    <3>. QED
      BY <2>1, <3>1, <3>2 DEF Moves, SameBut, p, ps
  <2>. QED
    BY <2>2, <2>3
<1>. QED
  BY <1>1, <1>2, <1>3, <1>4, <1>5

-------------------------------------------------------------------------------
(***************************************************************************)
(* Messages: receive() never returns without one (receive.c:24).           *)
(***************************************************************************)
Mailboxes == phasmsg \in [Pid -> BOOLEAN] /\ ReceiverFindsMessage

\* Who is in receive() has its message and its state as before.
LEMMA MailKept ==
  ASSUME Mailboxes, phasmsg' \in [Pid -> BOOLEAN],
         \A r \in Pid : frame'[r].at = "receive" /\ pstate'[r] # "PRFREE" =>
           /\ frame[r].at = "receive" /\ pstate[r] # "PRFREE" /\ phasmsg'[r] = phasmsg[r]
           /\ pstate'[r] = "PRRECV" <=> pstate[r] = "PRRECV"
  PROVE  Mailboxes'
BY DEF Mailboxes, ReceiverFindsMessage

\* Nobody moves; the running process, not in receive(), may take its message.
LEMMA MailStays ==
  ASSUME IInv, Mailboxes, Stays, UNCHANGED frame \/ \E f : f.at # "receive" /\ Leave(f),
         \/ UNCHANGED phasmsg
         \/ phasmsg' = [phasmsg EXCEPT ![currpid] = FALSE] /\ frame'[currpid].at # "receive"
  PROVE  Mailboxes'
<1>1. currpid \in Pid /\ frame \in [Pid -> FrameType]
  BY DEF IInv, Dispatched, Resumable
<1>2. phasmsg' \in [Pid -> BOOLEAN]
  BY <1>1 DEF Mailboxes
<1>3. \A r \in Pid : frame'[r].at = "receive" => frame[r].at = "receive"
  BY <1>1 DEF Leave
<1>4. \A r \in Pid : frame'[r].at = "receive" => phasmsg'[r] = phasmsg[r]
  BY <1>1 DEF Mailboxes
<1>5. \A r \in Pid : /\ pstate'[r] # "PRFREE" => pstate[r] # "PRFREE"
                     /\ pstate'[r] = "PRRECV" <=> pstate[r] = "PRRECV"
  BY DEF Stays, SameBut
<1>. QED
  BY <1>2, <1>3, <1>4, <1>5, MailKept

\* One process moves that does not wait for a message, or one is killed.
LEMMA MailMoves ==
  ASSUME IInv, Mailboxes, NEW p \in Pid, NEW st \in States \ {"PRRECV"}, Moves(p, st),
         st = "PRFREE" \/ pstate[p] \notin {"PRRECV", "PRFREE"},
         UNCHANGED frame \/ \E f : f.at # "receive" /\ Leave(f), UNCHANGED phasmsg
  PROVE  Mailboxes'
<1>1. currpid \in Pid /\ frame \in [Pid -> FrameType] /\ pstate \in [Pid -> States]
  BY DEF IInv, Dispatched, Resumable
<1>2. \A r \in Pid : frame'[r].at = "receive" => frame[r].at = "receive"
  BY <1>1 DEF Leave
<1>3. \A r \in Pid : pstate'[r] # "PRFREE" => /\ pstate[r] # "PRFREE"
                                              /\ pstate'[r] = "PRRECV" <=> pstate[r] = "PRRECV"
  BY <1>1, MovesFacts
<1>. QED
  BY <1>2, <1>3, MailKept DEF Mailboxes

\* send() leaves a message with everyone it starts.
LEMMA MailSent ==
  ASSUME IInv, Mailboxes, NEW p \in Int, SendTo(p),
         UNCHANGED frame \/ \E f : f.at # "receive" /\ Leave(f)
  PROVE  Mailboxes'
<1>1. /\ currpid \in Pid /\ frame \in [Pid -> FrameType] /\ pstate \in [Pid -> States]
      /\ phasmsg \in [Pid -> BOOLEAN]
  BY DEF IInv, Dispatched, Resumable, Mailboxes
<1>2. \A r \in Pid : frame'[r].at = "receive" => frame[r].at = "receive"
  BY <1>1 DEF Leave
<1>3. CASE ~Accepts(p)
  BY <1>3, SendToMoves, MailStays DEF SendTo
<1>4. CASE Accepts(p)
  <2>1. phasmsg' = [phasmsg EXCEPT ![p] = TRUE] /\ p \in Pid /\ ~phasmsg[p] /\ pstate[p] # "PRFREE"
    BY <1>4, PidFacts DEF SendTo, Accepts
  <2>2. ASSUME NEW r \in Pid, pstate'[r] # "PRFREE", frame'[r].at = "receive"
        PROVE  phasmsg'[r] <=> pstate'[r] # "PRRECV"
    <3>1. frame[r].at = "receive"
      BY <1>2, <2>2
    <3>2. CASE Stays /\ pstate[p] \notin {"PRRECV", "PRTRECV"}
      <4>1. pstate[r] # "PRFREE" /\ (pstate'[r] = "PRRECV" <=> pstate[r] = "PRRECV")
        BY <2>2, <3>2 DEF Stays, SameBut
      <4>2. r # p
        BY <2>1, <3>1, <3>2, <4>1 DEF Mailboxes, ReceiverFindsMessage
      <4>. QED
        BY <1>1, <2>1, <3>1, <4>1, <4>2 DEF Mailboxes, ReceiverFindsMessage
    <3>3. CASE Moves(p, "PRREADY")
      <4>1. CASE r = p
        BY <1>1, <2>1, <3>3, <4>1, MovesFacts
      <4>2. CASE r # p
        <5>1. pstate[r] # "PRFREE" /\ (pstate'[r] = "PRRECV" <=> pstate[r] = "PRRECV")
          BY <1>1, <2>1, <2>2, <3>3, <4>2, MovesFacts
        <5>. QED
          BY <1>1, <2>1, <3>1, <4>2, <5>1 DEF Mailboxes, ReceiverFindsMessage
      <4>. QED
        BY <4>1, <4>2
    <3>. QED
      BY <1>4, <3>2, <3>3, SendToMoves
  <2>3. phasmsg' \in [Pid -> BOOLEAN]
    BY <1>1, <2>1
  <2>. QED
    BY <2>2, <2>3 DEF Mailboxes, ReceiverFindsMessage
<1>. QED
  BY <1>3, <1>4

\* Which frames have nothing to do with receive().
LEMMA OtherFrames ==
  /\ User.at = "user" /\ \A at, x, n : At(at, x, n).at = at
BY DEF User, At

\* System calls and interrupts that leave every mailbox alone.
LEMMA MailProcessSteps ==
  ASSUME IInv, Mailboxes, ProcessCall \/ KillEnd
  PROVE  Mailboxes'
<1>1. ASSUME NEW k, Create(k) PROVE Mailboxes'
  <2>1. PICK p \in Pid : /\ pstate[p] = "PRFREE" /\ pstate' = [pstate EXCEPT ![p] = "PRSUSP"]
                         /\ frame' = [frame EXCEPT ![p] = User]
                         /\ phasmsg' = [phasmsg EXCEPT ![p] = FALSE]
    BY <1>1, ProcessMoves
  <2>2. pstate \in [Pid -> States] /\ frame \in [Pid -> FrameType] /\ phasmsg \in [Pid -> BOOLEAN]
    BY DEF IInv, Dispatched, Resumable, Mailboxes
  <2>3. \A r \in Pid : frame'[r].at = "receive" => r # p /\ frame[r].at = "receive"
    BY <2>1, <2>2, OtherFrames
  <2>4. \A r \in Pid \ {p} : pstate'[r] = pstate[r] /\ phasmsg'[r] = phasmsg[r]
    BY <2>1, <2>2
  <2>5. phasmsg' \in [Pid -> BOOLEAN]
    BY <2>1, <2>2
  <2>. QED
    BY <2>3, <2>4, <2>5, MailKept
<1>2. ASSUME CreateRefused \/ \E p \in Pid : \E k : Chprio(p, k) \/ Setnok(k, p) PROVE Mailboxes'
  <2>1. UNCHANGED <<frame, phasmsg>> /\ Stays
    BY <1>2, ProcessMoves, StaysIfSame DEF CreateRefused, Chprio, Setnok
  <2>. QED
    BY <2>1, MailStays
<1>3. ASSUME NEW p \in Pid, Resume(p) \/ Suspend(p) PROVE Mailboxes'
  <2>1. UNCHANGED <<frame, phasmsg>>
    BY <1>3 DEF Resume, Suspend, tableVars
  <2>2. pstate[p] \in {"PRSUSP", "PRREADY", "PRCURR"} /\ \E st \in {"PRREADY", "PRSUSP"} : Moves(p, st)
    BY <1>3, ProcessMoves
  <2>. QED
    BY <2>1, <2>2, MailMoves DEF States
<1>4. ASSUME NEW p \in Pid, Kill(p) PROVE Mailboxes'
  <2>1. SendTo(pnxtkin[p]) /\ Leave(At("kill", p, 0)) /\ pnxtkin[p] \in Int
    BY <1>4 DEF Kill, IInv, Resumable
  <2>2. At("kill", p, 0).at # "receive"
    BY OtherFrames
  <2>. QED
    BY <2>1, <2>2, MailSent
<1>5. ASSUME KillEnd PROVE Mailboxes'
  <2>1. frame[currpid].x \in Pid /\ Moves(frame[currpid].x, "PRFREE")
    BY <1>5, ProcessMoves
  <2>2. Leave(User) /\ UNCHANGED phasmsg
    BY <1>5 DEF KillEnd, tableVars
  <2>3. "PRFREE" \in States \ {"PRRECV"} /\ User.at # "receive"
    BY OtherFrames DEF States
  <2>. QED
    BY <2>1, <2>2, <2>3, MailMoves
<1>. QED
  BY <1>1, <1>2, <1>3, <1>4, <1>5 DEF ProcessCall

\* The same of semaphores.
LEMMA MailSemaphoreSteps ==
  ASSUME IInv, Mailboxes,
         \/ SemaphoreCall
         \/ SignalnNext \/ SignalnEnd \/ SresetNext \/ SresetEnd \/ SdeleteNext \/ SdeleteEnd
  PROVE  Mailboxes'
<1>0. UNCHANGED phasmsg /\ (UNCHANGED frame \/ \E f : f.at # "receive" /\ Leave(f))
  <2>1. CASE SemaphoreCall
    BY <2>1, OtherFrames DEF SemaphoreCall, Screate, Wait, Signal, Sdelete, Signaln, Sreset, tableVars
  <2>2. CASE SignalnNext \/ SignalnEnd \/ SresetNext \/ SresetEnd \/ SdeleteNext \/ SdeleteEnd
    BY <2>2, OtherFrames
       DEF SignalnNext, SignalnEnd, SresetNext, SresetEnd, SdeleteNext, SdeleteEnd, tableVars
  <2>. QED
    BY <2>1, <2>2
<1>1. \/ Stays
      \/ \E p \in Pid, st \in {"PRREADY", "PRWAIT"} :
           Moves(p, st) /\ pstate[p] \in {"PRWAIT", "PRCURR"}
  <2>1. CASE SemaphoreCall
    <3>1. ASSUME NEW s \in Sem, Wait(s) \/ Signal(s)
          PROVE  \/ Stays
                 \/ \E p \in Pid, st \in {"PRREADY", "PRWAIT"} :
                      Moves(p, st) /\ pstate[p] \in {"PRWAIT", "PRCURR"}
      <4>1. CASE Wait(s)
        BY <4>1, SemaphoreMoves, TablesQueued, StaysIfSame
      <4>2. CASE Signal(s)
        BY <4>2, SemaphoreMoves, WokenIsHead, StaysIfSame
      <4>. QED
        BY <3>1, <4>1, <4>2
    <3>2. ASSUME NEW s \in Sem, NEW c, Signaln(s, c) \/ Sreset(s, c) \/ Sdelete(s) \/ Screate(c)
          PROVE  Stays
      BY <3>2, SemaphoreMoves, StaysIfSame
    <3>3. 0 \in Sem
      BY NSEMAssumption DEF Sem
    <3>. QED
      BY <2>1, <3>1, <3>2, <3>3 DEF SemaphoreCall
  <2>2. CASE SignalnNext
    <3>1. ASSUME Woken(frame[currpid].x) # EMPTY
          PROVE  /\ Woken(frame[currpid].x) \in Pid /\ pstate[Woken(frame[currpid].x)] = "PRWAIT"
                 /\ Moves(Woken(frame[currpid].x), "PRREADY")
      BY <2>2, <3>1, SemaphoreMoves, WokenIsHead DEF Moves, SameBut
    <3>. QED
      BY <2>2, <3>1, SemaphoreMoves, StaysIfSame
  <2>3. CASE SresetNext \/ SdeleteNext
    BY <2>3, SemaphoreMoves DEF Moves, SameBut
  <2>4. CASE SignalnEnd \/ SresetEnd \/ SdeleteEnd
    BY <2>4, SemaphoreMoves
  <2>. QED
    BY <2>1, <2>2, <2>3, <2>4
<1>. QED
  BY <1>0, <1>1, MailStays, MailMoves DEF States

\* The clock.
LEMMA MailClockSteps ==
  ASSUME IInv, Mailboxes, SleepCall \/ Tick \/ WakeupNext \/ WakeupEnd \/ Clpreem
  PROVE  Mailboxes'
<1>0. UNCHANGED phasmsg /\ (UNCHANGED frame \/ \E f : f.at # "receive" /\ Leave(f))
  <2>1. CASE SleepCall
    BY <2>1, OtherFrames DEF SleepCall, Sleep, SleepFor, tableVars
  <2>2. CASE Tick \/ WakeupNext \/ WakeupEnd \/ Clpreem
    BY <2>2, OtherFrames DEF Tick, WakeupNext, WakeupEnd, Clpreem, tableVars
  <2>. QED
    BY <2>1, <2>2
<1>1. \/ Stays
      \/ \E p \in Pid, st \in {"PRREADY", "PRSLEEP"} :
           Moves(p, st) /\ pstate[p] \in {"PRSLEEP", "PRTRECV", "PRCURR"}
  BY ClockMoves, TablesQueued DEF SleepCall
<1>. QED
  BY <1>0, <1>1, MailStays, MailMoves DEF States

\* Those that send messages, wait for them and take them.
LEMMA MailMessageSteps ==
  ASSUME IInv, Mailboxes, MessageCall \/ ReceiveEnd \/ RecvtimEnd
  PROVE  Mailboxes'
<1>0. /\ currpid \in Pid /\ pstate[currpid] = "PRCURR" /\ frame \in [Pid -> FrameType]
      /\ phasmsg \in [Pid -> BOOLEAN] /\ pstate \in [Pid -> States]
  BY TablesQueued DEF IInv, Resumable, Mailboxes
<1>1. ASSUME NEW p \in Pid, Send(p) PROVE Mailboxes'
  BY <1>1, MailSent, NPROCAssumption DEF Send, Pid
<1>2. ASSUME Receive, ~phasmsg[currpid] PROVE Mailboxes'
  <2>1. /\ Leave(At("receive", 0, 0)) /\ UNCHANGED phasmsg /\ Moves(currpid, "PRRECV")
    BY <1>2, MessageMoves DEF Receive, tableVars
  <2>2. ASSUME NEW r \in Pid, pstate'[r] # "PRFREE", frame'[r].at = "receive"
        PROVE  phasmsg'[r] <=> pstate'[r] # "PRRECV"
    <3>1. CASE r = currpid
      BY <1>0, <1>2, <2>1, <3>1, MovesFacts
    <3>2. CASE r # currpid
      <4>1. frame[r].at = "receive" /\ pstate[r] # "PRFREE" /\ (pstate'[r] = "PRRECV" <=> pstate[r] = "PRRECV")
        BY <1>0, <2>1, <2>2, <3>2, MovesFacts DEF Leave
      <4>. QED
        BY <2>1, <4>1 DEF Mailboxes, ReceiverFindsMessage
    <3>. QED
      BY <3>1, <3>2
  <2>. QED
    BY <1>0, <2>1, <2>2 DEF Mailboxes, ReceiverFindsMessage
<1>3. ASSUME NEW k, Recvtim(k), ~phasmsg[currpid] PROVE Mailboxes'
  <2>1. Leave(At("recvtim", 0, 0)) /\ UNCHANGED phasmsg /\ Moves(currpid, "PRTRECV")
    BY <1>3, MessageMoves DEF Recvtim, SleepFor, tableVars
  <2>2. At("recvtim", 0, 0).at # "receive" /\ "PRTRECV" \in States \ {"PRRECV"}
    BY OtherFrames DEF States
  <2>. QED
    BY <1>0, <2>1, <2>2, MailMoves
<1>4. ASSUME \/ Receive /\ phasmsg[currpid]
             \/ (\E k : Recvtim(k)) /\ phasmsg[currpid]
             \/ Recvclr
      PROVE  Mailboxes'
  <2>1. Stays
    BY <1>4, MessageMoves
  <2>2. /\ phasmsg' = [phasmsg EXCEPT ![currpid] = FALSE] /\ UNCHANGED frame
        /\ frame[currpid].at = "user"
    BY <1>4 DEF Receive, Recvtim, Recvclr, TakeMessage, Calling, Running
  <2>. QED
    BY <2>1, <2>2, MailStays
<1>5. ASSUME ReceiveEnd \/ RecvtimEnd PROVE Mailboxes'
  <2>1. Stays
    BY <1>5, MessageMoves
  <2>2. /\ Leave(User)
        /\ phasmsg' = [phasmsg EXCEPT ![currpid] = FALSE] \/ UNCHANGED phasmsg
    BY <1>5 DEF ReceiveEnd, RecvtimEnd, TakeMessage, tableVars
  <2>3. frame'[currpid].at # "receive" /\ User.at # "receive"
    BY <1>0, <2>2, OtherFrames DEF Leave
  <2>. QED
    BY <2>1, <2>2, <2>3, MailStays
<1>. QED
  BY <1>1, <1>2, <1>3, <1>4, <1>5 DEF MessageCall

\* Every step keeps it.
LEMMA MailboxesInductive ==
  /\ Init => Mailboxes
  /\ IInv /\ Mailboxes /\ [Next]_vars => Mailboxes'
<1>1. Init => Mailboxes
  BY OtherFrames DEF Init, Mailboxes, ReceiverFindsMessage
<1>2. IInv /\ Mailboxes /\ [Next]_vars => Mailboxes'
  <2>. SUFFICES ASSUME IInv, Mailboxes, [Next]_vars PROVE Mailboxes'
    OBVIOUS
  <2>1. CASE UNCHANGED vars
    BY <2>1 DEF vars, cpuVars, tableVars, Mailboxes, ReceiverFindsMessage
  <2>2. CASE Next
    BY <2>2, MailProcessSteps, MailSemaphoreSteps, MailClockSteps, MailMessageSteps
       DEF Next, Continue
  <2>. QED
    BY <2>1, <2>2
<1>. QED
  BY <1>1, <1>2

\* receive() never reads the slot of a message that is not there: only send()
\* and kill() end its wait, and nobody takes the message meanwhile.
THEOREM ReceiverAlwaysFindsMessage == Spec => []ReceiverFindsMessage
<1>1. Mailboxes => ReceiverFindsMessage
  BY DEF Mailboxes
<1>. QED
  BY <1>1, InitIInv, NextIInv, MailboxesInductive, PTL DEF Spec

-------------------------------------------------------------------------------
(***************************************************************************)
(* The loops of signaln, sreset, sdelete and wakeup: nobody else runs      *)
(* before they are done.                                                   *)
(***************************************************************************)
Loops == {"signaln", "sreset", "sdelete", "wakeup"}

Looping ==
  /\ sstate \in [Sem -> {"SFREE", "SUSED"}]
  /\ \A p \in Pid : /\ frame[p].at \in Loops => p = currpid
                    /\ frame[p].at \in {"signaln", "sreset"} => InUse(frame[p].x)
                    /\ frame[p].at = "sdelete" => ~InUse(frame[p].x)
                    /\ frame[p].n \in Nat

\* The frames of the other processes stay as they are.
LEMMA LeaveFacts ==
  ASSUME IInv, NEW f, Leave(f)
  PROVE  /\ currpid \in Pid /\ frame'[currpid] = f
         /\ \A p \in Pid \ {currpid} : frame'[p] = frame[p]
BY DEF IInv, Dispatched, Resumable, Leave

\* The running process leaves its loop, or was in none.
LEMMA LoopLeft ==
  ASSUME IInv, Looping, NEW f, f.at \notin Loops, f.n \in Nat, Leave(f), UNCHANGED sstate
  PROVE  Looping'
<1>1. \A p \in Pid : frame'[p].at \notin Loops /\ frame'[p].n \in Nat
  BY LeaveFacts DEF Looping
<1>. QED
  BY <1>1 DEF Looping, Loops

\* The running process is in user code and calls what keeps it there.
LEMMA LoopNone ==
  ASSUME IInv, Looping, Running("user"), UNCHANGED frame,
         sstate' \in [Sem -> {"SFREE", "SUSED"}]
  PROVE  Looping'
<1>1. \A p \in Pid : frame'[p].at \notin Loops /\ frame'[p].n \in Nat
  BY DEF Looping, Loops, Running
<1>. QED
  BY <1>1 DEF Looping, Loops

\* It enters a loop, or goes on in one.
LEMMA LoopRuns ==
  ASSUME IInv, Looping, NEW f, Leave(f), f.n \in Nat, UNCHANGED <<currpid, sstate>>,
         f.at \in {"signaln", "sreset"} => InUse(f.x), f.at = "sdelete" => ~InUse(f.x)
  PROVE  Looping'
<1>1. /\ \A p \in Pid \ {currpid} : frame'[p].at \notin Loops /\ frame'[p].n \in Nat
      /\ frame'[currpid] = f
  BY LeaveFacts DEF Looping
<1>. QED
  BY <1>1 DEF Looping, Loops, InUse

\* The values of a frame that is left behind.
LEMMA AtFields ==
  /\ User.at = "user" /\ User.n = 0
  /\ \A at, x, n : At(at, x, n).at = at /\ At(at, x, n).x = x /\ At(at, x, n).n = n
BY DEF User, At

\* Nobody else runs in the middle of a loop: no step reschedules there.
LEMMA LoopSteps ==
  ASSUME IInv, Looping, Next
  PROVE  Looping'
<1>1. CASE ProcessCall
  <2>1. ASSUME NEW k, Create(k) PROVE Looping'
    <3>1. PICK p \in Pid : frame' = [frame EXCEPT ![p] = User]
      BY <2>1, ProcessMoves
    <3>2. UNCHANGED <<currpid, sstate>>
      BY <2>1 DEF Create, semVars
    <3>3. \A r \in Pid : frame'[r] = frame[r] \/ frame'[r] = User
      BY <3>1 DEF IInv, Resumable
    <3>. QED
      BY <3>2, <3>3, AtFields DEF Looping, Loops, InUse
  <2>2. ASSUME NEW p \in Pid, Kill(p) PROVE Looping'
    <3>1. Leave(At("kill", p, 0)) /\ UNCHANGED sstate
      BY <2>2 DEF Kill, semVars
    <3>. QED
      BY <3>1, AtFields, LoopLeft DEF Loops
  <2>3. CASE \/ CreateRefused
             \/ \E p \in Pid : \E k : Resume(p) \/ Suspend(p) \/ Chprio(p, k) \/ Setnok(k, p)
    BY <2>3, LoopNone DEF CreateRefused, Resume, Suspend, Chprio, Setnok, Calling, semVars, Looping
  <2>. QED
    BY <1>1, <2>1, <2>2, <2>3 DEF ProcessCall
<1>2. CASE SemaphoreCall
  <2>0. Counts \subseteq Nat
    BY CountsAssumption
  <2>1. ASSUME NEW s \in Sem, NEW c, Screate(c) \/ Wait(s) \/ Signal(s) PROVE Looping'
    <3>1. Running("user") /\ UNCHANGED frame
      BY <2>1 DEF Screate, Wait, Signal, Calling
    <3>2. sstate' \in [Sem -> {"SFREE", "SUSED"}]
      BY <2>1 DEF Screate, Wait, Signal, Looping
    <3>. QED
      BY <3>1, <3>2, LoopNone
  <2>2. ASSUME NEW s \in Sem, NEW c \in Counts, Signaln(s, c) \/ Sreset(s, c) PROVE Looping'
    <3>1. /\ InUse(s) /\ UNCHANGED <<currpid, sstate>>
          /\ \E at \in {"signaln", "sreset"} : Leave(At(at, s, c))
      BY <2>2 DEF Signaln, Sreset, cpuVars, semVars
    <3>. QED
      BY <2>0, <3>1, AtFields, LoopRuns
  <2>3. ASSUME NEW s \in Sem, Sdelete(s) PROVE Looping'
    <3>1. /\ Running("user") /\ UNCHANGED currpid /\ sstate' = [sstate EXCEPT ![s] = "SFREE"]
          /\ UNCHANGED frame \/ Leave(At("sdelete", s, 0))
      BY <2>3 DEF Sdelete, Calling, cpuVars
    <3>2. sstate' \in [Sem -> {"SFREE", "SUSED"}] /\ sstate'[s] = "SFREE"
      BY <3>1 DEF Looping
    <3>3. \A p \in Pid : frame[p].at \notin Loops
      BY <3>1 DEF Looping, Running, Loops
    <3>4. CASE Leave(At("sdelete", s, 0))
      <4>1. /\ \A p \in Pid \ {currpid} : frame'[p] = frame[p]
            /\ frame'[currpid].at = "sdelete" /\ frame'[currpid].x = s /\ frame'[currpid].n = 0
        BY <3>4, LeaveFacts, AtFields
      <4>. QED
        BY <3>1, <3>2, <3>3, <4>1 DEF Looping, Loops, InUse
    <3>. QED
      BY <3>1, <3>2, <3>4, LoopNone
  <2>4. 0 \in Sem
    BY NSEMAssumption DEF Sem
  <2>. QED
    BY <1>2, <2>1, <2>2, <2>3, <2>4 DEF SemaphoreCall
<1>3. CASE MessageCall \/ SleepCall
  <2>1. /\ Running("user") /\ UNCHANGED sstate
        /\ UNCHANGED frame \/ \E at \in {"receive", "recvtim"} : Leave(At(at, 0, 0)) \/ Leave(User)
    BY <1>3 DEF MessageCall, SleepCall, Send, Receive, Recvtim, Recvclr, Sleep, SleepFor, Calling, semVars
  <2>2. UNCHANGED frame => Looping'
    BY <2>1, LoopNone DEF Looping
  <2>3. \A at \in {"receive", "recvtim"} : Leave(At(at, 0, 0)) \/ Leave(User) => Looping'
    BY <2>1, AtFields, LoopLeft DEF Loops
  <2>. QED
    BY <2>1, <2>2, <2>3
<1>4. CASE Tick \/ Continue
  <2>1. CASE Tick
    <3>1. /\ UNCHANGED <<currpid, sstate>>
          /\ \E at \in {"clpreem", "wakeup"} : Leave(At(at, 0, 0))
      BY <2>1 DEF Tick, semVars
    <3>. QED
      BY <3>1, AtFields, LoopRuns
  <2>2. CASE SignalnNext
    <3>1. /\ Running("signaln") /\ frame[currpid].n > 0 /\ UNCHANGED sstate
          /\ Leave(At("signaln", frame[currpid].x, frame[currpid].n - 1)) /\ UNCHANGED currpid
      BY <2>2 DEF SignalnNext, Keep
    <3>2. InUse(frame[currpid].x) /\ frame[currpid].n - 1 \in Nat
      BY <3>1 DEF Looping, Running, IInv, Dispatched
    <3>. QED
      BY <3>1, <3>2, AtFields, LoopRuns
  <2>3. CASE SresetNext \/ SdeleteNext \/ WakeupNext
    BY <2>3 DEF SresetNext, SdeleteNext, WakeupNext, Keep, semVars, Looping, InUse
  <2>4. CASE KillEnd \/ SignalnEnd \/ SresetEnd \/ SdeleteEnd \/ ReceiveEnd \/ RecvtimEnd \/ Clpreem
    <3>1. Leave(User) /\ UNCHANGED sstate
      BY <2>4 DEF KillEnd, SignalnEnd, SresetEnd, SdeleteEnd, ReceiveEnd, RecvtimEnd, Clpreem, semVars
    <3>. QED
      BY <3>1, AtFields, LoopLeft DEF Loops
  <2>5. CASE WakeupEnd
    <3>1. Leave(At("clpreem", 0, 0)) /\ UNCHANGED sstate
      BY <2>5 DEF WakeupEnd, semVars
    <3>. QED
      BY <3>1, AtFields, LoopLeft DEF Loops
  <2>. QED
    BY <1>4, <2>1, <2>2, <2>3, <2>4, <2>5 DEF Continue
<1>. QED
  BY <1>1, <1>2, <1>3, <1>4 DEF Next

\* The loops run to their end, from the first step of main() on.
LEMMA LoopingInductive ==
  /\ Init => Looping
  /\ IInv /\ Looping /\ [Next]_vars => Looping'
<1>1. Init => Looping
  BY AtFields DEF Init, Looping, Loops
<1>2. IInv /\ Looping /\ [Next]_vars => Looping'
  BY LoopSteps DEF vars, cpuVars, semVars, Looping, InUse
<1>. QED
  BY <1>1, <1>2

-------------------------------------------------------------------------------
(***************************************************************************)
(* wait() tells the truth, and waiters are served in order (wait.c:33).    *)
(***************************************************************************)
Waiting ==
  /\ pwaitret \in [Pid -> {OK, DELETED}]
  /\ \A p \in Pid : pstate[p] = "PRWAIT" => pwaitret[p] = OK

\* A process that waits is on the queue of its semaphore.
LEMMA WaiterIsQueued ==
  ASSUME IInv, NEW p \in Pid, pstate[p] = "PRWAIT"
  PROVE  psem[p] \in Sem /\ Contains(semq[psem[p]], p)
BY TablesQueued DEF ListsOK, Holds, StateIs

\* And who is on one waits for it.
LEMMA QueuedWaits ==
  ASSUME IInv, NEW s \in Sem, NEW i \in 1..Len(semq[s])
  PROVE  /\ semq[s] \in Seq(Pid) /\ semq[s][i] \in Pid
         /\ pstate[semq[s][i]] = "PRWAIT" /\ psem[semq[s][i]] = s
         /\ \A j \in 1..Len(semq[s]) : semq[s][i] = semq[s][j] => i = j
<1>1. semq[s] \in Seq(Pid) /\ Holds(semq[s], {p \in StateIs(pstate, {"PRWAIT"}) : psem[p] = s})
  BY TablesQueued DEF ListsOK
<1>2. semq[s][i] \in Pid /\ Contains(semq[s], semq[s][i])
  BY <1>1 DEF Contains
<1>. QED
  BY <1>1, <1>2 DEF Holds, StateIs

\* The head of a queue is its first entry, and waits.
LEMMA HeadWaits ==
  ASSUME IInv, NEW s \in Sem, semq[s] # <<>>
  PROVE  /\ 1 \in 1..Len(semq[s]) /\ Head(semq[s]) = semq[s][1] /\ semq[s] \in Seq(Pid)
         /\ Head(semq[s]) \in Pid /\ pstate[Head(semq[s])] = "PRWAIT" /\ psem[Head(semq[s])] = s
<1>1. semq[s] \in Seq(Pid)
  BY TablesQueued DEF ListsOK
<1>2. 1 \in 1..Len(semq[s]) /\ Head(semq[s]) = semq[s][1]
  BY <1>1
<1>. QED
  BY <1>1, <1>2, QueuedWaits

\* The steps that can end a wait: whose queue, and what becomes of pwaitret.
Wakes(s) ==
  /\ s \in Sem /\ semq[s] # <<>> /\ UNCHANGED sstate
  /\ Moves(Head(semq[s]), "PRREADY")
  /\ \/ InUse(s) /\ UNCHANGED pwaitret
     \/ ~InUse(s) /\ pwaitret' = [pwaitret EXCEPT ![Head(semq[s])] = DELETED]

\* Who joins a queue goes to its end.
Joins(s) ==
  /\ s \in Sem /\ Moves(currpid, "PRWAIT") /\ UNCHANGED sstate
  /\ psem' = [psem EXCEPT ![currpid] = s]
  /\ semq' = [semq EXCEPT ![s] = Append(@, currpid)]
  /\ pwaitret' = [pwaitret EXCEPT ![currpid] = OK]

\* Every other step leaves those who wait where they are, or kills one.
Passes ==
  /\ UNCHANGED pwaitret
  /\ \/ Stays
     \/ \E p \in Pid, st \in States \ {"PRWAIT"} :
          Moves(p, st) /\ (st = "PRFREE" \/ pstate[p] # "PRWAIT")

\* A step that ends no wait and begins none.
LEMMA OtherSteps ==
  ASSUME IInv, ProcessCall \/ KillEnd \/ MessageCall \/ ReceiveEnd \/ RecvtimEnd
               \/ SleepCall \/ Tick \/ WakeupNext \/ WakeupEnd \/ Clpreem
  PROVE  Passes
<1>0. /\ {"PRREADY", "PRRECV", "PRTRECV", "PRSLEEP", "PRSUSP", "PRFREE"} \subseteq States \ {"PRWAIT"}
      /\ currpid \in Pid /\ pstate[currpid] = "PRCURR" /\ pstate \in [Pid -> States]
  BY TablesQueued DEF States
<1>1. CASE ProcessCall
  <2>1. UNCHANGED pwaitret
    BY <1>1 DEF ProcessCall, Create, CreateRefused, Resume, Suspend, Chprio, Setnok, Kill, tableVars
  <2>2. ASSUME NEW k, Create(k) PROVE Passes
    <3>1. PICK p \in Pid : pstate[p] = "PRFREE" /\ pstate' = [pstate EXCEPT ![p] = "PRSUSP"]
      BY <2>2, ProcessMoves
    <3>2. Moves(p, "PRSUSP")
      BY <3>1 DEF Moves, SameBut
    <3>. QED
      BY <1>0, <2>1, <3>1, <3>2 DEF Passes
  <2>3. ASSUME CreateRefused \/ \E p \in Pid : \E k : Chprio(p, k) \/ Setnok(k, p) PROVE Passes
    BY <2>1, <2>3, ProcessMoves, StaysIfSame DEF Passes
  <2>4. ASSUME NEW p \in Pid, Resume(p) \/ Suspend(p) PROVE Passes
    <3>1. pstate[p] # "PRWAIT" /\ \E st \in {"PRREADY", "PRSUSP"} : Moves(p, st)
      BY <2>4, ProcessMoves
    <3>. QED
      BY <1>0, <2>1, <3>1 DEF Passes
  <2>5. ASSUME NEW p \in Pid, Kill(p) PROVE Passes
    <3>1. SendTo(pnxtkin[p]) /\ pnxtkin[p] \in Int
      BY <2>5 DEF Kill, IInv, Resumable
    <3>. QED
      BY <1>0, <2>1, <3>1, SendToMoves DEF Passes
  <2>. QED
    BY <1>1, <2>2, <2>3, <2>4, <2>5 DEF ProcessCall
<1>2. CASE KillEnd
  <2>1. UNCHANGED pwaitret
    BY <1>2 DEF KillEnd, tableVars
  <2>. QED
    BY <1>0, <1>2, <2>1, ProcessMoves DEF Passes
<1>3. CASE MessageCall \/ ReceiveEnd \/ RecvtimEnd
  <2>1. UNCHANGED pwaitret
    BY <1>3 DEF MessageCall, ReceiveEnd, RecvtimEnd, Send, Receive, Recvtim, Recvclr, TakeMessage, tableVars
  <2>2. ASSUME NEW p \in Pid, Send(p) PROVE Passes
    <3>1. SendTo(p) /\ p \in Int
      BY <2>2, NPROCAssumption DEF Send, Pid
    <3>. QED
      BY <1>0, <2>1, <3>1, SendToMoves DEF Passes
  <2>3. ASSUME Receive \/ (\E k : Recvtim(k)) \/ ReceiveEnd \/ RecvtimEnd \/ Recvclr PROVE Passes
    <3>1. Stays \/ \E st \in {"PRRECV", "PRTRECV"} : Moves(currpid, st)
      BY <2>3, MessageMoves
    <3>. QED
      BY <1>0, <2>1, <3>1 DEF Passes
  <2>. QED
    BY <1>3, <2>2, <2>3 DEF MessageCall
<1>4. CASE SleepCall \/ Tick \/ WakeupNext \/ WakeupEnd \/ Clpreem
  <2>1. UNCHANGED pwaitret
    BY <1>4 DEF SleepCall, Sleep, Tick, WakeupNext, WakeupEnd, Clpreem, tableVars
  <2>2. \/ Stays
        \/ Moves(currpid, "PRSLEEP")
        \/ \E p \in Pid : Moves(p, "PRREADY") /\ pstate[p] # "PRWAIT"
    BY <1>4, ClockMoves DEF SleepCall
  <2>. QED
    BY <1>0, <2>1, <2>2 DEF Passes
<1>. QED
  BY <1>1, <1>2, <1>3, <1>4

\* What a step does to those who wait.
LEMMA WaiterSteps ==
  ASSUME IInv, Looping, Next
  PROVE  Passes \/ (\E s \in Sem : Wakes(s)) \/ (\E s \in Sem : Joins(s))
<1>1. CASE SemaphoreCall
  <2>1. ASSUME NEW s \in Sem, Wait(s) PROVE Passes \/ Joins(s)
    <3>1. ASSUME semcnt[s] > 0 PROVE Passes
      <4>1. UNCHANGED pwaitret /\ UNCHANGED pstate
        BY <2>1, <3>1 DEF Wait, cpuVars
      <4>. QED
        BY <4>1, StaysIfSame DEF Passes
    <3>2. ASSUME ~(semcnt[s] > 0) PROVE Joins(s)
      <4>1. Moves(currpid, "PRWAIT")
        BY <2>1, <3>2, SemaphoreMoves
      <4>. QED
        BY <2>1, <3>2, <4>1 DEF Wait, Joins
    <3>. QED
      BY <3>1, <3>2
  <2>2. ASSUME NEW s \in Sem, Signal(s) PROVE Passes \/ Wakes(s)
    <3>1. UNCHANGED <<pwaitret, sstate>> /\ InUse(s)
      BY <2>2 DEF Signal, tableVars
    <3>2. ASSUME Woken(s) = EMPTY PROVE Passes
      BY <2>2, <3>1, <3>2, SemaphoreMoves, StaysIfSame DEF Passes
    <3>3. ASSUME Woken(s) # EMPTY PROVE Wakes(s)
      <4>1. semq[s] # <<>> /\ Woken(s) = Head(semq[s])
        BY <3>3, WokenIsHead
      <4>2. Moves(Woken(s), "PRREADY")
        BY <2>2, <3>3, SemaphoreMoves
      <4>. QED
        BY <3>1, <4>1, <4>2 DEF Wakes
    <3>. QED
      BY <3>2, <3>3
  <2>3. ASSUME NEW s, NEW c, Signaln(s, c) \/ Sreset(s, c) \/ Sdelete(s) \/ Screate(c) PROVE Passes
    <3>1. UNCHANGED pwaitret
      BY <2>3 DEF Signaln, Sreset, Sdelete, Screate, tableVars
    <3>. QED
      BY <2>3, <3>1, SemaphoreMoves, StaysIfSame DEF Passes
  <2>. QED
    BY <1>1, <2>1, <2>2, <2>3 DEF SemaphoreCall
<1>2. CASE SignalnNext
  <2>. DEFINE s == frame[currpid].x
  <2>1. s \in Sem /\ UNCHANGED <<pwaitret, sstate>> /\ InUse(s)
    BY <1>2, TablesQueued DEF SignalnNext, Running, tableVars, IInv, Resumable, FrameOK, Looping
  <2>2. /\ Woken(s) = EMPTY => pstate' = pstate
        /\ Woken(s) # EMPTY => pstate' = [pstate EXCEPT ![Woken(s)] = "PRREADY"]
    BY <1>2, SemaphoreMoves
  <2>. HIDE DEF s
  <2>3. ASSUME Woken(s) = EMPTY PROVE Passes
    BY <2>1, <2>2, <2>3, StaysIfSame DEF Passes
  <2>4. ASSUME Woken(s) # EMPTY PROVE Wakes(s)
    <3>1. semq[s] # <<>> /\ Woken(s) = Head(semq[s])
      BY <2>1, <2>4, WokenIsHead
    <3>2. Moves(Woken(s), "PRREADY")
      BY <2>2, <2>4 DEF Moves, SameBut
    <3>. QED
      BY <2>1, <3>1, <3>2 DEF Wakes
  <2>. QED
    BY <2>1, <2>3, <2>4
<1>3. CASE SresetNext \/ SdeleteNext
  <2>. DEFINE s == frame[currpid].x  p == Head(semq[s])
  <2>1. s \in Sem /\ semq[s] # <<>> /\ pstate' = [pstate EXCEPT ![p] = "PRREADY"] /\ UNCHANGED sstate
    BY <1>3, SemaphoreMoves DEF SresetNext, SdeleteNext
  <2>2. \/ InUse(s) /\ UNCHANGED pwaitret
        \/ ~InUse(s) /\ pwaitret' = [pwaitret EXCEPT ![p] = DELETED]
    BY <1>3, TablesQueued DEF SresetNext, SdeleteNext, Looping, Running, tableVars
  <2>. HIDE DEF s
  <2>. QED
    BY <2>1, <2>2 DEF Wakes, Moves, SameBut
<1>4. CASE SignalnEnd \/ SresetEnd \/ SdeleteEnd
  <2>1. UNCHANGED pwaitret
    BY <1>4 DEF SignalnEnd, SresetEnd, SdeleteEnd, tableVars
  <2>. QED
    BY <1>4, <2>1, SemaphoreMoves DEF Passes
<1>. QED
  BY <1>1, <1>2, <1>3, <1>4, OtherSteps DEF Next, Continue

\* Who leaves a queue for the ready list was its head.
LEMMA WokenWasHead ==
  ASSUME IInv, NEW s \in Sem, Wakes(s), NEW p \in Pid, pstate[p] = "PRWAIT",
         pstate'[p] \in {"PRREADY", "PRCURR"}
  PROVE  p = Head(semq[s]) /\ psem[p] = s
<1>1. Head(semq[s]) \in Pid /\ psem[Head(semq[s])] = s
  BY HeadWaits DEF Wakes
<1>2. pstate \in [Pid -> States] /\ Moves(Head(semq[s]), "PRREADY")
  BY TablesQueued DEF Wakes
<1>. QED
  BY <1>1, <1>2, MovesFacts

\* In the steps that leave the waiters alone none of them becomes ready.
LEMMA PassedBy ==
  ASSUME IInv, Passes \/ \E s \in Sem : Joins(s), NEW p \in Pid, pstate[p] = "PRWAIT"
  PROVE  pstate'[p] \in {"PRWAIT", "PRFREE"}
<1>1. pstate \in [Pid -> States] /\ currpid \in Pid /\ pstate[currpid] = "PRCURR"
  BY TablesQueued
<1>2. CASE Passes
  BY <1>1, <1>2, MovesFacts DEF Passes, Stays, SameBut
<1>3. CASE \E s \in Sem : Joins(s)
  BY <1>1, <1>3, MovesFacts DEF Joins
<1>. QED
  BY <1>2, <1>3

\* Only wait() begins a wait.
LEMMA NewWaiter ==
  ASSUME IInv, Looping, Next, NEW p \in Pid, pstate'[p] = "PRWAIT"
  PROVE  \/ pstate[p] = "PRWAIT" /\ (Passes \/ (\E s \in Sem : Wakes(s)) \/ \E s \in Sem : Joins(s))
         \/ pstate[p] # "PRWAIT" /\ p = currpid /\ \E s \in Sem : Joins(s)
<1>1. pstate \in [Pid -> States] /\ currpid \in Pid /\ pstate[currpid] = "PRCURR"
  BY TablesQueued
<1>2. ASSUME Passes PROVE pstate[p] = "PRWAIT"
  BY <1>1, <1>2, MovesFacts DEF Passes, Stays, SameBut
<1>3. ASSUME NEW s \in Sem, Wakes(s) PROVE pstate[p] = "PRWAIT"
  <2>1. Head(semq[s]) \in Pid /\ Moves(Head(semq[s]), "PRREADY")
    BY <1>3, HeadWaits DEF Wakes
  <2>. QED
    BY <1>1, <2>1, MovesFacts
<1>4. ASSUME NEW s \in Sem, Joins(s) PROVE pstate[p] = "PRWAIT" \/ p = currpid
  BY <1>1, <1>4, MovesFacts DEF Joins
<1>. QED
  BY <1>1, <1>2, <1>3, <1>4, WaiterSteps

\* Who waits has OK in pwaitret, until sdelete() says otherwise (wait.c:28).
LEMMA WaitingInductive ==
  /\ Init => Waiting
  /\ IInv /\ Looping /\ Waiting /\ [Next]_vars => Waiting'
<1>1. Init => Waiting
  BY DEF Init, Waiting
<1>2. ASSUME IInv, Looping, Waiting, Next PROVE Waiting'
  <2>1. pstate \in [Pid -> States] /\ currpid \in Pid /\ pstate[currpid] = "PRCURR"
    BY <1>2, TablesQueued
  <2>2. \/ UNCHANGED pwaitret
        \/ \E s \in Sem : Wakes(s)
        \/ \E s \in Sem : Joins(s)
    BY <1>2, WaiterSteps DEF Passes
  <2>3. CASE UNCHANGED pwaitret
    BY <1>2, <2>3, NewWaiter DEF Waiting, Joins
  <2>4. ASSUME NEW s \in Sem, Wakes(s), ~UNCHANGED pwaitret PROVE Waiting'
    <3>1. /\ Head(semq[s]) \in Pid /\ Moves(Head(semq[s]), "PRREADY")
          /\ pwaitret' = [pwaitret EXCEPT ![Head(semq[s])] = DELETED]
      BY <1>2, <2>4, HeadWaits DEF Wakes
    <3>2. \A p \in Pid : pstate'[p] = "PRWAIT" => pstate[p] = "PRWAIT" /\ p # Head(semq[s])
      BY <2>1, <3>1, MovesFacts
    <3>. QED
      BY <1>2, <3>1, <3>2 DEF Waiting
  <2>5. ASSUME NEW s \in Sem, Joins(s) PROVE Waiting'
    BY <1>2, <2>1, <2>5, MovesFacts DEF Waiting, Joins
  <2>. QED
    BY <2>2, <2>3, <2>4, <2>5
<1>3. IInv /\ Looping /\ Waiting /\ [Next]_vars => Waiting'
  BY <1>2 DEF vars, cpuVars, tableVars, Waiting
<1>. QED
  BY <1>1, <1>3

\* wait() returns DELETED if and only if its semaphore was deleted under it,
\* for every number of processes and semaphores (wait.c:33, sdelete.c:30).
THEOREM WaitTellsTheTruth == Spec => WaitVerdict
<1>. DEFINE Verdict == \A p \in Pid : pstate[p] = "PRWAIT" /\ pstate'[p] \in {"PRREADY", "PRCURR"}
                         => (pwaitret'[p] = DELETED <=> sstate'[psem[p]] = "SFREE")
<1>1. ASSUME IInv, Looping, Waiting, Next PROVE Verdict
  <2>. SUFFICES ASSUME NEW p \in Pid, pstate[p] = "PRWAIT", pstate'[p] \in {"PRREADY", "PRCURR"}
                PROVE  pwaitret'[p] = DELETED <=> sstate'[psem[p]] = "SFREE"
    OBVIOUS
  <2>1. PICK s \in Sem : Wakes(s)
    BY <1>1, WaiterSteps, PassedBy
  <2>2. p = Head(semq[s]) /\ psem[p] = s
    BY <1>1, <2>1, WokenWasHead
  <2>3. pwaitret[p] = OK /\ OK # DELETED
    BY <1>1 DEF Waiting, OK, DELETED
  <2>4. sstate[s] \in {"SFREE", "SUSED"} /\ pwaitret \in [Pid -> {OK, DELETED}]
    BY <1>1 DEF Looping, Waiting
  <2>. QED
    BY <2>1, <2>2, <2>3, <2>4 DEF Wakes, InUse
<1>2. IInv /\ Looping /\ Waiting /\ [Next]_vars => [Verdict]_vars
  BY <1>1
<1>. HIDE DEF Verdict
<1>3. Spec => [][Verdict]_vars
  BY <1>2, InitIInv, NextIInv, LoopingInductive, WaitingInductive, PTL DEF Spec
<1>. QED
  BY <1>3 DEF WaitVerdict, Verdict

\* Semaphores are first come, first served: who waits goes behind all others,
\* and nobody is woken before those ahead of it (wait.c:27, signal.c:27).
THEOREM WaitersServedInOrder == Spec => WaitersInOrder
<1>. DEFINE InOrder ==
       /\ \A p \in Pid : pstate[p] # "PRWAIT" /\ pstate'[p] = "PRWAIT" => Last(semq'[psem'[p]]) = p
       /\ \A s \in Sem : \A i \in 1..Len(semq[s]) :
            pstate'[semq[s][i]] \in {"PRREADY", "PRCURR"} =>
              \A j \in 1..i - 1 : pstate'[semq[s][j]] # "PRWAIT"
<1>1. ASSUME IInv, Looping, Next PROVE InOrder
  <2>1. ASSUME NEW p \in Pid, pstate[p] # "PRWAIT", pstate'[p] = "PRWAIT"
        PROVE  Last(semq'[psem'[p]]) = p
    <3>1. PICK s \in Sem : p = currpid /\ Joins(s)
      BY <1>1, <2>1, NewWaiter
    <3>2. semq \in [Sem -> Seq(Pid)] /\ psem \in [Pid -> Sem]
      BY <1>1 DEF IInv, Blocked
    <3>3. psem'[p] = s /\ semq'[s] = Append(semq[s], p)
      BY <3>1, <3>2 DEF Joins
    <3>4. Last(Append(semq[s], p)) = p
      BY <3>2 DEF Last
    <3>. QED
      BY <3>3, <3>4
  <2>2. ASSUME NEW s \in Sem, NEW i \in 1..Len(semq[s]),
               pstate'[semq[s][i]] \in {"PRREADY", "PRCURR"}, NEW j \in 1..i - 1
        PROVE  FALSE
    <3>1. semq[s][i] \in Pid /\ pstate[semq[s][i]] = "PRWAIT" /\ psem[semq[s][i]] = s
      BY <1>1, QueuedWaits
    <3>2. PICK z \in Sem : Wakes(z)
      BY <1>1, <2>2, <3>1, WaiterSteps, PassedBy
    <3>3. z = s /\ semq[s][i] = Head(semq[s])
      BY <1>1, <2>2, <3>1, <3>2, WokenWasHead
    <3>4. semq[s] # <<>>
      BY <3>2, <3>3 DEF Wakes
    <3>5. i = 1
      BY <1>1, <3>3, <3>4, HeadWaits, QueuedWaits
    <3>. QED
      BY <3>5
  <2>. QED
    BY <2>1, <2>2
<1>2. IInv /\ Looping /\ [Next]_vars => [InOrder]_vars
  BY <1>1
<1>. HIDE DEF InOrder
<1>3. Spec => [][InOrder]_vars
  BY <1>2, InitIInv, NextIInv, LoopingInductive, PTL DEF Spec
<1>. QED
  BY <1>3 DEF WaitersInOrder, InOrder

-------------------------------------------------------------------------------
(***************************************************************************)
(* Semaphore counts and queues (wait.c:22, signal.c:25, kill.c:65).        *)
(***************************************************************************)
Agrees(s) == Len(semq[s]) = IF InUse(s) /\ semcnt[s] < 0 THEN -semcnt[s] ELSE 0

Counting == semcnt \in [Sem -> Int] /\ CountsMatchQueues

\* What of the count, the queue and the slot of each semaphore a step leaves as
\* they are stays in agreement, while nobody drains its queue.
LEMMA CountsKept ==
  ASSUME Counting, semcnt' \in [Sem -> Int],
         \A s \in Sem : \/ Agrees(s) /\ semcnt'[s] = semcnt[s] /\ semq'[s] = semq[s] /\ sstate'[s] = sstate[s]
                        \/ Agrees(s)'
                        \/ Draining(s)'
  PROVE  Counting'
BY DEF Counting, CountsMatchQueues, Agrees, InUse

\* Outside the loops of sreset() and sdelete() counts and queues agree.
LEMMA NotDraining ==
  ASSUME IInv, Counting, frame[currpid].at \notin {"sreset", "sdelete"}
  PROVE  \A s \in Sem : Agrees(s)
BY DEF Counting, CountsMatchQueues, Draining, Agrees

\* A step that touches no semaphore, from outside those loops.
LEMMA CountsUntouched ==
  ASSUME IInv, Counting, frame[currpid].at \notin {"sreset", "sdelete"},
         UNCHANGED <<semcnt, semq, sstate>>
  PROVE  Counting'
BY NotDraining, CountsKept DEF Counting

\* One signal: the count goes up, and the queue is one shorter if anybody waits.
LEMMA CountUpAgrees ==
  ASSUME IInv, Counting, frame[currpid].at \notin {"sreset", "sdelete"},
         NEW s \in Sem, InUse(s), CountUp(s), UNCHANGED sstate
  PROVE  Counting'
<1>1. semcnt \in [Sem -> Int] /\ semq \in [Sem -> Seq(Pid)]
  BY DEF Counting, IInv, Blocked
<1>2. \A z \in Sem : Agrees(z)
  BY NotDraining
<1>3. semcnt' \in [Sem -> Int] /\ semcnt'[s] = semcnt[s] + 1
  BY <1>1 DEF CountUp
<1>4. \A z \in Sem \ {s} : semcnt'[z] = semcnt[z] /\ semq'[z] = semq[z]
  BY <1>1 DEF CountUp
<1>5. Agrees(s)'
  <2>1. CASE ~(semcnt[s] < 0)
    <3>1. Len(semq[s]) = 0 /\ semq' = semq
      BY <1>2, <2>1 DEF Agrees, CountUp
    <3>. QED
      BY <1>1, <1>3, <2>1, <3>1 DEF Agrees
  <2>2. CASE semcnt[s] < 0
    <3>1. Len(semq[s]) = -semcnt[s] /\ semq'[s] = Rest(semq[s])
      BY <1>1, <1>2, <2>2 DEF Agrees, CountUp
    <3>2. semq[s] # <<>>
      BY <1>1, <2>2, <3>1
    <3>3. semq'[s] = Tail(semq[s])
      BY <3>1, <3>2 DEF Rest
    <3>4. Len(semq'[s]) = Len(semq[s]) - 1
      BY <1>1, <3>2, <3>3, HeadTailProperties
    <3>. QED
      BY <1>1, <1>3, <2>2, <3>1, <3>4 DEF Agrees, InUse
  <2>. QED
    BY <2>1, <2>2
<1>. QED
  BY <1>2, <1>3, <1>4, <1>5, CountsKept

\* The loops of sreset() and sdelete() go on with the queue they drain.
LEMMA CountsWhileDraining ==
  ASSUME IInv, Counting, NEW s \in Sem, frame[currpid].at \in {"sreset", "sdelete"},
         frame[currpid].x = s, UNCHANGED <<currpid, frame, semcnt, sstate>>,
         \A z \in Sem \ {s} : semq'[z] = semq[z]
  PROVE  Counting'
<1>1. \A z \in Sem \ {s} : Agrees(z)
  BY DEF Counting, CountsMatchQueues, Draining, Agrees
<1>2. Draining(s)'
  BY DEF Draining
<1>. QED
  BY <1>1, <1>2, CountsKept DEF Counting

\* screate(), wait(), signal(), sdelete() and the starts of the loops.
LEMMA CountCalls ==
  ASSUME IInv, Looping, Counting, SemaphoreCall
  PROVE  Counting'
<1>0. /\ semcnt \in [Sem -> Int] /\ semq \in [Sem -> Seq(Pid)] /\ 0 \in Sem
      /\ sstate \in [Sem -> {"SFREE", "SUSED"}]
  BY NSEMAssumption DEF Counting, IInv, Blocked, Looping, Sem
<1>a. frame[currpid].at = "user"
  BY DEF SemaphoreCall, Screate, Wait, Signal, Sdelete, Signaln, Sreset, Calling, Running
<1>b. \A z \in Sem : Agrees(z)
  BY <1>a, NotDraining
<1>1. ASSUME NEW c \in Counts, Screate(c) PROVE Counting'
  <2>0. PICK s : s = FoundSlot(nextsem, NSEM, SemsInUse)
    OBVIOUS
  <2>1. /\ sstate' = [sstate EXCEPT ![s] = "SUSED"] /\ semcnt' = [semcnt EXCEPT ![s] = c]
        /\ UNCHANGED semq /\ c \in Nat
    BY <1>1, <2>0, CountsAssumption DEF Screate
  <2>2. s \notin SemsInUse
    BY <1>1, <2>0, FoundIsFree, NSEMAssumption DEF Screate
  <2>3. semcnt' \in [Sem -> Int]
    <3>1. CASE s \in Sem
      BY <1>0, <2>1, <3>1
    <3>2. CASE s \notin Sem
      <4>1. semcnt' = semcnt
        BY <1>0, <2>1, <3>2
      <4>. QED
        BY <1>0, <4>1
    <3>. QED
      BY <3>1, <3>2
  <2>4. ASSUME s \in Sem PROVE Agrees(s)'
    BY <1>0, <1>b, <2>1, <2>2, <2>4 DEF Agrees, InUse, SemsInUse
  <2>5. \A z \in Sem \ {s} : semcnt'[z] = semcnt[z] /\ semq'[z] = semq[z] /\ sstate'[z] = sstate[z]
    BY <1>0, <2>1
  <2>. QED
    BY <1>b, <2>3, <2>4, <2>5, CountsKept
<1>2. ASSUME NEW s \in Sem, Wait(s) PROVE Counting'
  <2>1. semcnt' = [semcnt EXCEPT ![s] = @ - 1] /\ UNCHANGED sstate /\ InUse(s)
    BY <1>2 DEF Wait
  <2>2. semcnt' \in [Sem -> Int] /\ semcnt'[s] = semcnt[s] - 1
    BY <1>0, <2>1
  <2>3. CASE semcnt[s] > 0
    <3>1. UNCHANGED semq
      BY <1>2, <2>3 DEF Wait
    <3>2. Agrees(s)'
      BY <1>0, <1>b, <2>1, <2>2, <2>3, <3>1 DEF Agrees, InUse
    <3>. QED
      BY <1>0, <1>b, <2>1, <2>2, <3>1, <3>2, CountsKept
  <2>4. CASE ~(semcnt[s] > 0)
    <3>1. semq' = [semq EXCEPT ![s] = Append(@, currpid)] /\ currpid \in Pid
      BY <1>2, <2>4 DEF Wait, IInv, Dispatched
    <3>2. Len(semq'[s]) = Len(semq[s]) + 1
      BY <1>0, <3>1, AppendProperties
    <3>3. Agrees(s)'
      BY <1>0, <1>b, <2>1, <2>2, <2>4, <3>2 DEF Agrees, InUse
    <3>4. \A z \in Sem \ {s} : semcnt'[z] = semcnt[z] /\ semq'[z] = semq[z]
      BY <1>0, <2>1, <3>1
    <3>. QED
      BY <1>b, <2>1, <2>2, <3>3, <3>4, CountsKept
  <2>. QED
    BY <2>3, <2>4
<1>3. ASSUME NEW s \in Sem, Signal(s) PROVE Counting'
  BY <1>a, <1>3, CountUpAgrees DEF Signal
<1>4. ASSUME NEW s \in Sem, Sdelete(s) PROVE Counting'
  <2>1. sstate' = [sstate EXCEPT ![s] = "SFREE"] /\ UNCHANGED <<currpid, semcnt, semq>>
    BY <1>4 DEF Sdelete, cpuVars
  <2>2. \A z \in Sem \ {s} : semcnt'[z] = semcnt[z] /\ semq'[z] = semq[z] /\ sstate'[z] = sstate[z]
    BY <1>0, <2>1
  <2>3. CASE semq[s] = <<>>
    <3>1. Agrees(s)'
      BY <1>0, <2>1, <2>3 DEF Agrees, InUse
    <3>. QED
      BY <1>0, <1>b, <2>1, <2>2, <3>1, CountsKept
  <2>4. CASE semq[s] # <<>>
    <3>1. Leave(At("sdelete", s, 0))
      BY <1>4, <2>4 DEF Sdelete
    <3>2. Draining(s)'
      BY <2>1, <3>1, LeaveFacts, AtFields DEF Draining
    <3>. QED
      BY <1>0, <1>b, <2>1, <2>2, <3>2, CountsKept
  <2>. QED
    BY <2>3, <2>4
<1>5. ASSUME NEW s \in Sem, NEW c \in Counts, Signaln(s, c) \/ Sreset(s, c) PROVE Counting'
  BY <1>a, <1>5, CountsUntouched DEF Signaln, Sreset, semVars
<1>. QED
  BY <1>1, <1>2, <1>3, <1>4, <1>5 DEF SemaphoreCall

\* kill() of a waiter: one count up, one entry off the queue (kill.c:65).
LEMMA CountKill ==
  ASSUME IInv, Counting, KillEnd
  PROVE  Counting'
<1>. DEFINE p == frame[currpid].x
<1>1. p \in Pid /\ frame[currpid].at = "kill" /\ UNCHANGED sstate
  BY ProcessMoves DEF KillEnd, Running
<1>2. \A z \in Sem : Agrees(z)
  BY <1>1, NotDraining
<1>3. CASE pstate[p] # "PRWAIT"
  <2>1. UNCHANGED <<semcnt, semq>>
    BY <1>3 DEF KillEnd
  <2>. QED
    BY <1>1, <2>1, CountsUntouched
<1>4. CASE pstate[p] = "PRWAIT"
  <2>0. semcnt \in [Sem -> Int] /\ semq \in [Sem -> Seq(Pid)]
    BY DEF Counting, IInv, Blocked
  <2>1. PICK s \in Sem : s = psem[p] /\ Contains(semq[s], p)
    BY <1>1, <1>4, WaiterIsQueued
  <2>2. semcnt' = [semcnt EXCEPT ![s] = @ + 1] /\ semq' = [semq EXCEPT ![s] = Dequeue(@, p)]
    BY <1>4, <2>1 DEF KillEnd
  <2>. HIDE DEF p
  <2>3. Len(semq'[s]) = Len(semq[s]) - 1 /\ semcnt'[s] = semcnt[s] + 1
    BY <1>1, <2>0, <2>1, <2>2, DequeueLength
  <2>4. Len(semq[s]) \in Nat /\ Len(semq[s]) >= 1
    BY <2>0, <2>1 DEF Contains
  <2>5. InUse(s) /\ semcnt[s] < 0 /\ Len(semq[s]) = -semcnt[s]
    BY <1>2, <2>1, <2>4 DEF Agrees
  <2>6. semcnt' \in [Sem -> Int]
    BY <2>0, <2>1, <2>2
  <2>7. Agrees(s)'
    BY <1>1, <2>0, <2>1, <2>3, <2>5 DEF Agrees, InUse
  <2>8. \A z \in Sem \ {s} : semcnt'[z] = semcnt[z] /\ semq'[z] = semq[z]
    BY <2>0, <2>2
  <2>. QED
    BY <1>1, <1>2, <2>6, <2>7, <2>8, CountsKept
<1>. QED
  BY <1>3, <1>4

\* The turns and the ends of the loops.
LEMMA CountLoops ==
  ASSUME IInv, Looping, Counting,
         SignalnNext \/ SresetNext \/ SdeleteNext \/ SignalnEnd \/ SresetEnd \/ SdeleteEnd
  PROVE  Counting'
<1>0. semcnt \in [Sem -> Int] /\ semq \in [Sem -> Seq(Pid)] /\ currpid \in Pid
  BY DEF Counting, IInv, Blocked, Dispatched
<1>1. CASE SignalnNext
  <2>. DEFINE s == frame[currpid].x
  <2>1. /\ s \in Sem /\ InUse(s) /\ frame[currpid].at = "signaln" /\ CountUp(s) /\ UNCHANGED sstate
    BY <1>0, <1>1 DEF SignalnNext, Running, IInv, Resumable, FrameOK, Looping
  <2>. HIDE DEF s
  <2>. QED
    BY <2>1, CountUpAgrees
<1>2. CASE SresetNext \/ SdeleteNext
  <2>. DEFINE s == frame[currpid].x
  <2>1. /\ s \in Sem /\ frame[currpid].at \in {"sreset", "sdelete"}
        /\ semq' = [semq EXCEPT ![s] = Tail(@)]
        /\ UNCHANGED <<currpid, frame, semcnt, sstate>>
    BY <1>2, SemaphoreMoves DEF SresetNext, SdeleteNext, Running, Keep
  <2>2. \A z \in Sem \ {s} : semq'[z] = semq[z]
    BY <1>0, <2>1
  <2>. QED
    BY <2>1, <2>2, CountsWhileDraining
<1>3. CASE SignalnEnd
  BY <1>3, CountsUntouched DEF SignalnEnd, Running, semVars
<1>4. CASE SresetEnd \/ SdeleteEnd
  <2>1. PICK s \in Sem : /\ s = frame[currpid].x /\ semq[s] = <<>> /\ UNCHANGED <<sstate, semq>>
                         /\ frame[currpid].at \in {"sreset", "sdelete"}
    BY <1>0, <1>4 DEF SresetEnd, SdeleteEnd, Running, IInv, Resumable, FrameOK, semVars
  <2>2. \A z \in Sem \ {s} : Agrees(z)
    BY <2>1 DEF Counting, CountsMatchQueues, Draining, Agrees
  <2>3. CASE SresetEnd
    <3>1. semcnt' = [semcnt EXCEPT ![s] = frame[currpid].n] /\ frame[currpid].n \in Nat
      BY <1>0, <2>1, <2>3 DEF SresetEnd, Looping
    <3>2. semcnt' \in [Sem -> Int] /\ semcnt'[s] \in Nat
      BY <1>0, <2>1, <3>1
    <3>3. Agrees(s)'
      BY <2>1, <3>2 DEF Agrees, InUse
    <3>4. \A z \in Sem \ {s} : semcnt'[z] = semcnt[z]
      BY <1>0, <3>1
    <3>. QED
      BY <2>1, <2>2, <3>2, <3>3, <3>4, CountsKept
  <2>4. CASE SdeleteEnd
    <3>1. UNCHANGED semcnt /\ ~InUse(s)
      BY <1>0, <2>1, <2>4 DEF SdeleteEnd, semVars, Looping, Running
    <3>2. Agrees(s)
      BY <2>1, <3>1 DEF Agrees
    <3>. QED
      BY <1>0, <2>1, <2>2, <3>1, <3>2, CountsKept
  <2>. QED
    BY <1>4, <2>3, <2>4
<1>. QED
  BY <1>1, <1>2, <1>3, <1>4

\* Every step keeps it.
LEMMA CountingInductive ==
  /\ Init => Counting
  /\ IInv /\ Looping /\ Counting /\ [Next]_vars => Counting'
<1>1. Init => Counting
  BY DEF Init, Counting, CountsMatchQueues, InUse
<1>2. IInv /\ Looping /\ Counting /\ [Next]_vars => Counting'
  <2>. SUFFICES ASSUME IInv, Looping, Counting, [Next]_vars PROVE Counting'
    OBVIOUS
  <2>1. CASE UNCHANGED vars
    BY <2>1 DEF vars, cpuVars, semVars, Counting, CountsMatchQueues, Draining, InUse
  <2>2. ASSUME UNCHANGED <<semcnt, semq, sstate>>, frame[currpid].at \notin {"sreset", "sdelete"}
        PROVE  Counting'
    BY <2>2, CountsUntouched
  <2>3. CASE ProcessCall
    BY <2>2, <2>3 DEF ProcessCall, Create, CreateRefused, Resume, Suspend, Chprio, Setnok, Kill,
                      Calling, Running, semVars
  <2>4. CASE MessageCall \/ SleepCall \/ Tick
    BY <2>2, <2>4 DEF MessageCall, SleepCall, Send, Receive, Recvtim, Recvclr, Sleep, Tick,
                      Calling, Running, semVars
  <2>5. CASE ReceiveEnd \/ RecvtimEnd \/ WakeupNext \/ WakeupEnd \/ Clpreem
    BY <2>2, <2>5 DEF ReceiveEnd, RecvtimEnd, WakeupNext, WakeupEnd, Clpreem, Running, semVars
  <2>. QED
    BY <2>1, <2>3, <2>4, <2>5, CountCalls, CountKill, CountLoops DEF Next, Continue
<1>. QED
  BY <1>1, <1>2

\* A semaphore's count below zero is the number of its waiters, whatever is
\* signalled, reset, deleted, created again or killed, and however often.
THEOREM CountsAlwaysMatchQueues == Spec => []CountsMatchQueues
<1>1. Counting => CountsMatchQueues
  BY DEF Counting
<1>. QED
  BY <1>1, InitIInv, NextIInv, LoopingInductive, CountingInductive, PTL DEF Spec

-------------------------------------------------------------------------------
(***************************************************************************)
(* The pointer the clock interrupt follows (clkint.S:18-23).               *)
(***************************************************************************)
Pointed ==
  frame[currpid].at # "wakeup" => /\ slnempty <=> clockq # <<>>
                                  /\ slnempty => sltop = Head(clockq)

\* A step from outside wakeup() that leaves the delta list alone.
LEMMA PointerKept ==
  ASSUME Pointed, frame[currpid].at # "wakeup", UNCHANGED clockVars
  PROVE  Pointed'
BY DEF Pointed, clockVars

\* insertd() leaves a list that is not empty.
LEMMA PointerAtNewHead ==
  ASSUME NEW k, NEW st, NEW f, SleepFor(k, st, f), clockq' \in Seq(Pid), Contains(clockq', currpid)
  PROVE  Pointed'
BY DEF SleepFor, Pointed, Contains

\* unsleep() moves the pointer with the head, and clears the flag with the
\* last sleeper (unsleep.c:33-37).
LEMMA PointerAfterUnsleep ==
  ASSUME IInv, Pointed, frame[currpid].at # "wakeup", NEW p \in Pid,
         pstate[p] \in {"PRSLEEP", "PRTRECV"}, Unsleep(p)
  PROVE  Pointed'
<1>1. clockq # <<>>
  BY TablesQueued DEF ListsOK, Holds, StateIs, Contains
<1>. QED
  BY <1>1 DEF Pointed, Unsleep

\* send() may take a process off the delta list.
LEMMA PointerAfterSend ==
  ASSUME IInv, Pointed, frame[currpid].at # "wakeup", NEW p \in Int, SendTo(p)
  PROVE  Pointed'
<1>1. CASE UNCHANGED clockVars
  BY <1>1, PointerKept
<1>2. CASE Accepts(p) /\ pstate[p] = "PRTRECV" /\ Unsleep(p)
  BY <1>2, PidFacts, PointerAfterUnsleep DEF Accepts
<1>. QED
  BY <1>1, <1>2 DEF SendTo

\* sleep10() and recvtim().
LEMMA PointerAfterSleep ==
  ASSUME IInv, currpid # NULLPROC, NEW k, NEW st \in {"PRSLEEP", "PRTRECV"}, NEW f, SleepFor(k, st, f)
  PROVE  Pointed'
<1>1. clockq \in Seq(Pid) /\ Holds(clockq, StateIs(pstate, {"PRSLEEP", "PRTRECV"})) /\ currpid \in Pid
      /\ currpid \notin StateIs(pstate, {"PRSLEEP", "PRTRECV"})
  BY TablesQueued DEF ListsOK, StateIs
<1>2. clockq' = DeltaList(clockq, qkey, currpid, k)
  BY DEF SleepFor
<1>3. PICK S : S = StateIs(pstate, {"PRSLEEP", "PRTRECV"})
  OBVIOUS
<1>4. /\ DeltaList(clockq, qkey, currpid, k) \in Seq(Pid)
      /\ Holds(DeltaList(clockq, qkey, currpid, k), S \cup {currpid})
  BY <1>1, <1>3, DeltaListHolds
<1>5. clockq' \in Seq(Pid) /\ Contains(clockq', currpid)
  BY <1>1, <1>2, <1>4 DEF Holds
<1>. QED
  BY <1>5, PointerAtNewHead

\* At every point but inside wakeup() the flag and the pointer are true.
LEMMA PointedInductive ==
  /\ Init => Pointed
  /\ IInv /\ Pointed /\ [Next]_vars => Pointed'
<1>1. Init => Pointed
  BY DEF Init, Pointed
<1>2. ASSUME IInv, Pointed, Next PROVE Pointed'
  <2>1. CASE ProcessCall
    <3>1. frame[currpid].at # "wakeup"
      BY <2>1 DEF ProcessCall, Create, CreateRefused, Resume, Suspend, Chprio, Setnok, Kill, Calling, Running
    <3>2. UNCHANGED clockVars \/ \E p \in Pid : SendTo(pnxtkin[p]) /\ pnxtkin[p] \in Int
      BY <1>2, <2>1 DEF ProcessCall, Create, CreateRefused, Resume, Suspend, Chprio, Setnok, Kill,
                        IInv, Resumable
    <3>. QED
      BY <1>2, <3>1, <3>2, PointerKept, PointerAfterSend
  <2>2. CASE SemaphoreCall
    BY <1>2, <2>2, PointerKept
       DEF SemaphoreCall, Screate, Wait, Signal, Sdelete, Signaln, Sreset, Calling, Running
  <2>3. CASE MessageCall
    <3>1. frame[currpid].at # "wakeup" /\ currpid # NULLPROC
      BY <2>3 DEF MessageCall, Send, Receive, Recvclr, Recvtim, Calling, Running
    <3>2. \/ UNCHANGED clockVars
          \/ \E p \in Pid : SendTo(p)
          \/ \E k, f : SleepFor(k, "PRTRECV", f)
      BY <2>3 DEF MessageCall, Send, Receive, Recvclr, Recvtim
    <3>3. Pid \subseteq Int
      BY NPROCAssumption DEF Pid
    <3>. QED
      BY <1>2, <3>1, <3>2, <3>3, PointerKept, PointerAfterSend, PointerAfterSleep
  <2>4. CASE SleepCall
    <3>1. frame[currpid].at # "wakeup" /\ currpid # NULLPROC
      BY <2>4 DEF SleepCall, Sleep, Calling, Running
    <3>2. UNCHANGED clockVars \/ \E k, f : SleepFor(k, "PRSLEEP", f)
      BY <2>4 DEF SleepCall, Sleep
    <3>. QED
      BY <1>2, <3>1, <3>2, PointerKept, PointerAfterSleep
  <2>5. CASE \/ Tick \/ SignalnNext \/ SignalnEnd \/ SresetNext \/ SresetEnd \/ SdeleteNext
             \/ SdeleteEnd \/ ReceiveEnd \/ RecvtimEnd \/ Clpreem
    BY <1>2, <2>5, PointerKept
       DEF Tick, SignalnNext, SignalnEnd, SresetNext, SresetEnd, SdeleteNext, SdeleteEnd,
           ReceiveEnd, RecvtimEnd, Clpreem, Running
  <2>6. CASE KillEnd
    <3>. DEFINE p == frame[currpid].x
    <3>1. p \in Pid /\ frame[currpid].at # "wakeup"
      BY <1>2, <2>6, ProcessMoves DEF KillEnd, Running
    <3>2. UNCHANGED clockVars \/ (pstate[p] \in {"PRSLEEP", "PRTRECV"} /\ Unsleep(p))
      BY <2>6 DEF KillEnd
    <3>. HIDE DEF p
    <3>. QED
      BY <1>2, <3>1, <3>2, PointerKept, PointerAfterUnsleep
  <2>7. CASE WakeupNext
    <3>1. UNCHANGED <<currpid, frame>> /\ frame[currpid].at = "wakeup"
      BY <2>7 DEF WakeupNext, Keep, Running
    <3>. QED
      BY <3>1 DEF Pointed
  <2>8. CASE WakeupEnd
    BY <2>8 DEF WakeupEnd, Pointed
  <2>. QED
    BY <1>2, <2>1, <2>2, <2>3, <2>4, <2>5, <2>6, <2>7, <2>8 DEF Next, Continue
<1>3. IInv /\ Pointed /\ [Next]_vars => Pointed'
  BY <1>2 DEF vars, cpuVars, clockVars, Pointed
<1>. QED
  BY <1>1, <1>3

\* Whenever an interrupt can come, slnempty and sltop tell the truth about the
\* delta list: clkint looks at nothing else.
THEOREM SleepPointerAlwaysValid == Spec => []SleepPointerValid
<1>1. Pointed => SleepPointerValid
  BY DEF Pointed, SleepPointerValid, Running
<1>. QED
  BY <1>1, InitIInv, NextIInv, PointedInductive, PTL DEF Spec
===============================================================================
