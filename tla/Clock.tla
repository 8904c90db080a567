--------------------------------- MODULE Clock ---------------------------------
(***************************************************************************)
(* The delta list of sleeping processes and the clock interrupt:           *)
(* insertd.c, sleep10.c, unsleep.c, wakeup.c and clkint.S.                 *)
(***************************************************************************)
EXTENDS KernelState

CONSTANT Delays   \* ticks that sleeping processes of the instance ask for

ASSUME DelaysAssumption == Delays \subseteq Nat

\* What is left of a delay k after each entry of the delta list: the local
\* `key' of insertd() when it has passed i entries.
Residue(list, key, k) ==
  LET left[i \in 0..Len(list)] ==
        IF i = 0 THEN k ELSE left[i - 1] - key[list[i]]
  IN  left

\* Faulty: p stops before an entry with a smaller delta.
DeltaPositionReversed(list, key, k) ==
  Min({i \in 1..Len(list) : key[list[i]] <= Residue(list, key, k)[i - 1]}
      \cup {Len(list) + 1})

\* insertd(p, clockq, k): p stops before the first entry whose own delta is
\* not below what is left of k; that entry's delta is then counted from p.
DeltaPosition(list, key, k) ==
  Min({i \in 1..Len(list) : key[list[i]] >= Residue(list, key, k)[i - 1]}
      \cup {Len(list) + 1})

DeltaList(list, key, p, k) == InsertAt(list, DeltaPosition(list, key, k), p)

DeltaKeys(list, key, p, k) ==
  LET i == DeltaPosition(list, key, k)
      left == Residue(list, key, k)[i - 1]
      mine == [key EXCEPT ![p] = left]
  IN  IF i <= Len(list) THEN [mine EXCEPT ![list[i]] = @ - left] ELSE mine

\* Faulty: slnempty is not set, so the clock interrupt skips the list.
SleepForUnflagged(k, st, f) ==
  LET list == DeltaList(clockq, qkey, currpid, k)
      keys == DeltaKeys(clockq, qkey, currpid, k)
  IN  /\ clockq' = list
      /\ sltop' = Head(list)
      /\ Leave(f)
      /\ Resched([SetState(Tables, currpid, st) EXCEPT !.qkey = keys], preempt)
      /\ UNCHANGED slnempty

\* The running process goes on the delta list for k ticks in state st and
\* gives the CPU up; it will go on at f.
SleepFor(k, st, f) ==
  LET list == DeltaList(clockq, qkey, currpid, k)
      keys == DeltaKeys(clockq, qkey, currpid, k)
  IN  /\ clockq' = list
      /\ slnempty' = TRUE
      /\ sltop' = Head(list)
      /\ Leave(f)
      /\ Resched([SetState(Tables, currpid, st) EXCEPT !.qkey = keys], preempt)

\* sleep(), sleep10(), sleep100(), sleep1000(): a delay of 0 ends the time
\* slice, any other puts the caller on the delta list.
Sleep(k) ==
  /\ Calling("sleep")
  /\ k \in Delays
  /\ IF k = 0
     THEN Resched(Tables, preempt) /\ UNCHANGED <<clockVars, frame>>
     ELSE SleepFor(k, "PRSLEEP", User)
  /\ UNCHANGED <<semVars, tableVars>>

\* Faulty: the entry behind p loses the ticks p had left; the head is left out
\* of date; the entry stays.
UnsleepKeysLost(p) == qkey
UnsleepOldHead(p) ==
  /\ clockq' = Dequeue(clockq, p)
  /\ slnempty' = (clockq' # <<>>)
  /\ UNCHANGED sltop
UnsleepStays(p) == UNCHANGED <<clockq, slnempty, sltop>>

\* unsleep(p): the entry behind p inherits p's delta.  The caller of these
\* three has checked that p is on the delta list.
UnsleepKeys(p) ==
  LET i == SelectInSeq(clockq, LAMBDA r : r = p)
  IN  IF i \in 1..Len(clockq) - 1
      THEN [qkey EXCEPT ![clockq[i + 1]] = @ + qkey[p]]
      ELSE qkey

Unsleep(p) ==
  LET list == Dequeue(clockq, p)
  IN  /\ clockq' = list
      /\ IF list # <<>>
         THEN sltop' = Head(list) /\ UNCHANGED slnempty
         ELSE slnempty' = FALSE /\ UNCHANGED sltop

-------------------------------------------------------------------------------
(***************************************************************************)
(* clkint, the clock interrupt: the key of the first sleeper, then the     *)
(* loop of wakeup(), then the preemption counter.  wakeup() ends in        *)
(* resched(): if it switches, the interrupted process goes on at clpreem   *)
(* when it is next dispatched.                                             *)
(***************************************************************************)
Tick ==
  /\ Running("user")
  /\ IF slnempty
     THEN LET left == qkey[sltop] - 1
          IN  /\ qkey' = [qkey EXCEPT ![sltop] = left]
              /\ Leave(At(IF left > 0 THEN "clpreem" ELSE "wakeup", 0, 0))
     ELSE UNCHANGED qkey /\ Leave(At("clpreem", 0, 0))
  /\ UNCHANGED <<currpid, preempt, pstate, rdy, clockVars, semVars, tableVars>>

\* The condition of wakeup()'s loop.
FirstIsDue == clockq # <<>> /\ qkey[Head(clockq)] <= 0

\* One turn of wakeup()'s loop: the first sleeper is due.
WakeupNext ==
  /\ Running("wakeup")
  /\ FirstIsDue
  /\ clockq' = Tail(clockq)
  /\ Keep(Ready(Tables, Head(clockq)))
  /\ UNCHANGED <<preempt, slnempty, sltop, semVars, tableVars, frame>>

\* The end of wakeup(), back in clkint at clpreem.
WakeupEnd ==
  /\ Running("wakeup")
  /\ ~FirstIsDue
  /\ slnempty' = (clockq # <<>>)
  /\ sltop' = IF clockq # <<>> THEN Head(clockq) ELSE sltop
  /\ Leave(At("clpreem", 0, 0))
  /\ Resched(Tables, preempt)
  /\ UNCHANGED <<clockq, semVars, tableVars>>

\* clpreem: preempt is cut at 0; the code tests only whether it is positive.
Clpreem ==
  /\ Running("clpreem")
  /\ LET ticks == IF preempt > 0 THEN preempt - 1 ELSE 0
     IN  IF ticks > 0
         THEN preempt' = ticks /\ UNCHANGED <<currpid, pstate, rdy, qkey>>
         ELSE Resched(Tables, ticks)
  /\ Leave(User)
  /\ UNCHANGED <<clockVars, semVars, tableVars>>
===============================================================================
