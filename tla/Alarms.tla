--------------------------------- MODULE Alarms ---------------------------------
(***************************************************************************)
(* What the sleep queue promises: every sleeper has an alarm of its own,   *)
(* set to the ticks it asked for; a clock tick brings every alarm one tick *)
(* nearer; an alarm goes off only when its time is up; and setting or      *)
(* cancelling one leaves the others alone.  An alarm set to no ticks at    *)
(* all goes off at the next tick and may hold the others up by that tick.  *)
(***************************************************************************)
EXTENDS Integers

CONSTANTS Sleepers, AskedTicks

VARIABLE left   \* ticks to go, for every sleeper whose alarm is set

Set(p, k) ==
  /\ p \notin DOMAIN left
  /\ left' = [r \in DOMAIN left \cup {p} |-> IF r = p THEN k ELSE left[r]]

Cancel(p) ==
  /\ p \in DOMAIN left
  /\ left' = [r \in DOMAIN left \ {p} |-> left[r]]

Advance ==
  /\ \A p \in DOMAIN left : left[p] >= 0
  /\ left' = [p \in DOMAIN left |-> left[p] - 1]

\* The alarm of p is up.  The others lose no time, and gain at most the tick
\* by which p was overdue.
Expire(p) ==
  /\ p \in DOMAIN left
  /\ left[p] <= 0
  /\ \E late \in {0, -left[p]} :
        left' = [r \in DOMAIN left \ {p} |-> left[r] + late]
  /\ left[p] >= -1

Init == left = [p \in {} |-> 0]

Next ==
  \/ \E p \in Sleepers, k \in AskedTicks : Set(p, k)
  \/ \E p \in Sleepers : Cancel(p) \/ Expire(p)
  \/ Advance

Spec == Init /\ [][Next]_left
===============================================================================
