------------------------------- MODULE SleepTimes -------------------------------
(***************************************************************************)
(* The delta list of Clock implements Alarms: what a sleeper has left is   *)
(* the sum of the deltas up to and including its own.                      *)
(***************************************************************************)
EXTENDS Kernel

Remaining ==
  LET place(p) == SelectInSeq(clockq, LAMBDA r : r = p)
      sum == Residue(clockq, qkey, 0)
  IN  [p \in ToSet(clockq) |-> -sum[place(p)]]

SleepAlarms == INSTANCE Alarms
                 WITH Sleepers <- Pid, AskedTicks <- Delays, left <- Remaining

\* Nobody sleeps less than it asked for, whoever else goes to sleep, wakes, is
\* sent a message or is killed meanwhile: insertd, unsleep, wakeup and clkint
\* keep the deltas adding up (insertd.c:16, unsleep.c:31, clkint.S:21).
SleepImplementsAlarms == SleepAlarms!Spec
===============================================================================
