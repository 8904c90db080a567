-------------------------------- MODULE Messages --------------------------------
(***************************************************************************)
(* One-slot messages: send.c, receive.c, recvclr.c and recvtim.c.  What a  *)
(* message says is left out: a process has one (phasmsg) or has none.      *)
(***************************************************************************)
EXTENDS Clock

Accepts(p) == ~isbadpid(p) /\ pstate[p] # "PRFREE" /\ ~phasmsg[p]

\* The effect of send(p, ...): refused when p is no process or still has a
\* message, and a receiver that waits is started at once.
SendTo(p) ==
  \/ /\ ~Accepts(p)
     /\ UNCHANGED <<phasmsg, cpuVars, clockVars>>
  \/ /\ Accepts(p)
     /\ phasmsg' = [phasmsg EXCEPT ![p] = TRUE]
     /\ \/ /\ pstate[p] = "PRRECV"
           /\ ReadyNow(Tables, p)
           /\ UNCHANGED clockVars
        \/ /\ pstate[p] = "PRTRECV"
           /\ Unsleep(p)
           /\ ReadyNow([Tables EXCEPT !.qkey = UnsleepKeys(p)], p)
        \/ /\ pstate[p] \notin {"PRRECV", "PRTRECV"}
           /\ UNCHANGED <<cpuVars, clockVars>>

Send(p) ==
  /\ Calling("send")
  /\ Accepts(p)
  /\ SendTo(p)
  /\ UNCHANGED <<semVars, frame, nextproc, numproc, pprio, psem, pwaitret, pnxtkin>>

\* The message of the running process is taken.
TakeMessage ==
  /\ phasmsg' = [phasmsg EXCEPT ![currpid] = FALSE]
  /\ UNCHANGED <<nextproc, numproc, pprio, psem, pwaitret, pnxtkin>>

Receive ==
  /\ Calling("receive")
  /\ \/ /\ phasmsg[currpid]
        /\ TakeMessage
        /\ UNCHANGED <<cpuVars, frame>>
     \/ /\ ~phasmsg[currpid]
        /\ Leave(At("receive", 0, 0))
        /\ Resched(SetState(Tables, currpid, "PRRECV"), preempt)
        /\ UNCHANGED tableVars
  /\ UNCHANGED <<clockVars, semVars>>

Recvtim(maxwait) ==
  /\ Calling("recvtim")
  /\ maxwait \in Delays
  /\ \/ /\ phasmsg[currpid]
        /\ TakeMessage
        /\ UNCHANGED <<cpuVars, clockVars, frame>>
     \/ /\ ~phasmsg[currpid]
        /\ SleepFor(maxwait, "PRTRECV", At("recvtim", 0, 0))
        /\ UNCHANGED tableVars
  /\ UNCHANGED semVars

\* receive() after resched(): it returns pmsg and clears phasmsg, whatever
\* phasmsg is.
ReceiveEnd ==
  /\ Running("receive")
  /\ TakeMessage
  /\ Leave(User)
  /\ UNCHANGED <<cpuVars, clockVars, semVars>>

\* recvtim() after resched(): the message if one has come, else TIMEOUT.
RecvtimEnd ==
  /\ Running("recvtim")
  /\ IF phasmsg[currpid] THEN TakeMessage ELSE UNCHANGED tableVars
  /\ Leave(User)
  /\ UNCHANGED <<cpuVars, clockVars, semVars>>

Recvclr ==
  /\ Calling("recvclr")
  /\ phasmsg[currpid]
  /\ TakeMessage
  /\ UNCHANGED <<cpuVars, clockVars, semVars, frame>>
===============================================================================
