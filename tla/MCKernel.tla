------------------------------- MODULE MCKernel -------------------------------
(***************************************************************************)
(* Instances of Kernel for TLC: the mixes of system calls.                 *)
(***************************************************************************)
EXTENDS SleepTimes

SemaphoreCalls == {"resume", "screate", "wait", "signal", "signaln", "sreset",
                   "sdelete", "kill", "chprio"}
MessageCalls == {"resume", "suspend", "sleep", "send", "receive", "recvclr",
                 "recvtim", "kill"}
KillCalls == {"create", "resume", "receive", "screate", "wait", "signal",
              "kill", "setnok"}
TimeSharingCalls == {"resume", "suspend", "sleep"}
===============================================================================
