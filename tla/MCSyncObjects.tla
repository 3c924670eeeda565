--------------------------- MODULE MCSyncObjects ---------------------------
(***************************************************************************)
(* Constants of the runs of SyncObjects, and a smaller guest for the runs  *)
(* with several waiters or flags: its threads make no thread calls but     *)
(* those that start, end and delay threads.                                *)
(***************************************************************************)
EXTENDS SyncObjects

Forever      == {Never}
SomeTimeouts == {Never, 2}
LongAndShort == {1, 3}

PlainCall ==
    \/ \E p \in Prios : CreateThread(p)
    \/ \E u \in Allocated : StartThread(u) \/ TerminateThread(u)
    \/ \E usec \in Delays : DelayThread(usec)
    \/ ExitThread
    \/ Yield

PlainNext ==
    \/ SyncCall
    \/ ResumeWait
    \/ (PlainCall \/ SchedulerStep \/ Finished) /\ UNCHANGED syncVars

PlainSpec == SyncInit /\ [][PlainNext]_<<vars, syncVars>>

(* The guest of the liveness run also waits for vblanks.                   *)
LiveNext == PlainNext \/ (WaitVblank /\ UNCHANGED syncVars)

FairLiveSpec == SyncInit /\ [][LiveNext]_<<vars, syncVars>> /\ SyncFairness

(* When every other thread is blocked or dormant, what a thread waits for  *)
(* with a deadline ends: a delay, or a timed wait for an object.           *)
LoneWaitsEnd == LoneDelayEnds /\ LoneTimedWaitEnds
=============================================================================
