----------------------------- MODULE SyncClaims -----------------------------
(***************************************************************************)
(* What a comment says of the timed wait and the code does not do.  The    *)
(* history variable `signalled' holds the threads whose current pass of    *)
(* the wait loop a signal ended and that have not been resumed since.      *)
(***************************************************************************)
EXTENDS SyncObjects

VARIABLE signalled

LongAndShort == {1, 3}

JustSignalled(t) ==
    SyncCall /\ Parked(t) /\ tcb[t].wake > 0 /\ tcb'[t].state = "READY"

ClaimInit == SyncInit /\ signalled = {}

ClaimNext ==
    /\ SyncNext
    /\ signalled' = {t \in Slots : /\ tcb'[t].call = "object"
                                   /\ tcb'[t].state \in {"READY", "RUNNING"}
                                   /\ t \in signalled \/ JustSignalled(t)}

ClaimSpec == ClaimInit /\ [][ClaimNext]_<<vars, syncVars, signalled>>

(* sched.c:429-430, "Returns 1 if it timed out (the deadline passed), 0 if *)
(* it was woken by a signal": the wait of a thread that a signal woke, on  *)
(* a semaphore that exists, does not leave the loop without taking.        *)
ReturnsEmpty ==
    ResumeWait /\ tcb'[cur].call = "guest" /\ tcb[cur].wait_obj \in live /\ UNCHANGED val

SignalIsNotTimeout ==
    [][~(ReturnsEmpty /\ cur \in signalled)]_<<vars, syncVars, signalled>>
=============================================================================
