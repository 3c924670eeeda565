----------------------------- MODULE MCWaiters -----------------------------
(***************************************************************************)
(* Several waiters: three threads on a semaphore, or two on a flag, as     *)
(* chosen at the start.  The guest is that of MCSyncObjects, which makes   *)
(* only what the chosen object needs.                                      *)
(***************************************************************************)
EXTENDS MCSyncObjects

VARIABLE part

WaitersInit == part \in {"semaphore", "flag"} /\ SyncInit

(* No object of the other kind is created, and with the flag no third      *)
(* thread.                                                                 *)
OnlyWithSemaphore ==
    /\ part = "semaphore" /\ PlainNext
    /\ live' \cap Flags = {}

OnlyWithFlag ==
    /\ part = "flag" /\ PlainNext
    /\ live' \cap Semas = {}
    /\ Cardinality(Allocated') <= 2

WaitersNext == (OnlyWithSemaphore \/ OnlyWithFlag) /\ UNCHANGED part

WaitersSpec == WaitersInit /\ [][WaitersNext]_<<part, vars, syncVars>>
=============================================================================
