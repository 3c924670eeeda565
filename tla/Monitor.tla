------------------------------ MODULE Monitor ------------------------------
(***************************************************************************)
(* What the semaphores and event flags of hle.c promise the guest's        *)
(* threads: a wait takes from its object in one step, when and only when   *)
(* the object satisfies it, and until then it changes nothing.  How the    *)
(* thread is parked, woken and resumed does not show.                      *)
(***************************************************************************)
EXTENDS Integers, FiniteSets

CONSTANTS Slots, Semas, Flags, TableSize, Bits, MaxCount, Timeouts, Never, NoObj

VARIABLES
    val,        \* the count or the pattern of each object
    unborn,     \* objects not created yet
    live,       \* objects that exist
    waiting,    \* for each thread, the object it waits for and its arguments
    dormant     \* the threads that have ended; it changes freely

Wants(o) ==
    IF o \in Semas THEN [need : 1 .. MaxCount, usec : Timeouts]
    ELSE [bits : SUBSET Bits \ {{}}, any : BOOLEAN,
          clear : {"none", "bits", "all"}, usec : Timeouts]

NotWaiting == [obj |-> NoObj]

Enough(o, w) ==
    IF o \in Semas THEN val[o] >= w.need
    ELSE IF w.any THEN \E b \in w.bits : b \in val[o] ELSE \A b \in w.bits : b \in val[o]

Remainder(o, w) ==
    IF o \in Semas THEN val[o] - w.need
    ELSE CASE w.clear = "none" -> val[o]
           [] w.clear = "bits" -> {b \in val[o] : b \notin w.bits}
           [] w.clear = "all"  -> {}

MonitorInit ==
    /\ val = [o \in Semas \cup Flags |-> IF o \in Semas THEN 0 ELSE {}]
    /\ unborn = Semas \cup Flags
    /\ live = {}
    /\ waiting = [t \in Slots |-> NotWaiting]

Values(o) == IF o \in Semas THEN 0 .. MaxCount ELSE SUBSET Bits

Make(o) ==
    /\ o \in unborn /\ Cardinality(live) < TableSize
    /\ unborn' = unborn \ {o} /\ live' = live \cup {o}
    /\ \E v \in Values(o) : val' = [val EXCEPT ![o] = v]
    /\ UNCHANGED waiting

Remove(o) == o \in live /\ live' = live \ {o} /\ UNCHANGED <<val, unborn, waiting>>

(* The guest raises or lowers the object itself; a wait is not involved.   *)
Change(o) ==
    /\ o \in live
    /\ \E v \in Values(o) : val' = [val EXCEPT ![o] = v]
    /\ UNCHANGED <<unborn, live, waiting>>

Begin(t, o, w) ==
    /\ waiting[t] = NotWaiting /\ o \in live /\ ~Enough(o, w)
    /\ waiting' = [waiting EXCEPT ![t] = [obj |-> o, want |-> w]]
    /\ UNCHANGED <<val, unborn, live>>

(* A wait completes: at once, which is a Change, or after it began.        *)
Complete(t) ==
    LET o == waiting[t].obj
        w == waiting[t].want
    IN /\ waiting[t] # NotWaiting /\ o \in live /\ Enough(o, w)
       /\ val' = [val EXCEPT ![o] = Remainder(o, w)]
       /\ waiting' = [waiting EXCEPT ![t] = NotWaiting]
       /\ UNCHANGED <<unborn, live>>

(* A wait without a timeout, on an object that exists, is given up only    *)
(* when its thread is ended.                                               *)
Abandon(t) ==
    /\ waiting[t] # NotWaiting
    /\ \/ waiting[t].want.usec # Never
       \/ waiting[t].obj \notin live
       \/ t \in dormant'
    /\ waiting' = [waiting EXCEPT ![t] = NotWaiting]
    /\ UNCHANGED <<val, unborn, live>>

MonitorNext ==
    \/ \E o \in Semas \cup Flags : Make(o) \/ Remove(o) \/ Change(o)
    \/ \E t \in Slots : Complete(t) \/ Abandon(t)
    \/ \E t \in Slots, o \in live : \E w \in Wants(o) : Begin(t, o, w)

MonitorSpec == MonitorInit /\ [][MonitorNext]_<<val, unborn, live, waiting>>
=============================================================================
