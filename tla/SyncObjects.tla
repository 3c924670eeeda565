---------------------------- MODULE SyncObjects ----------------------------
(***************************************************************************)
(* The semaphores and event flags of hle.c, h_CreateSema to                *)
(* h_PollEventFlag, on top of the scheduler: a wait is a loop around       *)
(* sched_block_on or sched_block_on_timeout, and a signal wakes every      *)
(* waiter of the object and may preempt the caller.                        *)
(*                                                                         *)
(* Uids are never reused, so an object is identified with its uid.  The    *)
(* code does not mark an object's kind; the guest uses each uid as what it *)
(* was created as.  `val' is the count of a semaphore or the set of bits   *)
(* of a flag's pattern, and `want' the arguments of the wait call a thread *)
(* is parked in.                                                           *)
(***************************************************************************)
EXTENDS Scheduler

CONSTANTS
    Semas,      \* uids of semaphores the guest may create
    Flags,      \* uids of event flags the guest may create
    TableSize,  \* entries of s_sync, 128
    Bits,       \* bits of an event flag the guest uses
    MaxCount,   \* bound: the highest count of a semaphore
    Timeouts    \* timeouts the guest asks for; Never is no timeout

ASSUME SyncAssumption ==
    /\ OtherObjs = Semas \cup Flags /\ Semas \cap Flags = {}
    /\ OtherObjs \cap Slots = {} /\ NoObj \notin OtherObjs
    /\ TableSize \in Nat /\ MaxCount \in Nat
    /\ Timeouts \subseteq {Never} \cup (Nat \ {0})

VARIABLES
    val,        \* count or pattern of each object
    unborn,     \* uids not handed out yet
    live,       \* objects in the table
    want        \* the arguments of each thread's wait

syncVars == <<val, unborn, live, want>>

SemaWants == [need : 1 .. MaxCount, usec : Timeouts]

(* mode bit 0 asks for any of the bits instead of all; 0x20 clears the     *)
(* bits waited for, else 0x10 clears the pattern.                          *)
FlagWants == [bits : SUBSET Bits \ {{}}, any : BOOLEAN,
              clear : {"none", "bits", "all"}, usec : Timeouts]

Wants(o) == IF o \in Semas THEN SemaWants ELSE FlagWants

NoWant == [usec |-> Never]

-----------------------------------------------------------------------------
(* evf_match, and the test of the semaphore's loop.                        *)
Satisfied(o, w) ==
    IF o \in Semas THEN val[o] >= w.need
    ELSE IF w.any THEN val[o] \cap w.bits # {} ELSE w.bits \subseteq val[o]

(* What a satisfied wait leaves of the object.                             *)
Taken(o, w) ==
    IF o \in Semas THEN val[o] - w.need
    ELSE CASE w.clear = "none" -> val[o]
           [] w.clear = "bits" -> val[o] \ w.bits
           [] w.clear = "all"  -> {}

SyncInit ==
    /\ Init
    /\ val = [o \in OtherObjs |-> IF o \in Semas THEN 0 ELSE {}]
    /\ unborn = OtherObjs
    /\ live = {}
    /\ want = [t \in Slots |-> NoWant]

(* The value of an object changes and the call goes on.                    *)
Update(o, v) == val' = [val EXCEPT ![o] = v]

Create(o, v) ==
    /\ InGuest
    /\ o \in unborn
    /\ Cardinality(live) < TableSize
    /\ Update(o, v)
    /\ unborn' = unborn \ {o}
    /\ live' = live \cup {o}
    /\ CallReturns(tcb)
    /\ TimeStands /\ UNCHANGED <<ntcb, handler, want>>

(* h_DeleteSema, h_DeleteEventFlag: the waiters are left alone.            *)
Delete(o) ==
    /\ InGuest
    /\ o \in live
    /\ live' = live \ {o}
    /\ CallReturns(tcb)
    /\ TimeStands /\ UNCHANGED <<ntcb, handler, val, unborn, want>>

(* sched_wake and sched_preempt after the object changed.                  *)
WokenOnlyOne(tc, o) ==         \* variant: one waiter only
    LET waiters == {t \in Slots : tc[t].state = "WAIT_OBJ" /\ tc[t].wait_obj = o}
    IN IF waiters = {} THEN tc
       ELSE [tc EXCEPT ![CHOOSE t \in waiters : TRUE].state = "READY"]

Woken(tc, o) == Wake(tc, o)

Signal(o, v) ==
    /\ InGuest
    /\ o \in live
    /\ Update(o, v)
    /\ Preempt(Woken(tcb, o))
    /\ TimeStands /\ UNCHANGED <<ntcb, handler, unborn, live, want>>

SignalSema(o, n) == val[o] + n <= MaxCount /\ Signal(o, val[o] + n)

SetEventFlag(o, bits) == Signal(o, val[o] \cup bits)

(* h_ClearEventFlag keeps the bits of its mask; h_PollSema takes, if it    *)
(* can, without waiting.  Neither wakes anyone.                            *)
Lower(o, v) ==
    /\ InGuest
    /\ o \in live
    /\ Update(o, v)
    /\ CallReturns(tcb)
    /\ TimeStands /\ UNCHANGED <<ntcb, handler, unborn, live, want>>

ClearEventFlag(o, mask) == Lower(o, val[o] \cap mask)

PollSema(o, need) == val[o] >= need /\ Lower(o, val[o] - need)

-----------------------------------------------------------------------------
(* Waiting: h_WaitSema and h_WaitEventFlag.  Each pass of the loop either  *)
(* takes, or parks the thread until a wake or the deadline; the clock has  *)
(* advanced by d when a timed pass computes its deadline.                  *)
Parks(tc, passed, o, w) ==
    /\ \E d \in IF w.usec = Never THEN {0} ELSE Elapses :
          /\ SwitchAway(Block(Elapse(tc, d), cur, o, w.usec, "object"))
          /\ due' = DueAfter(passed + d)
    /\ want' = [want EXCEPT ![cur] = w]
    /\ UNCHANGED val

Wait(o, w) ==
    /\ InGuest
    /\ o \in live
    /\ \/ Satisfied(o, w) /\ Update(o, Taken(o, w)) /\ CallReturns(tcb) /\ UNCHANGED <<due, want>>
       \/ ~Satisfied(o, w) /\ Parks(tcb, 0, o, w)
    /\ UNCHANGED <<ntcb, handler, stopped, unborn, live>>

(* The wait of the running thread returns to the guest from table tc.      *)
Leaves(tc) ==
    /\ CallReturns([tc EXCEPT ![cur] = [@ EXCEPT !.call = "guest", !.wake = 0, !.wait_obj = NoObj]])
    /\ want' = [want EXCEPT ![cur] = NoWant]

(* Resumed inside the loop.  A timed wait reads the clock first: a passed  *)
(* deadline ends the call with WAIT_TIMEOUT whatever woke the thread.      *)
(* Otherwise the object may be gone, or satisfy the wait, or have been     *)
(* taken by a thread that ran before: then the thread blocks again, with   *)
(* its timeout in full.                                                    *)
InWait == cur # Scheduling /\ tcb[cur].call = "object"

TimesOut(tc) == want[cur].usec # Never /\ tc[cur].wake = 0

ResumeAfterOnce(d) ==          \* variant: "if" for "while", no second test
    LET o == tcb[cur].wait_obj
        w == want[cur]
        tc == Elapse(tcb, d)
    IN \/ /\ TimesOut(tc) \/ o \notin live
          /\ Leaves(tc) /\ due' = DueAfter(d) /\ UNCHANGED val
       \/ /\ ~TimesOut(tc) /\ o \in live
          /\ Leaves(tc) /\ due' = DueAfter(d) /\ Update(o, Taken(o, w))

ResumeAfter(d) ==
    LET o == tcb[cur].wait_obj
        w == want[cur]
        tc == Elapse(tcb, d)
    IN \/ /\ TimesOut(tc) \/ o \notin live
          /\ Leaves(tc) /\ due' = DueAfter(d) /\ UNCHANGED val
       \/ /\ ~TimesOut(tc) /\ o \in live /\ Satisfied(o, w)
          /\ Leaves(tc) /\ due' = DueAfter(d) /\ Update(o, Taken(o, w))
       \/ /\ ~TimesOut(tc) /\ o \in live /\ ~Satisfied(o, w)
          /\ Parks(tc, d, o, w)

ResumeWait ==
    /\ InWait
    /\ \E d \in IF want[cur].usec = Never THEN {0} ELSE Elapses : ResumeAfter(d)
    /\ UNCHANGED <<ntcb, handler, stopped, unborn, live>>

-----------------------------------------------------------------------------
SyncCall ==
    \/ \E o \in Semas :
          \/ \E n \in 0 .. MaxCount : Create(o, n)
          \/ \E n \in 1 .. MaxCount : SignalSema(o, n) \/ PollSema(o, n)
    \/ \E o \in Flags :
          \/ \E bits \in SUBSET Bits : Create(o, bits)
          \/ \E bits \in SUBSET Bits \ {{}} : SetEventFlag(o, bits)
          \/ \E mask \in SUBSET Bits \ {Bits} : ClearEventFlag(o, mask)
    \/ \E o \in OtherObjs : Delete(o)
    \/ \E o \in OtherObjs : \E w \in Wants(o) : Wait(o, w)

SyncNext ==
    \/ SyncCall
    \/ ResumeWait
    \/ Next /\ UNCHANGED syncVars

SyncSpec == SyncInit /\ [][SyncNext]_<<vars, syncVars>>

(* As in the scheduler, with the resumed wait call for ResumeWaitEnd.      *)
SyncFairness ==
    /\ WF_<<vars, syncVars>>(SchedulerStep /\ UNCHANGED syncVars)
    /\ WF_<<vars, syncVars>>(ResumeWaitEnd /\ UNCHANGED syncVars)
    /\ WF_<<vars, syncVars>>(Yield /\ UNCHANGED syncVars)
    /\ WF_<<vars, syncVars>>(ResumeWait)

FairSyncSpec == SyncSpec /\ SyncFairness

-----------------------------------------------------------------------------
Parked(t) == tcb[t].call = "object" /\ tcb[t].state = "WAIT_OBJ"

(* The scheduler's variables keep their types, and the objects theirs.     *)
SyncTypeOK ==
    /\ TypeOK
    /\ \A o \in Semas : val[o] \in 0 .. MaxCount
    /\ \A o \in Flags : val[o] \subseteq Bits
    /\ live \subseteq OtherObjs \ unborn /\ Cardinality(live) <= TableSize
    /\ \A t \in Slots : want[t] \in {NoWant} \cup SemaWants \cup FlagWants
    /\ \A t \in Allocated : Parked(t) => /\ tcb[t].wait_obj \in OtherObjs
                                          /\ want[t] \in Wants(tcb[t].wait_obj)

(* No signal is lost: a thread still parked on an object could not take    *)
(* from it.  Every change that can satisfy a wait wakes all the waiters,   *)
(* and one that comes too late tests the object again before it parks.     *)
NoSatisfiedWaiter ==
    \A t \in Allocated :
        Parked(t) /\ tcb[t].wait_obj \in live => ~Satisfied(tcb[t].wait_obj, want[t])

(* A wait is left early for a cause: before its deadline a parked thread   *)
(* is made ready only by a signal of the object it waits for, or by a      *)
(* sceKernelStartThread aimed at it.                                       *)
WaitNotCutShort ==
    [][\A t \in Allocated :
          /\ Parked(t) /\ tcb[t].wake # 0
          /\ tcb'[t].state = "READY"
          => \/ StartThread(t)
             \/ LET o == tcb[t].wait_obj
                IN IF o \in Semas THEN \E n \in 1 .. MaxCount : SignalSema(o, n)
                                  ELSE \E b \in SUBSET Bits : SetEventFlag(o, b)]_<<vars, syncVars>>

(* When every other thread is blocked or dormant, a wait with a timeout    *)
(* ends: its deadline is one the idle loop reaches.                        *)
LoneTimedWait(t) ==
    /\ Parked(t) /\ tcb[t].wake # Never
    /\ \A u \in Slots \ {t} : tcb[u].state \in Waits \cup {"DORMANT"}

LoneTimedWaitEnds == \A t \in Slots : LoneTimedWait(t) ~> ~LoneTimedWait(t)

(* Blocking and waking are invisible: to the threads, the objects behave   *)
(* as in Monitor, where a wait takes in one step as soon as it may.        *)
WaitingFor(t) ==
    IF tcb[t].call = "object" /\ tcb[t].state # "DORMANT"
    THEN [obj |-> tcb[t].wait_obj, want |-> want[t]] ELSE [obj |-> NoObj]

AbstractObjects == INSTANCE Monitor WITH
    waiting <- [t \in Slots |-> WaitingFor(t)],
    dormant <- {t \in Slots : tcb[t].state = "DORMANT"}

ImplementsMonitor == AbstractObjects!MonitorSpec
=============================================================================
