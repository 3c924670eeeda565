----------------------------- MODULE Scheduler -----------------------------
(***************************************************************************)
(* The cooperative thread scheduler of the recompiled game, sched.c, with  *)
(* the thread-management handlers of hle.c that call it.                   *)
(*                                                                         *)
(* Guest threads run on fibers, one at a time, and give the processor back *)
(* by yielding, blocking, exiting or being preempted by a thread they made *)
(* ready.  One action is one call of a guest thread up to the moment it    *)
(* either returns to guest code or switches to the scheduler, or one pass  *)
(* of the loop of sched_run.                                               *)
(*                                                                         *)
(* Time is kept relative to the virtual clock s_vtime_us: the code only    *)
(* ever compares a deadline with the clock, so a thread's `wake' is the    *)
(* time left to its deadline and `due' the time left to the next vblank    *)
(* (negative when overdue).  Reading the host clock lets 0..MaxElapse      *)
(* units pass.  The vblank latch vbl_seen # s_vbl_count is one bit,        *)
(* `fresh'.  A thread's uid is its index in the table.                     *)
(***************************************************************************)
EXTENDS Integers, FiniteSets

CONSTANTS
    MAXTHREADS,   \* size of the thread table
    Prios,        \* thread priorities in use; a lower number runs first
    EntryPrio,    \* priority of the entry thread, 32 in sched_run
    Delays,       \* lengths of the timed waits the guest asks for
    Period,       \* length of a video frame
    MaxElapse,    \* bound: most time between two readings of the host clock
    MaxWakeups,   \* bound: most wakeups banked on one thread
    Paced,        \* FALSE is turbo mode, SR_NOVBPACE
    VBLANK,       \* the object sceDisplayWaitVblank waits on
    OtherObjs,    \* the other objects threads wait on (none of them a thread)
    NoObj         \* wait_obj = 0

ASSUME TableAssumption == MAXTHREADS \in Nat \ {0}
ASSUME PrioAssumption  == Prios \subseteq Int /\ EntryPrio \in Prios
ASSUME TimeAssumption  == /\ Delays \subseteq Nat \ {0}
                          /\ Period \in Nat \ {0}
                          /\ MaxElapse \in Nat
ASSUME BankAssumption  == MaxWakeups \in Nat
ASSUME PaceAssumption  == Paced \in BOOLEAN

Slots == 0 .. MAXTHREADS - 1

ASSUME ObjAssumption == /\ VBLANK \notin Slots /\ NoObj \notin Slots
                        /\ VBLANK # NoObj
                        /\ VBLANK \notin OtherObjs

Scheduling == -1     \* s_cur while the scheduler, not a thread, runs
Never      == -1     \* the deadline of a wait that only sched_wake ends

Objs == Slots \cup {VBLANK, NoObj} \cup OtherObjs

Waits == {"WAIT_DELAY", "WAIT_OBJ"}

(* What a fiber does when the scheduler next resumes it.  "guest" returns  *)
(* to guest code; the others are the HLE call the fiber is parked in.      *)
Calls == {"guest", "sleep", "vblank", "waitEnd", "object", "exited", "returned"}

TCB == [state    : {"DORMANT", "READY", "RUNNING"} \cup Waits,
        priority : Prios,
        started  : BOOLEAN,
        wake     : {Never} \cup Nat,
        wait_obj : Objs,
        wakeups  : 0 .. MaxWakeups,
        sleeping : BOOLEAN,
        fresh    : BOOLEAN,      \* a vblank came since this thread last took one
        saved    : BOOLEAN,      \* its block holds its live register file
        call     : Calls]

VARIABLES
    tcb,       \* s_tcb
    ntcb,      \* s_ntcb
    cur,       \* s_cur
    due,       \* s_vbl_next_us - s_vtime_us
    handler,   \* a vblank handler is registered and enabled
    stopped    \* sched_run has returned

vars == <<tcb, ntcb, cur, due, handler, stopped>>

Allocated == 0 .. ntcb - 1

-----------------------------------------------------------------------------
(* Operations on the thread table.                                         *)

Waiting(tc, t) == tc[t].state \in Waits

Expired(tc, t) == Waiting(tc, t) /\ tc[t].wake = 0

(* The clock advances by d: every deadline still to be compared with it,   *)
(* by pick_next or on return from a timed wait, comes d closer.            *)
Timed(tc, t) == tc[t].wake > 0 /\ (Waiting(tc, t) \/ tc[t].call = "object")

Elapse(tc, d) ==
    [t \in Slots |->
        IF ~Timed(tc, t) THEN tc[t]
        ELSE [tc[t] EXCEPT !.wake = IF @ > d THEN @ - d ELSE 0]]

(* The first loop of pick_next: waits whose deadline has passed are over.  *)
Expire(tc) ==
    [t \in Slots |-> IF Expired(tc, t)
                     THEN [tc[t] EXCEPT !.state = "READY"] ELSE tc[t]]

(* The second loop of pick_next: the best priority, the lowest index.      *)
IsNextReversed(tc, t) ==       \* variant: the comparison the wrong way round
    /\ t \in Allocated
    /\ tc[t].state = "READY"
    /\ \A u \in Allocated :
          tc[u].state = "READY" => tc[t].priority > tc[u].priority \/ t = u

IsNext(tc, t) ==
    /\ t \in Allocated
    /\ tc[t].state = "READY"
    /\ \A u \in Allocated :
          tc[u].state = "READY" =>
             \/ tc[t].priority < tc[u].priority
             \/ tc[t].priority = tc[u].priority /\ t <= u

NothingReady(tc) == \A t \in Allocated : tc[t].state # "READY"

(* sched_wake: every thread waiting on the object becomes ready.           *)
Wake(tc, obj) ==
    [t \in Slots |-> IF tc[t].state = "WAIT_OBJ" /\ tc[t].wait_obj = obj
                     THEN [tc[t] EXCEPT !.state = "READY"] ELSE tc[t]]

(* sched_thread_wakeup: end the sleep, or bank the wakeup.                 *)
AsleepByFlag(tc, u) ==         \* variant: only the flag is looked at
    tc[u].sleeping

Asleep(tc, u) ==
    tc[u].sleeping /\ tc[u].state = "WAIT_OBJ" /\ tc[u].wait_obj = u

WakeupBanks(tc, u) ==          \* variant: the wakeup is only counted
    [tc EXCEPT ![u].wakeups = @ + 1]

Wakeup(tc, u) ==
    IF Asleep(tc, u)
    THEN [tc EXCEPT ![u].sleeping = FALSE, ![u].state = "READY"]
    ELSE [tc EXCEPT ![u].wakeups = @ + 1]

BankHasRoom(tc, u) == Asleep(tc, u) \/ tc[u].wakeups < MaxWakeups

(* sched_start_thread: a thread that ran before starts afresh; the state   *)
(* becomes READY whatever it was.                                          *)
Start(tc, u) ==
    IF tc[u].started /\ tc[u].state = "DORMANT"
    THEN [tc EXCEPT ![u] = [@ EXCEPT !.state = "READY", !.started = FALSE,
                                     !.wakeups = 0, !.sleeping = FALSE,
                                     !.wait_obj = NoObj, !.wake = 0,
                                     !.saved = TRUE, !.call = "guest"]]
    ELSE [tc EXCEPT ![u].state = "READY"]

(* sched_block_on, sched_block_on_timeout: thread t waits on obj, for at   *)
(* most `left' unless that is Never; `call' resumes it.                    *)
BlockUnsaved(tc, t, obj, left, call) ==    \* variant: no memcpy to saved
    [tc EXCEPT ![t] = [@ EXCEPT !.state = "WAIT_OBJ", !.wait_obj = obj,
                                !.wake = left, !.call = call]]

Block(tc, t, obj, left, call) ==
    [tc EXCEPT ![t] = [@ EXCEPT !.state = "WAIT_OBJ", !.wait_obj = obj,
                                !.wake = left, !.saved = TRUE, !.call = call]]

(* sched_exit_current.                                                     *)
ExitSilently(tc, t) ==         \* variant: no sched_wake
    [tc EXCEPT ![t].state = "DORMANT", ![t].call = "exited"]

Exit(tc, t) ==
    Wake([tc EXCEPT ![t].state = "DORMANT", ![t].call = "exited"], t)

(* sched_terminate_thread of a thread other than the caller.               *)
Terminate(tc, u) ==
    IF tc[u].state = "DORMANT" THEN tc
    ELSE Wake([tc EXCEPT ![u] = [@ EXCEPT !.state = "DORMANT", !.sleeping = FALSE,
                                          !.wait_obj = NoObj, !.wake = 0]], u)

-----------------------------------------------------------------------------
(* Time and the vblank interrupt.                                          *)

(* The readings of the host clock vtime_refresh may see; turbo mode has    *)
(* no host clock.                                                          *)
Elapses == IF Paced THEN 0 .. MaxElapse ELSE {0}

(* Lateness beyond one period makes no difference to vblank_pace.          *)
DueAfter(d) == IF due - d < -(Period + 1) THEN -(Period + 1) ELSE due - d

(* vblank_pace: the next deadline, one period on, or at once when that     *)
(* has passed too.                                                         *)
NextDue(du) == IF ~Paced THEN 0 ELSE IF du + Period < 0 THEN 0 ELSE du + Period

(* deliver_vblank, up to the handler: the latch of every thread is set and *)
(* the vblank waiters are woken.                                           *)
Latch(tc) == [t \in Slots |-> [tc[t] EXCEPT !.fresh = TRUE]]

(* The registered handler runs with s_cur = -1; what it does in practice   *)
(* is wake a thread, and it may do nothing.                                *)
Delivered(tc) ==
    LET woken == Wake(Latch(tc), VBLANK)
    IN {woken} \cup
       IF handler
       THEN {Wakeup(woken, u) : u \in {v \in Allocated : BankHasRoom(woken, v)}}
       ELSE {}

-----------------------------------------------------------------------------
Fresh == [state |-> "DORMANT", priority |-> EntryPrio, started |-> FALSE,
          wake |-> 0, wait_obj |-> NoObj, wakeups |-> 0, sleeping |-> FALSE,
          fresh |-> FALSE, saved |-> TRUE, call |-> "guest"]

(* sched_run has created and started the entry thread.                     *)
Init ==
    /\ tcb = [t \in Slots |-> IF t = 0 THEN [Fresh EXCEPT !.state = "READY"]
                                       ELSE Fresh]
    /\ ntcb = 1
    /\ cur = Scheduling
    /\ due = 0
    /\ handler = FALSE
    /\ stopped = FALSE

(* The running thread is in guest code, free to make a call.               *)
InGuest == cur # Scheduling /\ tcb[cur].call = "guest"

(* The call returns to the guest, or sched_preempt finds a READY thread of *)
(* strictly better priority and switches to the scheduler.                 *)
PreemptStillRunning(tc) ==     \* variant: the caller's state is not changed
    IF \E t \in Allocated \ {cur} : /\ tc[t].state = "READY"
                                    /\ tc[t].priority < tc[cur].priority
    THEN /\ tcb' = [tc EXCEPT ![cur].saved = TRUE]
         /\ cur' = Scheduling
    ELSE /\ tcb' = tc
         /\ cur' = cur

Preempt(tc) ==
    IF \E t \in Allocated \ {cur} : /\ tc[t].state = "READY"
                                    /\ tc[t].priority < tc[cur].priority
    THEN /\ tcb' = [tc EXCEPT ![cur].state = "READY", ![cur].saved = TRUE]
         /\ cur' = Scheduling
    ELSE /\ tcb' = tc
         /\ cur' = cur

SwitchAway(tc) == tcb' = tc /\ cur' = Scheduling

CallReturns(tc) == tcb' = tc /\ cur' = cur

TimeStands == UNCHANGED <<due, stopped>>

-----------------------------------------------------------------------------
(* Guest calls.                                                            *)

CreateThread(p) ==
    /\ InGuest
    /\ ntcb < MAXTHREADS
    /\ tcb' = [tcb EXCEPT ![ntcb] = [Fresh EXCEPT !.priority = p, !.fresh = tcb[ntcb].fresh]]
    /\ ntcb' = ntcb + 1
    /\ UNCHANGED <<cur, due, handler, stopped>>

StartThread(u) ==
    /\ InGuest
    /\ Preempt(Start(tcb, u))
    /\ TimeStands /\ UNCHANGED <<ntcb, handler>>

ExitThread ==
    /\ InGuest
    /\ SwitchAway(Exit(tcb, cur))
    /\ TimeStands /\ UNCHANGED <<ntcb, handler>>

(* The thread's entry function returns: fiber_proc makes it DORMANT and    *)
(* parks the fiber, without the sched_wake of sched_exit_current.          *)
BodyReturns ==
    /\ InGuest
    /\ SwitchAway([tcb EXCEPT ![cur].state = "DORMANT", ![cur].call = "returned"])
    /\ TimeStands /\ UNCHANGED <<ntcb, handler>>

TerminateThread(u) ==
    /\ InGuest
    /\ IF u = cur THEN SwitchAway(Exit(tcb, cur)) ELSE CallReturns(Terminate(tcb, u))
    /\ TimeStands /\ UNCHANGED <<ntcb, handler>>

DelayThread(usec) ==
    /\ InGuest
    /\ \E d \in Elapses :
          /\ SwitchAway([Elapse(tcb, d) EXCEPT ![cur] =
                            [@ EXCEPT !.state = "WAIT_DELAY", !.wake = usec, !.saved = TRUE]])
          /\ due' = DueAfter(d)
    /\ UNCHANGED <<ntcb, handler, stopped>>

SleepThread ==
    /\ InGuest
    /\ IF tcb[cur].wakeups > 0
       THEN CallReturns([tcb EXCEPT ![cur].wakeups = @ - 1])
       ELSE SwitchAway([Block(tcb, cur, cur, Never, "sleep") EXCEPT ![cur].sleeping = TRUE])
    /\ TimeStands /\ UNCHANGED <<ntcb, handler>>

WakeupThread(u) ==
    /\ InGuest
    /\ BankHasRoom(tcb, u)
    /\ Preempt(Wakeup(tcb, u))
    /\ TimeStands /\ UNCHANGED <<ntcb, handler>>

CancelWakeup(u) ==
    /\ InGuest
    /\ CallReturns([tcb EXCEPT ![u].wakeups = 0])
    /\ TimeStands /\ UNCHANGED <<ntcb, handler>>

SetPriority(u, p) ==
    /\ InGuest
    /\ CallReturns([tcb EXCEPT ![u].priority = p])
    /\ TimeStands /\ UNCHANGED <<ntcb, handler>>

WaitThreadEnd(u) ==
    /\ InGuest
    /\ tcb[u].state # "DORMANT"
    /\ SwitchAway(Block(tcb, cur, u, Never, "waitEnd"))
    /\ TimeStands /\ UNCHANGED <<ntcb, handler>>

(* Resumed inside the loop of h_WaitThreadEnd.                             *)
ResumeWaitEnd ==
    /\ cur # Scheduling
    /\ tcb[cur].call = "waitEnd"
    /\ LET u == tcb[cur].wait_obj
       IN IF tcb[u].state = "DORMANT"
          THEN CallReturns([tcb EXCEPT ![cur].call = "guest", ![cur].wake = 0,
                                       ![cur].wait_obj = NoObj])
          ELSE SwitchAway(Block(tcb, cur, u, Never, "waitEnd"))
    /\ TimeStands /\ UNCHANGED <<ntcb, handler>>

WaitVblank ==
    /\ InGuest
    /\ IF tcb[cur].fresh
       THEN CallReturns([tcb EXCEPT ![cur].fresh = FALSE])
       ELSE SwitchAway(Block(tcb, cur, VBLANK, Never, "vblank"))
    /\ TimeStands /\ UNCHANGED <<ntcb, handler>>

(* sceKernelRegisterSubIntrHandler and sceKernelEnableSubIntr.             *)
SetHandler(on) ==
    /\ InGuest
    /\ handler' = on
    /\ UNCHANGED <<tcb, ntcb, cur, due, stopped>>

(* sr_yield: the timeslice is used up.  The clock is read, an overdue      *)
(* vblank is delivered, and the thread gives way if any other could run.   *)
YieldAfter(d) ==
    /\ InGuest
    /\ LET overdue == Paced /\ DueAfter(d) <= 0
       IN /\ \E tc \in IF overdue THEN Delivered(Elapse(tcb, d)) ELSE {Elapse(tcb, d)} :
               IF \E t \in Allocated \ {cur} : tc[t].state = "READY" \/ Expired(tc, t)
               THEN SwitchAway([tc EXCEPT ![cur].saved = TRUE,
                                          ![cur].state = IF @ = "RUNNING" THEN "READY" ELSE @])
               ELSE CallReturns(tc)
          /\ due' = IF overdue THEN NextDue(DueAfter(d)) ELSE DueAfter(d)
    /\ UNCHANGED <<ntcb, handler, stopped>>

Yield == \E d \in Elapses : YieldAfter(d)

-----------------------------------------------------------------------------
(* The loop of sched_run.                                                  *)

Idle == cur = Scheduling /\ ~stopped /\ NothingReady(Expire(tcb))

(* Resume thread t: its registers are loaded, and a call with nothing left *)
(* to do but return has returned.  The deadline and the object of a wait   *)
(* that is over are not looked at again, and are given one value.          *)
CallOver(tc, t) == tc[t].call \in {"guest", "sleep", "vblank"}

Resumed(tc, t) ==
    LET over == CallOver(tc, t)
    IN [tc EXCEPT ![t] = [tc[t] EXCEPT
            !.state = "RUNNING", !.started = TRUE, !.saved = FALSE,
            !.fresh = tc[t].fresh /\ tc[t].call # "vblank",
            !.wake = IF over THEN 0 ELSE tc[t].wake,
            !.wait_obj = IF over THEN NoObj ELSE tc[t].wait_obj,
            !.call = IF over THEN "guest" ELSE tc[t].call]]

Dispatch ==
    /\ cur = Scheduling
    /\ ~stopped
    /\ \E t \in Slots : /\ IsNext(Expire(tcb), t)
                        /\ tcb' = Resumed(Expire(tcb), t)
                        /\ cur' = t
    /\ UNCHANGED <<ntcb, due, handler, stopped>>

(* The time left to the earliest deadline of a timed wait.                 *)
IsSoonest(tc, left) ==
    /\ left # Never
    /\ \E t \in Allocated : Waiting(tc, t) /\ tc[t].wake = left
    /\ \A t \in Allocated : Waiting(tc, t) /\ tc[t].wake # Never => left <= tc[t].wake

NoDeadline(tc) == \A t \in Allocated : Waiting(tc, t) => tc[t].wake = Never

(* A deadline falls before the next vblank: the host sleeps up to it.      *)
SleepsUntil(tc, du, left) == Paced /\ IsSoonest(tc, left) /\ 0 < left /\ left < du

IdleSleep ==
    /\ Idle
    /\ \E d \in Elapses, over \in Elapses, left \in 1 .. Period :
          /\ SleepsUntil(Elapse(tcb, d), DueAfter(d), left)
          /\ tcb' = Elapse(tcb, d + left + over)
          /\ due' = DueAfter(d + left + over)
    /\ UNCHANGED <<ntcb, cur, handler, stopped>>

(* Otherwise the next vblank is delivered, when it is due.  Then the loop  *)
(* stops if nothing is ready and no wait has a deadline; in turbo mode the *)
(* clock jumps over a wait nothing else can end.                           *)
FrameWait(du) == IF ~Paced THEN Period ELSE IF du > 0 THEN du ELSE 0

StopWhenNoneReady(tc) ==       \* variant: waits with a deadline do not count
    tcb' = tc /\ stopped' = NothingReady(Expire(tc))

AfterIdleVblank(tc) ==
    IF ~NothingReady(Expire(tc)) THEN tcb' = tc /\ stopped' = FALSE
    ELSE IF NoDeadline(tc) THEN tcb' = tc /\ stopped' = TRUE
    ELSE /\ stopped' = FALSE
         /\ IF Paced THEN tcb' = tc
            ELSE \E t \in Allocated : /\ IsSoonest(tc, tc[t].wake)
                                      /\ tcb' = Elapse(tc, tc[t].wake)

IdleVblank ==
    /\ Idle
    /\ \E d \in Elapses, over \in Elapses :
          LET du == DueAfter(d)
              tc == Elapse(tcb, d)
          IN /\ ~ \E left \in 1 .. Period : SleepsUntil(tc, du, left)
             /\ \E tc2 \in Delivered(Elapse(tc, FrameWait(du) + over)) : AfterIdleVblank(tc2)
             /\ due' = NextDue((IF du > 0 THEN 0 ELSE du) - over)
    /\ UNCHANGED <<ntcb, cur, handler>>

-----------------------------------------------------------------------------
ThreadCall ==
    \/ \E p \in Prios : CreateThread(p)
    \/ \E u \in Allocated : StartThread(u)
    \/ \E u \in Allocated : TerminateThread(u)
    \/ \E u \in Allocated : WakeupThread(u)
    \/ \E u \in Allocated : CancelWakeup(u)
    \/ \E u \in Allocated : WaitThreadEnd(u)
    \/ \E u \in Allocated, p \in Prios : SetPriority(u, p)
    \/ \E usec \in Delays : DelayThread(usec)
    \/ ExitThread
    \/ BodyReturns
    \/ SleepThread
    \/ WaitVblank
    \/ \E on \in BOOLEAN : SetHandler(on)
    \/ Yield

SchedulerStep == Dispatch \/ IdleSleep \/ IdleVblank

(* sched_run has returned to the driver.                                   *)
Finished == stopped /\ UNCHANGED vars

Next == ThreadCall \/ ResumeWaitEnd \/ SchedulerStep \/ Finished

Spec == Init /\ [][Next]_vars

(* The host runs the scheduler's loop and the resumed fiber; a thread that *)
(* stays in guest code uses up its timeslice and yields.  Nothing makes a  *)
(* thread make any other call.                                             *)
Fairness == WF_vars(SchedulerStep) /\ WF_vars(ResumeWaitEnd) /\ WF_vars(Yield)

FairSpec == Spec /\ Fairness

-----------------------------------------------------------------------------
(* The variables have their types and stay within the tables they index.   *)
TypeOK ==
    /\ tcb \in [Slots -> TCB]
    /\ ntcb \in 1 .. MAXTHREADS
    /\ cur \in Allocated \cup {Scheduling}
    /\ due \in -(Period + 1) .. Period
    /\ handler \in BOOLEAN
    /\ stopped \in BOOLEAN

(* Only the thread s_cur names runs, and while the scheduler runs no       *)
(* thread does: sched.c has one register file and hands it to one fiber.   *)
OneRunning ==
    /\ \A t \in Slots : tcb[t].state = "RUNNING" => cur = t
    /\ stopped => cur = Scheduling

(* Every live thread that is not running has its register file in its own  *)
(* block, so that whichever thread is resumed next finds the registers it  *)
(* left: each path to switch_to_scheduler saved them first.                *)
ParkedIsSaved ==
    \A t \in Allocated : t # cur /\ tcb[t].state # "DORMANT" => tcb[t].saved

(* A wakeup issued before a sleep is not lost: a thread blocked in         *)
(* sceKernelSleepThread has no wakeup banked, and sched_thread_wakeup      *)
(* recognises that it sleeps.                                              *)
SleeperHasNoWakeup ==
    \A t \in Allocated :
        tcb[t].call = "sleep" /\ tcb[t].state = "WAIT_OBJ" =>
            tcb[t].wakeups = 0 /\ Asleep(tcb, t)

(* A thread that waits for the end of a thread that has ended waits for    *)
(* one whose entry function returned: an exit or a termination releases    *)
(* every waiter.                                                           *)
AwaitsEndOf(t, u) ==
    tcb[t].call = "waitEnd" /\ tcb[t].state = "WAIT_OBJ" /\ tcb[t].wait_obj = u

StrandedOnlyByReturn ==
    \A t, u \in Allocated :
        AwaitsEndOf(t, u) /\ tcb[u].state = "DORMANT" => tcb[u].call = "returned"

(* What is left when the loop calls it "truly nothing runnable" (sched.c   *)
(* 607): no wait has a deadline, and one more vblank, which hle.c 1337     *)
(* counts on, would make nobody ready, save that an enabled vblank handler *)
(* may wake a thread in sceKernelSleepThread.  Without a handler nothing   *)
(* can run again; with one the loop gives up such a sleeper, for it asks   *)
(* only whether its own last vblank woke it.                               *)
StopIsFinal ==
    stopped => /\ NoDeadline(tcb)
               /\ \A tc \in Delivered(tcb), t \in Allocated :
                     tc[t].state = "READY" => handler /\ Asleep(tcb, t)

(* sceKernelDelayThread runs its time: before its deadline a delayed       *)
(* thread is made ready only by a sceKernelStartThread aimed at it, not by *)
(* a wakeup, a vblank or the end of another thread.                        *)
DelayNotCutShort ==
    [][\A t \in Allocated :
          /\ tcb[t].state = "WAIT_DELAY" /\ tcb[t].wake > 0
          /\ tcb'[t].state = "READY"
          => StartThread(t)]_vars

(* The ready thread of best priority, when it is the only one of that      *)
(* priority, comes to run: whatever the others do, each gives way.         *)
TopReady(t) ==
    /\ t \in Allocated /\ t # cur /\ tcb[t].state = "READY"
    /\ \A u \in Allocated \ {t} : tcb[t].priority < tcb[u].priority

TopReadyRuns == \A t \in Slots : TopReady(t) ~> ~TopReady(t)

(* When every other thread is blocked or dormant, a delay ends: the idle   *)
(* loop reaches its deadline, by sleeping, frame by frame or by jumping.   *)
LoneDelay(t) ==
    /\ tcb[t].state = "WAIT_DELAY"
    /\ \A u \in Slots \ {t} : tcb[u].state \in Waits \cup {"DORMANT"}

LoneDelayEnds == \A t \in Slots : LoneDelay(t) ~> ~LoneDelay(t)
=============================================================================
