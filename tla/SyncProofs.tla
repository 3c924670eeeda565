----------------------------- MODULE SyncProofs -----------------------------
(***************************************************************************)
(* No signal of a semaphore or an event flag is lost, for every number of  *)
(* threads and objects and all counts, patterns and timeouts.  The         *)
(* scheduler's own invariant is kept by the calls on objects too, and the  *)
(* scheduler's calls start no wait for an object and lower no value.       *)
(***************************************************************************)
EXTENDS SyncObjects, SchedulerProofs, FiniteSetTheorems

(* A thread inside a wait for an object: parked, or woken and about to     *)
(* test the object again.                                                  *)
InObjectWait(tc, t) == tc[t].call = "object" /\ tc[t].state # "DORMANT"

(* tc2 has no wait for an object that tc has not, and parks nobody.        *)
NoNewWait(tc, tc2) ==
    \A t \in Slots :
        /\ InObjectWait(tc2, t) =>
              /\ InObjectWait(tc, t) /\ tc2[t].wait_obj = tc[t].wait_obj
              /\ tc2[t].state = "WAIT_OBJ" => tc[t].state = "WAIT_OBJ"
        /\ tc2[t].call = "object" /\ ~tc2[t].started =>
              tc[t].call = "object" /\ ~tc[t].started

(* A thread that was never resumed is in no call.                          *)
UnstartedInNoCall(tc) == \A t \in Slots : tc[t].call = "object" => tc[t].started

-----------------------------------------------------------------------------
(* Operations on the thread table.                                         *)
LEMMA SameNoNewWait == ASSUME NEW tc PROVE NoNewWait(tc, tc)
BY DEF NoNewWait

LEMMA NoNewWaitTrans ==
    ASSUME NEW tc, NEW tc2, NEW tc3, NoNewWait(tc, tc2), NoNewWait(tc2, tc3)
    PROVE  NoNewWait(tc, tc3)
BY DEF NoNewWait, InObjectWait

LEMMA MilderNoNewWait ==
    ASSUME NEW tc, NEW tc2, Milder(tc, tc2)
    PROVE  NoNewWait(tc, tc2)
BY SMT DEF NoNewWait, InObjectWait, Milder, Waits

LEMMA SlotNoNewWait ==
    ASSUME NEW tc \in [Slots -> TCB], NEW u \in Slots, NEW r \in TCB,
           \/ r.call # "object"
           \/ /\ r.call = tc[u].call /\ r.started = tc[u].started
              /\ \/ r.state = "DORMANT"
                 \/ tc[u].state # "DORMANT" /\ r.state # "WAIT_OBJ" /\ r.wait_obj = tc[u].wait_obj
                 \/ r.state = tc[u].state /\ r.wait_obj = tc[u].wait_obj,
           NEW tc2, tc2 = [tc EXCEPT ![u] = r]
    PROVE  NoNewWait(tc, tc2)
<1>1. tc2[u] = r /\ \A t \in Slots \ {u} : tc2[t] = tc[t]
  BY SMT
<1>2. ASSUME NEW t \in Slots, t # u
      PROVE  /\ InObjectWait(tc2, t) =>
                   /\ InObjectWait(tc, t) /\ tc2[t].wait_obj = tc[t].wait_obj
                   /\ tc2[t].state = "WAIT_OBJ" => tc[t].state = "WAIT_OBJ"
             /\ tc2[t].call = "object" /\ ~tc2[t].started =>
                   tc[t].call = "object" /\ ~tc[t].started
  BY <1>1, <1>2, Zenon DEF InObjectWait
<1>3. /\ InObjectWait(tc2, u) =>
             /\ InObjectWait(tc, u) /\ tc2[u].wait_obj = tc[u].wait_obj
             /\ tc2[u].state = "WAIT_OBJ" => tc[u].state = "WAIT_OBJ"
      /\ tc2[u].call = "object" /\ ~tc2[u].started =>
             tc[u].call = "object" /\ ~tc[u].started
  BY <1>1, SMT DEF InObjectWait
<1> QED
  BY <1>2, <1>3, Zenon DEF NoNewWait

(* A step that changes one thread, which is in no object's wait after it.  *)
LEMMA CallerNoNewWait ==
    ASSUME NEW tc, NEW tc2, NEW u \in Slots, tc2[u].call # "object",
           \A t \in Slots \ {u} : tc2[t] = tc[t]
    PROVE  NoNewWait(tc, tc2)
<1>1. ASSUME NEW t \in Slots, t # u
      PROVE  /\ InObjectWait(tc2, t) =>
                   /\ InObjectWait(tc, t) /\ tc2[t].wait_obj = tc[t].wait_obj
                   /\ tc2[t].state = "WAIT_OBJ" => tc[t].state = "WAIT_OBJ"
             /\ tc2[t].call = "object" /\ ~tc2[t].started =>
                   tc[t].call = "object" /\ ~tc[t].started
  BY <1>1, Zenon DEF InObjectWait
<1> QED
  BY <1>1, Zenon DEF NoNewWait, InObjectWait

LEMMA WakeupNoNewWait ==
    ASSUME NEW tc \in [Slots -> TCB], NEW u \in Slots, BankHasRoom(tc, u)
    PROVE  NoNewWait(tc, Wakeup(tc, u))
  BY SMT DEF NoNewWait, InObjectWait, Wakeup, Asleep, TCB, BankHasRoom

LEMMA StartNoNewWait ==
    ASSUME NEW tc \in [Slots -> TCB], NEW u \in Slots, UnstartedInNoCall(tc)
    PROVE  NoNewWait(tc, Start(tc, u))
  BY SMT DEF NoNewWait, InObjectWait, Start, TCB, UnstartedInNoCall

LEMMA BlockNoNewWait ==
    ASSUME NEW tc \in [Slots -> TCB], NEW u \in Slots, NEW obj, NEW left,
           NEW call, call # "object"
    PROVE  NoNewWait(tc, Block(tc, u, obj, left, call))
  BY SMT DEF NoNewWait, InObjectWait, Block, TCB

LEMMA ExitNoNewWait ==
    ASSUME NEW tc \in [Slots -> TCB], NEW u \in Slots
    PROVE  NoNewWait(tc, Exit(tc, u))
  BY SMT DEF NoNewWait, InObjectWait, Exit, Wake, TCB

LEMMA TerminateNoNewWait ==
    ASSUME NEW tc \in [Slots -> TCB], NEW u \in Slots
    PROVE  NoNewWait(tc, Terminate(tc, u))
  BY SMT DEF NoNewWait, InObjectWait, Terminate, Wake, TCB

LEMMA DeliveredNoNewWait ==
    ASSUME NEW tc, NEW c, Good(tc, ntcb, c), ntcb \in 1 .. MAXTHREADS, NEW tc2 \in Delivered(tc)
    PROVE  NoNewWait(tc, tc2)
<1> DEFINE woken == Wake(Latch(tc), VBLANK)
<1>1. /\ Milder(tc, Latch(tc)) /\ Milder(Latch(tc), woken)
      /\ woken \in [Slots -> TCB]
  BY LatchMilder, WakeMilder, MilderGood, GoodIsTable
<1>2. NoNewWait(tc, woken)
  BY <1>1, MilderTrans, MilderNoNewWait
<1> HIDE DEF woken
<1>3. ASSUME NEW u \in Allocated, BankHasRoom(woken, u), tc2 = Wakeup(woken, u)
      PROVE  NoNewWait(tc, tc2)
  BY <1>1, <1>2, <1>3, AllocatedSlots, WakeupNoNewWait, NoNewWaitTrans
<1>4. \/ tc2 = woken
      \/ \E u \in Allocated : BankHasRoom(woken, u) /\ tc2 = Wakeup(woken, u)
  BY Zenon DEF Delivered, woken
<1> QED
  BY <1>2, <1>3, <1>4

LEMMA ResumedNoNewWait ==
    ASSUME NEW tc \in [Slots -> TCB], NEW t \in Slots, tc[t].state = "READY"
    PROVE  NoNewWait(tc, Resumed(tc, t))
  BY SMT DEF NoNewWait, InObjectWait, Resumed, CallOver, TCB

-----------------------------------------------------------------------------
(* The scheduler's steps.                                                  *)
LEMMA PreemptNoNewWait ==
    ASSUME NEW tc \in [Slots -> TCB], cur \in Slots, tc[cur].call = "guest",
           NoNewWait(tcb, tc), Preempt(tc)
    PROVE  NoNewWait(tcb, tcb')
<1>1. CASE tcb' = tc
  BY <1>1
<1>2. CASE tcb' = [tc EXCEPT ![cur].state = "READY", ![cur].saved = TRUE]
  <2> DEFINE r == [tc[cur] EXCEPT !.state = "READY", !.saved = TRUE]
  <2>1. r \in TCB
    BY Zenon DEF TCB
  <2>2. r.call # "object"
    BY SMT DEF TCB
  <2>3. tcb' = [tc EXCEPT ![cur] = r]
    BY <1>2
  <2> HIDE DEF r
  <2> QED
    BY <2>1, <2>2, <2>3, SlotNoNewWait, NoNewWaitTrans
<1> QED
  BY <1>1, <1>2, Zenon DEF Preempt

LEMMA GuestCallNoNewWait ==
    ASSUME IInv, InGuest, UnstartedInNoCall(tcb), NEW u \in Allocated
    PROVE  /\ StartThread(u) => NoNewWait(tcb, tcb')
           /\ TerminateThread(u) => NoNewWait(tcb, tcb')
           /\ WakeupThread(u) => NoNewWait(tcb, tcb')
           /\ CancelWakeup(u) => NoNewWait(tcb, tcb')
           /\ WaitThreadEnd(u) => NoNewWait(tcb, tcb')
           /\ \A p \in Prios : SetPriority(u, p) => NoNewWait(tcb, tcb')
<1>1. /\ tcb \in [Slots -> TCB] /\ cur \in Slots /\ u \in Slots /\ u \in 0 .. ntcb - 1
      /\ tcb[cur].call = "guest" /\ Good(tcb, ntcb, cur)
  BY GuestFacts, Zenon
<1>2. ASSUME StartThread(u) PROVE NoNewWait(tcb, tcb')
  <2>1. Start(tcb, u) \in [Slots -> TCB] /\ Start(tcb, u)[cur].call = "guest"
    <3>1. Start(tcb, u) \in [Slots -> TCB]
      BY <1>1, StartGood, GoodIsTable
    <3> QED
      BY <1>1, <3>1, SMT DEF Start, TCB
  <2> QED
    BY <1>1, <1>2, <2>1, StartNoNewWait, PreemptNoNewWait DEF StartThread
<1>3. ASSUME TerminateThread(u) PROVE NoNewWait(tcb, tcb')
  BY <1>1, <1>3, ExitNoNewWait, TerminateNoNewWait, Zenon DEF TerminateThread, SwitchAway, CallReturns
<1>4. ASSUME WakeupThread(u) PROVE NoNewWait(tcb, tcb')
  <2>1. BankHasRoom(tcb, u) /\ Preempt(Wakeup(tcb, u))
    BY <1>4 DEF WakeupThread
  <2>2. Wakeup(tcb, u) \in [Slots -> TCB]
    BY <1>1, <2>1, WakeupGood, GoodIsTable
  <2>3. Wakeup(tcb, u)[cur].call = "guest"
    BY <1>1, <2>2, SMT DEF Wakeup, TCB
  <2> QED
    BY <1>1, <2>1, <2>2, <2>3, WakeupNoNewWait, PreemptNoNewWait
<1>5. ASSUME CancelWakeup(u) PROVE NoNewWait(tcb, tcb')
  <2>1. tcb' = [tcb EXCEPT ![u].wakeups = 0]
    BY <1>5 DEF CancelWakeup, CallReturns
  <2> QED
    BY <1>1, <2>1, SMT DEF NoNewWait, InObjectWait, TCB
<1>6. ASSUME WaitThreadEnd(u) PROVE NoNewWait(tcb, tcb')
  <2>1. tcb' = Block(tcb, cur, u, Never, "waitEnd")
    BY <1>6 DEF WaitThreadEnd, SwitchAway
  <2> QED
    BY <1>1, <2>1, BlockNoNewWait
<1>7. ASSUME NEW p \in Prios, SetPriority(u, p) PROVE NoNewWait(tcb, tcb')
  <2>1. tcb' = [tcb EXCEPT ![u].priority = p]
    BY <1>7 DEF SetPriority, CallReturns
  <2> QED
    BY <1>1, <2>1, PriorityMilder, MilderNoNewWait
<1> QED
  BY <1>2, <1>3, <1>4, <1>5, <1>6, <1>7

LEMMA OwnCallNoNewWait ==
    ASSUME IInv, InGuest
    PROVE  /\ \A p \in Prios : CreateThread(p) => NoNewWait(tcb, tcb')
           /\ \A usec \in Delays : DelayThread(usec) => NoNewWait(tcb, tcb')
           /\ ExitThread => NoNewWait(tcb, tcb')
           /\ BodyReturns => NoNewWait(tcb, tcb')
           /\ SleepThread => NoNewWait(tcb, tcb')
           /\ WaitVblank => NoNewWait(tcb, tcb')
           /\ \A d \in Elapses : YieldAfter(d) => NoNewWait(tcb, tcb')
<1>1. /\ tcb \in [Slots -> TCB] /\ cur \in Slots /\ tcb[cur] \in TCB
      /\ tcb[cur].call = "guest" /\ Good(tcb, ntcb, cur) /\ ntcb \in 1 .. MAXTHREADS
  BY GuestFacts, Zenon DEF IInv
<1>2. ASSUME NEW p \in Prios, CreateThread(p) PROVE NoNewWait(tcb, tcb')
  <2>1. tcb' = [tcb EXCEPT ![ntcb] = [Fresh EXCEPT !.priority = p, !.fresh = tcb[ntcb].fresh]]
    BY <1>2 DEF CreateThread
  <2>2. ntcb \in Slots
    BY <1>1, <1>2, TableAssumption, SMT DEF CreateThread, Slots
  <2>3. tcb'[ntcb].call = "guest" /\ \A t \in Slots \ {ntcb} : tcb'[t] = tcb[t]
    BY <1>1, <2>1, <2>2, SMT DEF Fresh
  <2> QED
    BY <2>2, <2>3, CallerNoNewWait
<1>3. ASSUME NEW usec \in Delays, DelayThread(usec) PROVE NoNewWait(tcb, tcb')
  <2>1. PICK d \in Elapses :
           tcb' = [Elapse(tcb, d) EXCEPT ![cur] =
                     [@ EXCEPT !.state = "WAIT_DELAY", !.wake = usec, !.saved = TRUE]]
    BY <1>3 DEF DelayThread, SwitchAway
  <2>2. Milder(tcb, Elapse(tcb, d)) /\ Elapse(tcb, d) \in [Slots -> TCB]
    BY <1>1, ElapsesNat, ElapseMilder DEF Milder
  <2> DEFINE tc == Elapse(tcb, d)
  <2>3. tc[cur].call = "guest"
    BY <1>1, <2>2, Zenon DEF Milder
  <2>4. tc \in [Slots -> TCB] /\ NoNewWait(tcb, tc)
    BY <2>2, MilderNoNewWait
  <2> HIDE DEF tc
  <2>5. NoNewWait(tc, tcb')
    BY <1>1, <2>1, <2>3, <2>4, SMT DEF NoNewWait, InObjectWait, TCB, tc
  <2> QED
    BY <2>4, <2>5, NoNewWaitTrans
<1>4. ASSUME ExitThread PROVE NoNewWait(tcb, tcb')
  BY <1>1, <1>4, ExitNoNewWait DEF ExitThread, SwitchAway
<1>5. ASSUME BodyReturns PROVE NoNewWait(tcb, tcb')
  <2>1. tcb' = [tcb EXCEPT ![cur].state = "DORMANT", ![cur].call = "returned"]
    BY <1>5 DEF BodyReturns, SwitchAway
  <2> QED
    BY <1>1, <2>1, SMT DEF NoNewWait, InObjectWait, TCB
<1>6. ASSUME SleepThread PROVE NoNewWait(tcb, tcb')
  <2>1. \/ tcb' = [tcb EXCEPT ![cur].wakeups = @ - 1]
        \/ tcb' = [Block(tcb, cur, cur, Never, "sleep") EXCEPT ![cur].sleeping = TRUE]
    BY <1>6 DEF SleepThread, SwitchAway, CallReturns
  <2>2. CASE tcb' = [tcb EXCEPT ![cur].wakeups = @ - 1]
    <3>1. tcb'[cur].call # "object" /\ \A t \in Slots \ {cur} : tcb'[t] = tcb[t]
      BY <1>1, <2>2, SMT DEF TCB
    <3> QED
      BY <1>1, <3>1, CallerNoNewWait
  <2>3. CASE tcb' = [Block(tcb, cur, cur, Never, "sleep") EXCEPT ![cur].sleeping = TRUE]
    <3>1. tcb'[cur].call # "object" /\ \A t \in Slots \ {cur} : tcb'[t] = tcb[t]
      BY <1>1, <2>3, SMT DEF Block, TCB
    <3> QED
      BY <1>1, <3>1, CallerNoNewWait
  <2> QED
    BY <2>1, <2>2, <2>3
<1>7. ASSUME WaitVblank PROVE NoNewWait(tcb, tcb')
  <2>1. \/ tcb' = [tcb EXCEPT ![cur].fresh = FALSE]
        \/ tcb' = Block(tcb, cur, VBLANK, Never, "vblank")
    BY <1>7 DEF WaitVblank, SwitchAway, CallReturns
  <2>2. CASE tcb' = [tcb EXCEPT ![cur].fresh = FALSE]
    <3>1. tcb'[cur].call # "object" /\ \A t \in Slots \ {cur} : tcb'[t] = tcb[t]
      BY <1>1, <2>2, SMT DEF TCB
    <3> QED
      BY <1>1, <3>1, CallerNoNewWait
  <2>3. CASE tcb' = Block(tcb, cur, VBLANK, Never, "vblank")
    BY <1>1, <2>3, BlockNoNewWait
  <2> QED
    BY <2>1, <2>2, <2>3
<1>8. ASSUME NEW d \in Elapses, YieldAfter(d) PROVE NoNewWait(tcb, tcb')
  <2> DEFINE passed == Elapse(tcb, d)
  <2>1. Milder(tcb, passed) /\ passed \in [Slots -> TCB] /\ Good(passed, ntcb, cur)
    BY <1>1, ElapsesNat, ElapseMilder, MilderGood DEF Milder
  <2>2. passed[cur].call = "guest"
    BY <1>1, <2>1, Zenon DEF Milder
  <2>3. NoNewWait(tcb, passed)
    BY <2>1, MilderNoNewWait
  <2> DEFINE parked(tc) == [tc EXCEPT ![cur].saved = TRUE,
                                      ![cur].state = IF @ = "RUNNING" THEN "READY" ELSE @]
  <2>4. PICK tc \in Delivered(passed) \cup {passed} : tcb' = tc \/ tcb' = parked(tc)
    BY <1>8, Zenon DEF YieldAfter, SwitchAway, CallReturns
  <2> HIDE DEF passed
  <2>5. /\ NoNewWait(tcb, tc) /\ tc \in [Slots -> TCB] /\ tc[cur].call = "guest"
    <3>1. CASE tc \in Delivered(passed)
      <4>1. Good(tc, ntcb, cur) /\ \A t \in Slots : tc[t].call = passed[t].call
        BY <1>1, <2>1, <3>1, DeliveredGood
      <4>2. NoNewWait(passed, tc)
        BY <1>1, <2>1, <3>1, DeliveredNoNewWait
      <4> QED
        BY <1>1, <2>2, <2>3, <4>1, <4>2, NoNewWaitTrans, GoodIsTable
    <3>2. CASE tc = passed
      BY <2>1, <2>2, <2>3, <3>2
    <3> QED
      BY <2>4, <3>1, <3>2
  <2>6. NoNewWait(tc, parked(tc))
    BY <1>1, <2>5, SMT DEF NoNewWait, InObjectWait, TCB
  <2> HIDE DEF parked
  <2> QED
    BY <2>4, <2>5, <2>6, NoNewWaitTrans
<1> QED
  BY <1>2, <1>3, <1>4, <1>5, <1>6, <1>7, <1>8, Zenon

LEMMA ResumeWaitEndNoNewWait ==
    ASSUME IInv, ResumeWaitEnd
    PROVE  NoNewWait(tcb, tcb')
<1>1. tcb \in [Slots -> TCB] /\ cur \in Slots /\ tcb[cur].call = "waitEnd"
  BY RunningFacts DEF ResumeWaitEnd
<1>2. \/ tcb' = [tcb EXCEPT ![cur].call = "guest", ![cur].wake = 0, ![cur].wait_obj = NoObj]
      \/ \E u : tcb' = Block(tcb, cur, u, Never, "waitEnd")
  BY Zenon DEF ResumeWaitEnd, SwitchAway, CallReturns
<1> QED
  BY <1>1, <1>2, BlockNoNewWait, SMT DEF NoNewWait, InObjectWait, TCB

LEMMA LoopNoNewWait ==
    ASSUME IInv, SchedulerStep
    PROVE  NoNewWait(tcb, tcb')
<1>1. tcb \in [Slots -> TCB] /\ Good(tcb, ntcb, cur) /\ ntcb \in 1 .. MAXTHREADS
  BY GoodIsTable DEF IInv
<1>2. CASE Dispatch
  <2>1. PICK t \in Slots : IsNext(Expire(tcb), t) /\ tcb' = Resumed(Expire(tcb), t)
    BY <1>2 DEF Dispatch
  <2>2. Milder(tcb, Expire(tcb)) /\ Expire(tcb) \in [Slots -> TCB] /\ Expire(tcb)[t].state = "READY"
    BY <1>1, <2>1, ExpireMilder DEF IsNext, Milder
  <2>3. NoNewWait(tcb, Expire(tcb)) /\ NoNewWait(Expire(tcb), tcb')
    BY <2>1, <2>2, MilderNoNewWait, ResumedNoNewWait
  <2> QED
    BY <2>3, NoNewWaitTrans
<1>3. CASE IdleSleep
  <2>1. PICK d \in Elapses, over \in Elapses, left \in 1 .. Period : tcb' = Elapse(tcb, d + left + over)
    BY <1>3 DEF IdleSleep
  <2>2. d + left + over \in Nat
    BY ElapsesNat, TimeAssumption, SMT
  <2> QED
    BY <1>1, <2>1, <2>2, ElapseMilder, MilderNoNewWait
<1>4. CASE IdleVblank
  <2>1. PICK d \in Elapses, over \in Elapses :
           \E tc2 \in Delivered(Elapse(Elapse(tcb, d), FrameWait(DueAfter(d)) + over)) : AfterIdleVblank(tc2)
    BY <1>4, Zenon DEF IdleVblank
  <2> DEFINE wait == FrameWait(DueAfter(d)) + over
             tc == Elapse(Elapse(tcb, d), wait)
  <2>2. wait \in Nat /\ d \in Nat
    BY ElapsesNat, TimeAssumption, DueAfterInRange, SMT DEF FrameWait, IInv
  <2> HIDE DEF wait
  <2>3. Milder(tcb, Elapse(tcb, d)) /\ Elapse(tcb, d) \in [Slots -> TCB] /\ Good(Elapse(tcb, d), ntcb, cur)
    BY <1>1, <2>2, ElapseMilder, MilderGood, GoodIsTable
  <2>4. Milder(Elapse(tcb, d), tc) /\ Good(tc, ntcb, cur) /\ NoNewWait(tcb, tc)
    BY <2>2, <2>3, ElapseMilder, MilderGood, MilderTrans, MilderNoNewWait
  <2>5. PICK tc2 \in Delivered(tc) : AfterIdleVblank(tc2)
    BY <2>1 DEF wait
  <2> HIDE DEF tc
  <2>6. Good(tc2, ntcb, cur) /\ tc2 \in [Slots -> TCB] /\ NoNewWait(tcb, tc2)
    BY <1>1, <2>4, <2>5, DeliveredGood, GoodIsTable, DeliveredNoNewWait, NoNewWaitTrans
  <2>7. \/ tcb' = tc2
        \/ \E t \in Allocated : IsSoonest(tc2, tc2[t].wake) /\ tcb' = Elapse(tc2, tc2[t].wake)
    BY <2>5, Zenon DEF AfterIdleVblank
  <2>8. ASSUME NEW t \in Allocated, IsSoonest(tc2, tc2[t].wake), tcb' = Elapse(tc2, tc2[t].wake)
        PROVE  NoNewWait(tcb, tcb')
    <3>1. tc2[t].wake \in Nat
      BY <1>1, <2>6, <2>8, AllocatedSlots, SMT DEF IsSoonest, TCB, Never
    <3> QED
      BY <2>6, <2>8, <3>1, ElapseMilder, MilderNoNewWait, NoNewWaitTrans
  <2> QED
    BY <2>6, <2>7, <2>8
<1> QED
  BY <1>2, <1>3, <1>4 DEF SchedulerStep

LEMMA NextNoNewWait ==
    ASSUME IInv, UnstartedInNoCall(tcb), [Next]_vars
    PROVE  NoNewWait(tcb, tcb')
<1>1. CASE ThreadCall
  <2>1. CASE \E on \in BOOLEAN : SetHandler(on)
    BY <2>1, SameNoNewWait DEF SetHandler
  <2>2. InGuest
    BY <1>1 DEF ThreadCall, CreateThread, StartThread, TerminateThread, WakeupThread, CancelWakeup,
                WaitThreadEnd, SetPriority, DelayThread, ExitThread, BodyReturns, SleepThread,
                WaitVblank, SetHandler, Yield, YieldAfter
  <2> QED
    BY <1>1, <2>1, <2>2, GuestCallNoNewWait, OwnCallNoNewWait, Zenon DEF ThreadCall, Yield
<1>2. CASE UNCHANGED vars
  BY <1>2, SameNoNewWait DEF vars
<1> QED
  BY <1>1, <1>2, ResumeWaitEndNoNewWait, LoopNoNewWait, Zenon DEF Next, Finished

-----------------------------------------------------------------------------
(* The inductive invariant of the objects.  Whoever is inside a wait waits *)
(* for an object that exists or existed, with arguments of its kind; and   *)
(* whoever is parked could not take.                                       *)
AllWants == {NoWant} \cup SemaWants \cup FlagWants

Values ==
    /\ val = [o \in OtherObjs |-> val[o]]
    /\ \A o \in Semas : val[o] \in 0 .. MaxCount
    /\ \A o \in Flags : val[o] \subseteq Bits

Table ==
    /\ unborn \subseteq OtherObjs
    /\ live \subseteq OtherObjs \ unborn
    /\ IsFiniteSet(live) /\ Cardinality(live) <= TableSize

WaitsForKnown ==
    \A t \in Slots : InObjectWait(tcb, t) =>
        /\ tcb[t].wait_obj \in OtherObjs \ unborn
        /\ want[t] \in Wants(tcb[t].wait_obj)

(* Satisfied, for any values of the objects.                               *)
Admits(vals, o, w) ==
    IF o \in Semas THEN vals[o] >= w.need
    ELSE IF w.any THEN vals[o] \cap w.bits # {} ELSE w.bits \subseteq vals[o]

ParkedUnsatisfied ==
    \A t \in Slots :
        InObjectWait(tcb, t) /\ tcb[t].state = "WAIT_OBJ" /\ tcb[t].wait_obj \in live =>
            ~Admits(val, tcb[t].wait_obj, want[t])

SyncInv ==
    /\ IInv /\ RunnerRuns /\ UnstartedInNoCall(tcb)
    /\ Values /\ Table
    /\ want \in [Slots -> AllWants]
    /\ WaitsForKnown /\ ParkedUnsatisfied

LEMMA SyncInitInv == SyncInit => SyncInv
<1> SUFFICES ASSUME SyncInit PROVE SyncInv
  OBVIOUS
<1>1. IInv
  BY InitInv DEF SyncInit
<1>2. \A t \in Slots : tcb[t].call = "guest"
  BY SMT DEF SyncInit, Init, Fresh
<1>3. RunnerRuns /\ UnstartedInNoCall(tcb) /\ WaitsForKnown /\ ParkedUnsatisfied
  BY <1>2 DEF SyncInit, Init, RunnerRuns, UnstartedInNoCall, WaitsForKnown, InObjectWait,
              ParkedUnsatisfied
<1>4. Values
  BY SyncAssumption DEF SyncInit, Values
<1>5. Table
  BY FS_EmptySet, SyncAssumption DEF SyncInit, Table
<1>6. want \in [Slots -> AllWants]
  BY DEF SyncInit, AllWants
<1> QED
  BY <1>1, <1>3, <1>4, <1>5, <1>6 DEF SyncInv

(* The new value of an object.                                             *)
LEMMA Updated ==
    ASSUME Values, NEW o \in OtherObjs, NEW v, Update(o, v),
           o \in Semas => v \in 0 .. MaxCount, o \in Flags => v \subseteq Bits
    PROVE  /\ Values' /\ val'[o] = v
           /\ \A p \in OtherObjs \ {o} : val'[p] = val[p]
<1>1. val' = [p \in OtherObjs |-> IF p = o THEN v ELSE val[p]]
  BY Zenon DEF Update, Values
<1>2. val'[o] = v /\ \A p \in OtherObjs \ {o} : val'[p] = val[p]
  BY <1>1
<1>3. val' = [p \in OtherObjs |-> val'[p]]
  BY <1>1
<1>4. \A p \in Semas : val'[p] \in 0 .. MaxCount
  <2> SUFFICES ASSUME NEW p \in Semas PROVE val'[p] \in 0 .. MaxCount
    OBVIOUS
  <2> QED
    BY <1>2, SyncAssumption, Zenon DEF Values
<1>5. \A p \in Flags : val'[p] \subseteq Bits
  <2> SUFFICES ASSUME NEW p \in Flags PROVE val'[p] \subseteq Bits
    OBVIOUS
  <2> QED
    BY <1>2, SyncAssumption, Zenon DEF Values
<1> QED
  BY <1>2, <1>3, <1>4, <1>5, Zenon DEF Values

(* The value of p admits no wait it did not admit before.                  *)
NotRaised(p) ==
    /\ p \in Semas => val'[p] <= val[p]
    /\ p \in Flags => val'[p] \subseteq val[p]

LEMMA StillUnsatisfied ==
    ASSUME Values, Values', NEW p \in OtherObjs, NEW w \in Wants(p), NotRaised(p),
           ~Admits(val, p, w)
    PROVE  ~Admits(val', p, w)
<1>1. CASE p \in Semas
  <2>1. w.need \in Int
    BY <1>1, SyncAssumption DEF Wants, SemaWants
  <2>2. val[p] \in Int /\ val'[p] \in Int /\ val'[p] <= val[p] /\ ~(val[p] >= w.need)
    BY <1>1, SMT DEF Values, NotRaised, Admits
  <2>3. ~(val'[p] >= w.need)
    BY <2>1, <2>2, SMT
  <2> QED
    BY <1>1, <2>3 DEF Admits
<1>2. CASE p \notin Semas
  <2>1. p \in Flags
    BY <1>2, SyncAssumption
  <2> QED
    BY <1>2, <2>1, SMT DEF NotRaised, Admits
<1> QED
  BY <1>1, <1>2

-----------------------------------------------------------------------------
(* A step that starts no wait keeps the invariant if it raises no object   *)
(* anyone is still parked on.                                              *)
LEMMA StepKeeps ==
    ASSUME SyncInv, IInv', RunnerRuns', Values', Table', want' \in [Slots -> AllWants],
           NoNewWait(tcb, tcb'), unborn' \subseteq unborn, live' \subseteq live \cup unborn,
           \A t \in Slots : InObjectWait(tcb', t) => want'[t] = want[t],
           \A p \in OtherObjs \ unborn :
              NotRaised(p) \/ \A t \in Slots : tcb'[t].state = "WAIT_OBJ" => tcb'[t].wait_obj # p
    PROVE  SyncInv'
<1>1. UnstartedInNoCall(tcb')
  BY Zenon DEF SyncInv, UnstartedInNoCall, NoNewWait
<1>2. WaitsForKnown'
  <2> SUFFICES ASSUME NEW t \in Slots, InObjectWait(tcb', t)
               PROVE  /\ tcb'[t].wait_obj \in OtherObjs \ unborn'
                      /\ want'[t] \in Wants(tcb'[t].wait_obj)
    BY DEF WaitsForKnown
  <2>1. InObjectWait(tcb, t) /\ tcb'[t].wait_obj = tcb[t].wait_obj /\ want'[t] = want[t]
    BY Zenon DEF NoNewWait
  <2>2. tcb[t].wait_obj \in OtherObjs \ unborn /\ want[t] \in Wants(tcb[t].wait_obj)
    BY <2>1, Zenon DEF SyncInv, WaitsForKnown
  <2> QED
    BY <2>1, <2>2
<1>3. ParkedUnsatisfied'
  <2> SUFFICES ASSUME NEW t \in Slots, InObjectWait(tcb', t), tcb'[t].state = "WAIT_OBJ",
                      tcb'[t].wait_obj \in live'
               PROVE  ~Admits(val', tcb'[t].wait_obj, want'[t])
    BY Zenon DEF ParkedUnsatisfied
  <2> DEFINE p == tcb[t].wait_obj
             w == want[t]
  <2>1. /\ InObjectWait(tcb, t) /\ tcb'[t].wait_obj = p
        /\ tcb[t].state = "WAIT_OBJ" /\ want'[t] = w
    BY Zenon DEF NoNewWait
  <2>2. p \in OtherObjs \ unborn /\ w \in Wants(p)
    BY <2>1, Zenon DEF SyncInv, WaitsForKnown
  <2>3. p \in live
    BY <2>1, <2>2
  <2>4. ~Admits(val, p, w)
    BY <2>1, <2>3, Zenon DEF SyncInv, ParkedUnsatisfied
  <2>5. NotRaised(p)
    BY <2>1, <2>2
  <2> HIDE DEF p, w
  <2>6. ~Admits(val', p, w)
    BY <2>2, <2>4, <2>5, StillUnsatisfied DEF SyncInv
  <2> QED
    BY <2>1, <2>6, Zenon
<1> QED
  BY <1>1, <1>2, <1>3 DEF SyncInv

-----------------------------------------------------------------------------
(* The calls on objects that leave the threads alone.                      *)
LEMMA QuietCall ==
    ASSUME SyncInv, InGuest, CallReturns(tcb), TimeStands, UNCHANGED <<ntcb, handler, want>>,
           Values', Table', unborn' \subseteq unborn, live' \subseteq live \cup unborn,
           \A p \in OtherObjs \ unborn : NotRaised(p)
    PROVE  SyncInv'
<1>1. tcb' = tcb /\ cur' = cur /\ want' = want
  BY DEF CallReturns
<1>2. IInv'
  BY <1>1, Zenon DEF SyncInv, IInv, TimeStands, Allocated
<1>3. RunnerRuns'
  BY <1>1 DEF SyncInv, RunnerRuns
<1>4. NoNewWait(tcb, tcb')
  BY <1>1, SameNoNewWait
<1> QED
  BY <1>1, <1>2, <1>3, <1>4, StepKeeps DEF SyncInv

LEMMA SameNotRaised ==
    ASSUME Values, NEW p \in OtherObjs, val'[p] = val[p]
    PROVE  NotRaised(p)
<1>1. p \in Semas => val[p] \in Int
  BY SMT DEF Values
<1>2. p \in Semas => val[p] <= val[p]
  BY <1>1, SMT
<1> QED
  BY <1>2, Zenon DEF NotRaised

LEMMA CreateKeeps ==
    ASSUME SyncInv, NEW o \in OtherObjs, NEW v, Create(o, v),
           o \in Semas => v \in 0 .. MaxCount, o \in Flags => v \subseteq Bits
    PROVE  SyncInv'
<1>1. /\ InGuest /\ o \in unborn /\ Cardinality(live) < TableSize /\ Update(o, v)
      /\ unborn' = unborn \ {o} /\ live' = live \cup {o}
      /\ CallReturns(tcb) /\ TimeStands /\ UNCHANGED <<ntcb, handler, want>>
  BY DEF Create
<1>2. Values' /\ \A p \in OtherObjs \ {o} : val'[p] = val[p]
  BY <1>1, Updated DEF SyncInv
<1>3. \A p \in OtherObjs \ unborn : NotRaised(p)
  BY <1>1, <1>2, SameNotRaised DEF SyncInv
<1>4. Table'
  <2>1. IsFiniteSet(live) /\ o \notin live
    BY <1>1 DEF SyncInv, Table
  <2>2. IsFiniteSet(live \cup {o}) /\ Cardinality(live \cup {o}) = Cardinality(live) + 1
    BY <2>1, FS_AddElement
  <2>3. Cardinality(live) \in Nat
    BY <2>1, FS_CardinalityType
  <2>4. Cardinality(live') <= TableSize
    BY <1>1, <2>2, <2>3, SyncAssumption, SMT
  <2> QED
    BY <1>1, <2>2, <2>4 DEF SyncInv, Table
<1> QED
  BY <1>1, <1>2, <1>3, <1>4, QuietCall

LEMMA DeleteKeeps ==
    ASSUME SyncInv, NEW o \in OtherObjs, Delete(o)
    PROVE  SyncInv'
<1>1. /\ InGuest /\ live' = live \ {o} /\ UNCHANGED <<val, unborn>>
      /\ CallReturns(tcb) /\ TimeStands /\ UNCHANGED <<ntcb, handler, want>>
  BY DEF Delete
<1>2. Values' /\ \A p \in OtherObjs : NotRaised(p)
  BY <1>1, SameNotRaised DEF SyncInv, Values
<1>3. Table'
  <2>1. IsFiniteSet(live)
    BY DEF SyncInv, Table
  <2>2. IsFiniteSet(live \ {o}) /\ Cardinality(live \ {o}) <= Cardinality(live)
    BY <2>1, FS_Subset
  <2>3. Cardinality(live) \in Nat /\ Cardinality(live \ {o}) \in Nat
    BY <2>1, <2>2, FS_CardinalityType
  <2>4. Cardinality(live') <= TableSize
    BY <1>1, <2>2, <2>3, SyncAssumption, SMT DEF SyncInv, Table
  <2> QED
    BY <1>1, <2>2, <2>4 DEF SyncInv, Table
<1> QED
  BY <1>1, <1>2, <1>3, QuietCall

LEMMA LowerKeeps ==
    ASSUME SyncInv, NEW o \in OtherObjs, NEW v, Lower(o, v),
           o \in Semas => v \in 0 .. MaxCount /\ v <= val[o], o \in Flags => v \subseteq val[o]
    PROVE  SyncInv'
<1>1. /\ InGuest /\ Update(o, v) /\ UNCHANGED <<unborn, live>>
      /\ CallReturns(tcb) /\ TimeStands /\ UNCHANGED <<ntcb, handler, want>>
  BY DEF Lower
<1>2. o \in Flags => v \subseteq Bits
  BY DEF SyncInv, Values
<1>3. Values' /\ val'[o] = v /\ \A p \in OtherObjs \ {o} : val'[p] = val[p]
  BY <1>1, <1>2, Updated DEF SyncInv
<1>4. \A p \in OtherObjs : NotRaised(p)
  <2>1. NotRaised(o)
    BY <1>3, Zenon DEF NotRaised
  <2> QED
    BY <1>3, <2>1, SameNotRaised DEF SyncInv
<1>5. Table'
  BY <1>1 DEF SyncInv, Table
<1> QED
  BY <1>1, <1>3, <1>4, <1>5, QuietCall

(* A signal wakes whoever is parked on the object, so that raising it      *)
(* leaves none behind.                                                     *)
LEMMA SignalKeeps ==
    ASSUME SyncInv, NEW o \in OtherObjs, NEW v, Signal(o, v),
           o \in Semas => v \in 0 .. MaxCount, o \in Flags => v \subseteq Bits
    PROVE  SyncInv'
<1> DEFINE woken == Wake(tcb, o)
<1>1. /\ InGuest /\ Update(o, v) /\ Preempt(woken) /\ UNCHANGED <<unborn, live, want>>
      /\ TimeStands /\ UNCHANGED <<ntcb, handler>>
  BY DEF Signal, Woken
<1>2. /\ IInv /\ tcb \in [Slots -> TCB] /\ cur \in Slots /\ cur \in 0 .. ntcb - 1
      /\ tcb[cur].call = "guest" /\ Good(tcb, ntcb, cur) /\ ~stopped
      /\ cur # Scheduling /\ Runs(tcb, cur)
  BY <1>1, GuestFacts, Zenon DEF SyncInv, RunnerRuns, InGuest
<1>3. /\ Milder(tcb, woken) /\ Good(woken, ntcb, cur) /\ woken \in [Slots -> TCB]
      /\ woken[cur].call = "guest" /\ Runs(woken, cur)
  BY <1>2, WakeMilder, MilderGood, GoodIsTable, MilderRuns DEF Milder
<1>4. \A t \in Slots : woken[t].state = "WAIT_OBJ" => woken[t].wait_obj # o
  BY <1>2, SMT DEF Wake, TCB
<1> HIDE DEF woken
<1>5. Good(tcb', ntcb, cur') /\ cur' \in {cur, Scheduling}
  BY <1>1, <1>2, <1>3, PreemptGood
<1>6. IInv'
  BY <1>1, <1>2, <1>5, CallInv DEF TimeStands, IInv
<1>7. RunnerRuns'
  BY <1>1, <1>2, <1>3, PreemptRuns
<1>8. NoNewWait(tcb, tcb')
  BY <1>1, <1>2, <1>3, MilderNoNewWait, PreemptNoNewWait
<1>9. \A t \in Slots : tcb'[t].state = "WAIT_OBJ" => tcb'[t].wait_obj # o
  BY <1>1, <1>2, <1>3, <1>4, SMT DEF Preempt, TCB
<1>10. Values' /\ \A p \in OtherObjs \ {o} : val'[p] = val[p]
  BY <1>1, Updated DEF SyncInv
<1>11. \A p \in OtherObjs \ unborn :
          NotRaised(p) \/ \A t \in Slots : tcb'[t].state = "WAIT_OBJ" => tcb'[t].wait_obj # p
  BY <1>9, <1>10, SameNotRaised DEF SyncInv
<1>12. Table' /\ want' \in [Slots -> AllWants]
  BY <1>1 DEF SyncInv, Table
<1> QED
  BY <1>1, <1>6, <1>7, <1>8, <1>10, <1>11, <1>12, StepKeeps

-----------------------------------------------------------------------------
(* Waiting.                                                                *)
LEMMA TakenIs ==
    ASSUME Values, NEW o \in OtherObjs, NEW w \in Wants(o), Satisfied(o, w)
    PROVE  /\ o \in Semas => Taken(o, w) \in 0 .. MaxCount /\ Taken(o, w) <= val[o]
           /\ o \in Flags => Taken(o, w) \subseteq val[o]
<1>1. ASSUME o \in Semas PROVE Taken(o, w) \in 0 .. MaxCount /\ Taken(o, w) <= val[o]
  <2>1. w.need \in 1 .. MaxCount /\ val[o] \in 0 .. MaxCount /\ val[o] >= w.need
    BY <1>1 DEF Wants, SemaWants, Values, Satisfied
  <2>2. Taken(o, w) = val[o] - w.need
    BY <1>1 DEF Taken
  <2> QED
    BY <2>1, <2>2, SyncAssumption, SMT
<1>2. ASSUME o \in Flags PROVE Taken(o, w) \subseteq val[o]
  <2>1. o \notin Semas /\ w.clear \in {"none", "bits", "all"}
    BY <1>2, SyncAssumption DEF Wants, FlagWants
  <2> QED
    BY <2>1, SMT DEF Taken
<1> QED
  BY <1>1, <1>2

(* A thread parks only when it could not take, and its object is one that  *)
(* exists or existed.                                                      *)
LEMMA ParksKeeps ==
    ASSUME SyncInv, cur # Scheduling, NEW passed \in Nat,
           NEW tc, tc = tcb \/ tc = Elapse(tcb, passed),
           NEW o \in OtherObjs \ unborn, NEW w \in Wants(o), ~Satisfied(o, w),
           Parks(tc, passed, o, w), UNCHANGED <<ntcb, handler, stopped, unborn, live>>
    PROVE  SyncInv'
<1>1. /\ IInv /\ tcb \in [Slots -> TCB] /\ cur \in Slots /\ cur \in 0 .. ntcb - 1
      /\ Good(tcb, ntcb, cur) /\ ~stopped /\ Runs(tcb, cur)
  BY RunningFacts, Zenon DEF SyncInv, RunnerRuns
<1>2. PICK d \in IF w.usec = Never THEN {0} ELSE Elapses :
         /\ SwitchAway(Block(Elapse(tc, d), cur, o, w.usec, "object"))
         /\ due' = DueAfter(passed + d)
  BY DEF Parks
<1>3. d \in Nat
  BY <1>2, ElapsesNat
<1>4. want' = [want EXCEPT ![cur] = w] /\ val' = val
  BY DEF Parks
<1>5. w.usec \in {Never} \cup Nat /\ w \in AllWants
  BY SyncAssumption DEF Wants, SemaWants, FlagWants, AllWants
<1>6. o \in Objs /\ "object" \in Calls \ {"sleep"} /\ "object" # "waitEnd"
  BY DEF Objs, Calls
<1> DEFINE tc2 == Elapse(tc, d)
<1>7. Good(tc, ntcb, cur) /\ tc \in [Slots -> TCB] /\ NoNewWait(tcb, tc) /\ Runs(tc, cur)
  BY <1>1, ElapseMilder, MilderGood, GoodIsTable, MilderNoNewWait, SameNoNewWait, MilderRuns
<1>8. Milder(tc, tc2) /\ Good(tc2, ntcb, cur) /\ tc2 \in [Slots -> TCB]
  BY <1>3, <1>7, ElapseMilder, MilderGood, GoodIsTable
<1>9. NoNewWait(tcb, tc2) /\ Runs(tc2, cur)
  BY <1>1, <1>7, <1>8, MilderNoNewWait, NoNewWaitTrans, MilderRuns
<1> HIDE DEF tc2
<1>10. tcb' = Block(tc2, cur, o, w.usec, "object") /\ cur' = Scheduling
  BY <1>2 DEF SwitchAway, tc2
<1>11. Good(tcb', ntcb, cur')
  BY <1>1, <1>5, <1>6, <1>8, <1>10, BlockGood
<1>12. IInv'
  <2>1. due' \in -(Period + 1) .. Period
    <3>1. passed + d \in Nat /\ due \in -(Period + 1) .. Period
      BY <1>1, <1>3 DEF IInv
    <3> QED
      BY <1>2, <3>1, DueAfterInRange
  <2> QED
    BY <1>1, <1>10, <1>11, <2>1, CallInv DEF IInv
<1>13. RunnerRuns'
  BY <1>10 DEF RunnerRuns
<1>14. /\ tcb'[cur].call = "object" /\ tcb'[cur].state = "WAIT_OBJ" /\ tcb'[cur].wait_obj = o
       /\ tcb'[cur].started
       /\ \A t \in Slots \ {cur} : tcb'[t] = tc2[t]
  BY <1>1, <1>8, <1>9, <1>10, SMT DEF Block, TCB, Runs
<1>15. want' \in [Slots -> AllWants] /\ want'[cur] = w /\ \A t \in Slots \ {cur} : want'[t] = want[t]
  BY <1>1, <1>4, <1>5 DEF SyncInv
<1>16. UnstartedInNoCall(tcb')
  BY <1>9, <1>14, Zenon DEF SyncInv, UnstartedInNoCall, NoNewWait
<1>17. WaitsForKnown'
  <2> SUFFICES ASSUME NEW t \in Slots, InObjectWait(tcb', t)
               PROVE  /\ tcb'[t].wait_obj \in OtherObjs \ unborn
                      /\ want'[t] \in Wants(tcb'[t].wait_obj)
    BY DEF WaitsForKnown
  <2>1. CASE t = cur
    BY <1>14, <1>15, <2>1
  <2>2. CASE t # cur
    <3>1. InObjectWait(tcb, t) /\ tcb'[t].wait_obj = tcb[t].wait_obj /\ want'[t] = want[t]
      BY <1>9, <1>14, <1>15, <2>2, Zenon DEF NoNewWait, InObjectWait
    <3> QED
      BY <3>1, Zenon DEF SyncInv, WaitsForKnown
  <2> QED
    BY <2>1, <2>2
<1>18. ParkedUnsatisfied'
  <2> SUFFICES ASSUME NEW t \in Slots, InObjectWait(tcb', t), tcb'[t].state = "WAIT_OBJ",
                      tcb'[t].wait_obj \in live
               PROVE  ~Admits(val, tcb'[t].wait_obj, want'[t])
    BY <1>4, Zenon DEF ParkedUnsatisfied
  <2>1. CASE t = cur
    BY <1>14, <1>15, <2>1, Zenon DEF Admits, Satisfied
  <2>2. CASE t # cur
    <3>1. /\ InObjectWait(tcb, t) /\ tcb'[t].wait_obj = tcb[t].wait_obj /\ want'[t] = want[t]
          /\ tcb[t].state = "WAIT_OBJ"
      BY <1>9, <1>14, <1>15, <2>2, Zenon DEF NoNewWait, InObjectWait
    <3> QED
      BY <3>1, Zenon DEF SyncInv, ParkedUnsatisfied
  <2> QED
    BY <2>1, <2>2
<1>19. Values' /\ Table'
  BY <1>4 DEF SyncInv, Values, Table
<1> QED
  BY <1>12, <1>13, <1>15, <1>16, <1>17, <1>18, <1>19 DEF SyncInv

(* Taking from an object lowers it and leaves the others alone.            *)
LEMMA TakingLowers ==
    ASSUME Values, NEW o \in OtherObjs, NEW w \in Wants(o), Satisfied(o, w),
           Update(o, Taken(o, w))
    PROVE  Values' /\ \A p \in OtherObjs : NotRaised(p)
<1> DEFINE v == Taken(o, w)
<1>1. /\ o \in Semas => v \in 0 .. MaxCount /\ v <= val[o]
      /\ o \in Flags => v \subseteq val[o]
  BY TakenIs
<1> HIDE DEF v
<1>2. o \in Flags => v \subseteq Bits
  BY <1>1 DEF Values
<1>3. Values' /\ val'[o] = v /\ \A p \in OtherObjs \ {o} : val'[p] = val[p]
  BY <1>1, <1>2, Updated DEF v
<1>4. NotRaised(o)
  BY <1>1, <1>3, Zenon DEF NotRaised
<1> QED
  BY <1>3, <1>4, SameNotRaised

LEMMA WaitKeeps ==
    ASSUME SyncInv, NEW o \in OtherObjs, NEW w \in Wants(o), Wait(o, w)
    PROVE  SyncInv'
<1>1. InGuest /\ o \in live /\ UNCHANGED <<ntcb, handler, stopped, unborn, live>>
  BY DEF Wait
<1>2. Values /\ Table /\ o \in OtherObjs \ unborn
  BY <1>1 DEF SyncInv, Table
<1>3. CASE Satisfied(o, w)
  <2>1. Update(o, Taken(o, w)) /\ CallReturns(tcb) /\ UNCHANGED <<due, want>>
    BY <1>3, Zenon DEF Wait
  <2>2. Values' /\ \A p \in OtherObjs : NotRaised(p)
    BY <1>2, <1>3, <2>1, TakingLowers
  <2>3. Table' /\ TimeStands
    BY <1>1, <1>2, <2>1 DEF Table, TimeStands
  <2> QED
    BY <1>1, <2>1, <2>2, <2>3, QuietCall
<1>4. CASE ~Satisfied(o, w)
  <2>1. Parks(tcb, 0, o, w)
    BY <1>4, Zenon DEF Wait
  <2> QED
    BY <1>1, <1>2, <1>4, <2>1, ParksKeeps DEF InGuest
<1> QED
  BY <1>3, <1>4

(* A wait that is over puts its thread back into guest code.               *)
LEMMA LeavesKeeps ==
    ASSUME SyncInv, InWait, NEW d \in Nat, Leaves(Elapse(tcb, d)), due' = DueAfter(d),
           Values', \A p \in OtherObjs : NotRaised(p),
           UNCHANGED <<ntcb, handler, stopped, unborn, live>>
    PROVE  SyncInv'
<1>1. /\ IInv /\ tcb \in [Slots -> TCB] /\ cur \in Slots /\ cur \in 0 .. ntcb - 1
      /\ Good(tcb, ntcb, cur) /\ ~stopped /\ Runs(tcb, cur) /\ tcb[cur].call = "object"
  BY RunningFacts, Zenon DEF SyncInv, RunnerRuns, InWait
<1> DEFINE tc == Elapse(tcb, d)
<1>2. Milder(tcb, tc) /\ Good(tc, ntcb, cur) /\ tc \in [Slots -> TCB]
      /\ NoNewWait(tcb, tc) /\ Runs(tc, cur)
  BY <1>1, ElapseMilder, MilderGood, GoodIsTable, MilderNoNewWait, MilderRuns
<1> HIDE DEF tc
<1> DEFINE r == [tc[cur] EXCEPT !.call = "guest", !.wake = 0, !.wait_obj = NoObj]
<1>3. tcb' = [tc EXCEPT ![cur] = r] /\ cur' = cur
  BY DEF Leaves, CallReturns, tc
<1>4. want' = [want EXCEPT ![cur] = NoWant]
  BY DEF Leaves
<1>5. 0 \in Nat /\ NoObj \in Objs /\ "guest" \in Calls /\ tc[cur] \in TCB
  BY <1>1, <1>2, SMT DEF Objs, Calls
<1>6. r \in TCB
  BY <1>5, Zenon DEF TCB
<1>7. /\ r.state = tc[cur].state /\ r.call = "guest"
      /\ r.started = tc[cur].started /\ r.saved = tc[cur].saved
  BY <1>5, SMT DEF TCB
<1> HIDE DEF r
<1>8. Fits(tc, ntcb, cur, cur, r)
  BY <1>1, <1>2, <1>6, <1>7, SMT DEF Good, Fits, Runs
<1>9. Good(tcb', ntcb, cur')
  BY <1>1, <1>2, <1>3, <1>8, SlotGood, Zenon
<1>10. IInv'
  <2>1. due' \in -(Period + 1) .. Period
    BY <1>1, DueAfterInRange DEF IInv
  <2> QED
    BY <1>1, <1>3, <1>9, <2>1, CallInv DEF IInv
<1>11. tcb'[cur] = r /\ \A t \in Slots \ {cur} : tcb'[t] = tc[t]
  BY <1>1, <1>2, <1>3
<1>12. RunnerRuns'
  BY <1>2, <1>3, <1>7, <1>11, Zenon DEF RunnerRuns, Runs
<1>13. NoNewWait(tcb, tcb')
  <2>1. tcb'[cur].call # "object"
    BY <1>7, <1>11
  <2>2. NoNewWait(tc, tcb')
    BY <1>1, <1>11, <2>1, CallerNoNewWait
  <2> QED
    BY <1>2, <2>2, NoNewWaitTrans
<1>14. want' \in [Slots -> AllWants] /\ \A t \in Slots \ {cur} : want'[t] = want[t]
  BY <1>1, <1>4 DEF SyncInv, AllWants
<1>15. \A t \in Slots : InObjectWait(tcb', t) => want'[t] = want[t]
  BY <1>7, <1>11, <1>14 DEF InObjectWait
<1>16. Table'
  BY DEF SyncInv, Table
<1> QED
  BY <1>10, <1>12, <1>13, <1>14, <1>15, <1>16, StepKeeps

LEMMA ResumeWaitKeeps ==
    ASSUME SyncInv, ResumeWait
    PROVE  SyncInv'
<1> DEFINE o == tcb[cur].wait_obj
           w == want[cur]
<1>1. InWait /\ cur # Scheduling /\ UNCHANGED <<ntcb, handler, stopped, unborn, live>>
  BY DEF ResumeWait, InWait
<1>2. cur \in Slots /\ InObjectWait(tcb, cur)
  BY <1>1, RunningFacts, Zenon DEF SyncInv, RunnerRuns, Runs, InWait, InObjectWait
<1>3. o \in OtherObjs \ unborn /\ w \in Wants(o)
  BY <1>2 DEF SyncInv, WaitsForKnown
<1>4. PICK d \in Nat : ResumeAfter(d)
  BY ElapsesNat DEF ResumeWait
<1>5. CASE Leaves(Elapse(tcb, d)) /\ due' = DueAfter(d) /\ UNCHANGED val
  <2>1. Values' /\ \A p \in OtherObjs : NotRaised(p)
    BY <1>5, SameNotRaised DEF SyncInv, Values
  <2> QED
    BY <1>1, <1>5, <2>1, LeavesKeeps
<1>6. CASE /\ Satisfied(o, w) /\ Leaves(Elapse(tcb, d)) /\ due' = DueAfter(d)
           /\ Update(o, Taken(o, w))
  <2>1. Values' /\ \A p \in OtherObjs : NotRaised(p)
    BY <1>3, <1>6, TakingLowers DEF SyncInv
  <2> QED
    BY <1>1, <1>6, <2>1, LeavesKeeps
<1>7. CASE ~Satisfied(o, w) /\ Parks(Elapse(tcb, d), d, o, w)
  BY <1>1, <1>3, <1>7, ParksKeeps
<1> QED
  BY <1>4, <1>5, <1>6, <1>7, Zenon DEF ResumeAfter

-----------------------------------------------------------------------------
(* The scheduler's own steps, and all steps together.                      *)
LEMMA SchedulerKeeps ==
    ASSUME SyncInv, [Next]_vars, UNCHANGED syncVars
    PROVE  SyncInv'
<1>1. val' = val /\ UNCHANGED <<unborn, live, want>>
  BY DEF syncVars
<1>2. IInv' /\ RunnerRuns' /\ NoNewWait(tcb, tcb')
  BY NextInv, NextRuns, NextNoNewWait DEF SyncInv
<1>3. Values' /\ Table' /\ want' \in [Slots -> AllWants] /\ \A p \in OtherObjs : NotRaised(p)
  BY <1>1, SameNotRaised DEF SyncInv, Values, Table
<1> QED
  BY <1>1, <1>2, <1>3, StepKeeps

LEMMA CallKeeps ==
    ASSUME SyncInv, SyncCall
    PROVE  SyncInv'
<1>1. /\ Semas \subseteq OtherObjs /\ Flags \subseteq OtherObjs
      /\ \A o \in Flags : o \notin Semas
      /\ MaxCount \in Nat
  BY SyncAssumption
<1>2. ASSUME NEW o \in Semas, NEW n \in 0 .. MaxCount, Create(o, n) PROVE SyncInv'
  BY <1>1, <1>2, CreateKeeps
<1>3. ASSUME NEW o \in Semas, NEW n \in 1 .. MaxCount, SignalSema(o, n) PROVE SyncInv'
  <2>1. val[o] \in 0 .. MaxCount /\ val[o] + n <= MaxCount /\ Signal(o, val[o] + n)
    BY <1>3 DEF SyncInv, Values, SignalSema
  <2>2. val[o] + n \in 0 .. MaxCount
    BY <1>1, <2>1, SMT
  <2> QED
    BY <1>1, <2>1, <2>2, SignalKeeps
<1>4. ASSUME NEW o \in Semas, NEW n \in 1 .. MaxCount, PollSema(o, n) PROVE SyncInv'
  <2>1. val[o] \in 0 .. MaxCount /\ val[o] >= n /\ Lower(o, val[o] - n)
    BY <1>4 DEF SyncInv, Values, PollSema
  <2>2. val[o] - n \in 0 .. MaxCount /\ val[o] - n <= val[o]
    BY <1>1, <2>1, SMT
  <2> QED
    BY <1>1, <2>1, <2>2, LowerKeeps
<1>5. ASSUME NEW o \in Flags, NEW bits \in SUBSET Bits, Create(o, bits) PROVE SyncInv'
  BY <1>1, <1>5, CreateKeeps
<1>6. ASSUME NEW o \in Flags, NEW bits \in SUBSET Bits, SetEventFlag(o, bits) PROVE SyncInv'
  <2>1. val[o] \cup bits \subseteq Bits /\ Signal(o, val[o] \cup bits)
    BY <1>6 DEF SyncInv, Values, SetEventFlag
  <2> QED
    BY <1>1, <2>1, SignalKeeps
<1>7. ASSUME NEW o \in Flags, NEW mask, ClearEventFlag(o, mask) PROVE SyncInv'
  <2>1. val[o] \cap mask \subseteq val[o] /\ Lower(o, val[o] \cap mask)
    BY <1>7 DEF ClearEventFlag
  <2> QED
    BY <1>1, <2>1, LowerKeeps
<1> QED
  BY <1>2, <1>3, <1>4, <1>5, <1>6, <1>7, DeleteKeeps, WaitKeeps, Zenon DEF SyncCall

LEMMA SyncStepInv == SyncInv /\ [SyncNext]_<<vars, syncVars>> => SyncInv'
<1> SUFFICES ASSUME SyncInv, [SyncNext]_<<vars, syncVars>> PROVE SyncInv'
  OBVIOUS
<1>1. CASE UNCHANGED <<vars, syncVars>>
  BY <1>1, SchedulerKeeps
<1> QED
  BY <1>1, CallKeeps, ResumeWaitKeeps, SchedulerKeeps DEF SyncNext

LEMMA SyncInvariance == SyncSpec => []SyncInv
  BY SyncInitInv, SyncStepInv, PTL DEF SyncSpec

(* The scheduler's variables and the objects keep their types: counts and  *)
(* patterns stay within their bounds, no more objects are live than s_sync *)
(* holds, and a parked thread's arguments are of its object's kind.        *)
THEOREM SyncTypeCorrect == SyncSpec => []SyncTypeOK
<1>1. SyncInv => SyncTypeOK
  <2> SUFFICES ASSUME SyncInv PROVE SyncTypeOK
    OBVIOUS
  <2>1. TypeOK
    BY Zenon DEF SyncInv, IInv, TypeOK, Good
  <2>2. Allocated \subseteq Slots
    BY AllocatedSlots DEF SyncInv, IInv
  <2>3. \A t \in Allocated : Parked(t) => /\ tcb[t].wait_obj \in OtherObjs
                                          /\ want[t] \in Wants(tcb[t].wait_obj)
    BY <2>2 DEF SyncInv, WaitsForKnown, InObjectWait, Parked
  <2>4. \A t \in Slots : want[t] \in {NoWant} \cup SemaWants \cup FlagWants
    BY DEF SyncInv, AllWants
  <2> QED
    BY <2>1, <2>3, <2>4 DEF SyncInv, Values, Table, SyncTypeOK
<1> QED
  BY <1>1, SyncInvariance, PTL

(* No signal is lost: a thread is never left parked on an object it could  *)
(* take from, whichever threads take, signal, time out or are terminated   *)
(* in between.                                                             *)
THEOREM NoSignalLost == SyncSpec => []NoSatisfiedWaiter
<1>1. SyncInv => NoSatisfiedWaiter
  <2> SUFFICES ASSUME SyncInv, NEW t \in Allocated, Parked(t), tcb[t].wait_obj \in live
               PROVE  ~Satisfied(tcb[t].wait_obj, want[t])
    BY DEF NoSatisfiedWaiter
  <2>1. t \in Slots /\ InObjectWait(tcb, t) /\ tcb[t].state = "WAIT_OBJ"
    BY AllocatedSlots DEF SyncInv, IInv, InObjectWait, Parked
  <2>2. ~Admits(val, tcb[t].wait_obj, want[t])
    BY <2>1 DEF SyncInv, ParkedUnsatisfied
  <2> QED
    BY <2>2 DEF Admits, Satisfied
<1> QED
  BY <1>1, SyncInvariance, PTL

-----------------------------------------------------------------------------
(* What can make a parked thread ready: in h_SignalSema and                *)
(* h_SetEventFlag the sched_wake of its object, and a start; never the     *)
(* waits and takings of the others.                                        *)
LEMMA LeftForACause ==
    ASSUME SyncInv, [SyncNext]_<<vars, syncVars>>, NEW t \in Allocated,
           Parked(t), tcb[t].wake # 0, tcb'[t].state = "READY", ~StartThread(t)
    PROVE  LET o == tcb[t].wait_obj
           IN IF o \in Semas THEN \E n \in 1 .. MaxCount : SignalSema(o, n)
                             ELSE \E b \in SUBSET Bits : SetEventFlag(o, b)
<1> DEFINE p == tcb[t].wait_obj
           Cause == IF p \in Semas THEN \E n \in 1 .. MaxCount : SignalSema(p, n)
                                   ELSE \E b \in SUBSET Bits : SetEventFlag(p, b)
<1> SUFFICES ASSUME ~Cause PROVE FALSE
  OBVIOUS
<1>1. /\ IInv /\ RunnerRuns /\ tcb \in [Slots -> TCB] /\ t \in Slots
      /\ tcb[t].state = "WAIT_OBJ"
  BY AllocatedSlots, GoodIsTable DEF SyncInv, IInv, Parked
<1>2. p \in OtherObjs
  BY <1>1 DEF SyncInv, WaitsForKnown, InObjectWait, Parked
<1>3. \A o \in Flags : o \in OtherObjs /\ o \notin Semas
  BY SyncAssumption
<1>4. \A o \in Semas : o \in OtherObjs
  BY SyncAssumption
<1>5. Held({p}, tcb, t) /\ NoThreads({p})
  BY <1>1, <1>2, SyncAssumption, ObjAssumption, Zenon DEF Held, NoThreads
<1>6. ~Holds({p}, tcb, tcb')
  BY <1>1, <1>5, Zenon DEF Holds, Held
<1> HIDE DEF p
<1>7. ASSUME UNCHANGED tcb PROVE FALSE
  BY <1>6, <1>7 DEF Holds
<1>8. ASSUME [Next]_vars PROVE FALSE
  BY <1>1, <1>5, <1>8, NextHolds
<1>9. ASSUME cur # Scheduling, NEW tc \in [Slots -> TCB], Holds({p}, tcb, tc), Runs(tc, cur),
             \A u \in Slots \ {cur} : tcb'[u] = tc[u]
      PROVE  FALSE
  <2>1. ~Held({p}, tc, cur)
    BY <1>9, Zenon DEF Runs, Held
  <2> QED
    BY <1>6, <1>9, <2>1, SlotHolds, HoldsTrans
<1>10. ASSUME cur # Scheduling, NEW tc, NEW passed, NEW o, NEW w, Parks(tc, passed, o, w),
              NEW d \in Nat, tc = tcb \/ tc = Elapse(tcb, d)
       PROVE  FALSE
  <2>1. cur \in Slots /\ Runs(tcb, cur)
    BY <1>1, <1>10, RunningFacts, Zenon DEF RunnerRuns
  <2>2. tc \in [Slots -> TCB] /\ Holds({p}, tcb, tc) /\ Runs(tc, cur)
    <3>1. CASE tc = tcb
      BY <1>1, <2>1, <3>1 DEF Holds
    <3>2. CASE tc = Elapse(tcb, d)
      BY <1>1, <1>10, <2>1, <3>2, ElapseMilder, ElapseHolds, MilderRuns, Zenon DEF Milder
    <3> QED
      BY <1>10, <3>1, <3>2
  <2>3. PICK e \in Nat : tcb' = Block(Elapse(tc, e), cur, o, w.usec, "object")
    <3>1. PICK e \in IF w.usec = Never THEN {0} ELSE Elapses :
             SwitchAway(Block(Elapse(tc, e), cur, o, w.usec, "object"))
      BY <1>10 DEF Parks
    <3>2. e \in Nat
      BY <3>1, ElapsesNat
    <3> QED
      BY <3>1, <3>2 DEF SwitchAway
  <2>4. /\ Elapse(tc, e) \in [Slots -> TCB] /\ Holds({p}, tcb, Elapse(tc, e))
        /\ Runs(Elapse(tc, e), cur)
    BY <2>1, <2>2, ElapseMilder, ElapseHolds, MilderRuns, HoldsTrans, Zenon DEF Milder
  <2>5. \A u \in Slots \ {cur} : tcb'[u] = Elapse(tc, e)[u]
    BY <2>1, <2>3, <2>4, SMT DEF Block
  <2> QED
    BY <1>9, <1>10, <2>4, <2>5
<1>11. ASSUME NEW o \in OtherObjs, o # p, InGuest, Preempt(Woken(tcb, o)) PROVE FALSE
  <2>1. /\ Wake(tcb, o) \in [Slots -> TCB] /\ Holds({p}, tcb, Wake(tcb, o))
        /\ Milder(tcb, Wake(tcb, o))
    <3>1. Milder(tcb, Wake(tcb, o)) /\ o \notin {p}
      BY <1>1, <1>11, WakeMilder
    <3>2. Wake(tcb, o) \in [Slots -> TCB]
      BY <3>1 DEF Milder
    <3> QED
      BY <1>1, <3>1, <3>2, WakeHolds
  <2>2. Runs(Wake(tcb, o), cur)
    BY <1>1, <1>11, <2>1, RunningFacts, MilderRuns, Zenon DEF RunnerRuns, InGuest
  <2> QED
    BY <1>6, <1>11, <2>1, <2>2, PreemptHolds, HoldsTrans, Zenon DEF Woken
<1>12. ASSUME SyncCall PROVE FALSE
  <2>1. ASSUME NEW o, NEW v, Create(o, v) \/ Delete(o) \/ Lower(o, v) PROVE FALSE
    BY <1>7, <2>1 DEF Create, Delete, Lower, CallReturns
  <2>2. ASSUME NEW o \in Semas, NEW n \in 1 .. MaxCount, SignalSema(o, n) PROVE FALSE
    <3>1. o # p
      BY <2>2, Zenon DEF p
    <3> QED
      BY <1>4, <1>11, <2>2, <3>1 DEF SignalSema, Signal
  <2>3. ASSUME NEW o \in Flags, NEW bits \in SUBSET Bits, SetEventFlag(o, bits) PROVE FALSE
    <3>1. o # p
      BY <1>3, <2>3, Zenon DEF p
    <3> QED
      BY <1>3, <1>11, <2>3, <3>1 DEF SetEventFlag, Signal
  <2>4. ASSUME NEW o \in OtherObjs, NEW w \in Wants(o), Wait(o, w) PROVE FALSE
    <3>1. cur # Scheduling
      BY <2>4 DEF Wait, InGuest
    <3>2. CASE Parks(tcb, 0, o, w)
      BY <1>10, <3>1, <3>2
    <3>3. CASE CallReturns(tcb)
      BY <1>7, <3>3 DEF CallReturns
    <3> QED
      BY <2>4, <3>2, <3>3 DEF Wait
  <2> QED
    BY <1>12, <2>1, <2>2, <2>3, <2>4, Zenon DEF SyncCall, PollSema, ClearEventFlag
<1>13. ASSUME ResumeWait PROVE FALSE
  <2>1. cur # Scheduling /\ cur \in Slots /\ Runs(tcb, cur)
    BY <1>1, <1>13, RunningFacts, Zenon DEF RunnerRuns, ResumeWait, InWait
  <2>2. PICK d \in Nat : ResumeAfter(d)
    <3>1. PICK d \in IF want[cur].usec = Never THEN {0} ELSE Elapses : ResumeAfter(d)
      BY <1>13 DEF ResumeWait
    <3> QED
      BY <3>1, ElapsesNat
  <2>3. CASE Leaves(Elapse(tcb, d))
    <3>1. /\ Elapse(tcb, d) \in [Slots -> TCB] /\ Holds({p}, tcb, Elapse(tcb, d))
          /\ Runs(Elapse(tcb, d), cur)
      BY <1>1, <2>1, ElapseMilder, ElapseHolds, MilderRuns, Zenon DEF Milder
    <3>2. \A u \in Slots \ {cur} : tcb'[u] = Elapse(tcb, d)[u]
      BY <2>1, <2>3, <3>1, SMT DEF Leaves, CallReturns
    <3> QED
      BY <1>9, <2>1, <3>1, <3>2
  <2>4. ASSUME NEW o, NEW w, Parks(Elapse(tcb, d), d, o, w) PROVE FALSE
    BY <1>10, <2>1, <2>4
  <2> QED
    BY <2>2, <2>3, <2>4, Zenon DEF ResumeAfter
<1>14. CASE UNCHANGED <<vars, syncVars>>
  BY <1>7, <1>14 DEF vars
<1> QED
  BY <1>8, <1>12, <1>13, <1>14 DEF SyncNext

(* A wait is left early for a cause: before its deadline a parked thread   *)
(* is made ready only by a signal of the object it waits for, or by a      *)
(* sceKernelStartThread aimed at it.                                       *)
THEOREM WaitsRunTheirTime == SyncSpec => WaitNotCutShort
<1>1. SyncInv /\ [SyncNext]_<<vars, syncVars>>
      => [\A t \in Allocated :
            /\ Parked(t) /\ tcb[t].wake # 0
            /\ tcb'[t].state = "READY"
            => \/ StartThread(t)
               \/ LET o == tcb[t].wait_obj
                  IN IF o \in Semas THEN \E n \in 1 .. MaxCount : SignalSema(o, n)
                                    ELSE \E b \in SUBSET Bits : SetEventFlag(o, b)]_<<vars, syncVars>>
  BY LeftForACause, Zenon
<1> QED
  BY <1>1, SyncInvariance, PTL DEF SyncSpec, WaitNotCutShort
=============================================================================
