--------------------------- MODULE MonitorProofs ---------------------------
(***************************************************************************)
(* The semaphores and event flags implement Monitor, for every number of   *)
(* threads and objects: blocking, waking, testing again and blocking again *)
(* do not show.  SyncProofs has that no step but a wait call starts a wait *)
(* for an object; here, that none ends one but the wait's own return and   *)
(* the termination of its thread.                                          *)
(***************************************************************************)
EXTENDS SyncProofs

(* The waits of tc for objects go on in tc2.                               *)
KeepsWaits(tc, tc2) == \A t \in Slots : InObjectWait(tc, t) => InObjectWait(tc2, t)

(* All but one, whose thread has ended.                                    *)
EndsOne(tc, tc2) ==
    \E u \in Slots : \A t \in Slots :
        InObjectWait(tc, t) => \/ InObjectWait(tc2, t)
                               \/ t = u /\ tc2[t].state = "DORMANT"

-----------------------------------------------------------------------------
(* Operations on the thread table.                                         *)
LEMMA KeepsTrans ==
    ASSUME NEW tc, NEW tc2, NEW tc3, KeepsWaits(tc, tc2), KeepsWaits(tc2, tc3)
    PROVE  KeepsWaits(tc, tc3)
BY DEF KeepsWaits

LEMMA KeepsEndsOne ==
    ASSUME NEW tc, NEW tc2, KeepsWaits(tc, tc2)
    PROVE  EndsOne(tc, tc2)
<1>1. 0 \in Slots
  BY TableAssumption, SMT DEF Slots
<1> QED
  BY <1>1 DEF KeepsWaits, EndsOne

LEMMA MilderKeeps ==
    ASSUME NEW tc, NEW tc2, Milder(tc, tc2)
    PROVE  KeepsWaits(tc, tc2)
BY SMT DEF KeepsWaits, InObjectWait, Milder, Waits

(* A step of a thread that is in no object's wait.                         *)
LEMMA OwnKeeps ==
    ASSUME NEW tc, NEW tc2, NEW u \in Slots, tc[u].call # "object",
           \A t \in Slots \ {u} : tc2[t] = tc[t]
    PROVE  KeepsWaits(tc, tc2)
BY Zenon DEF KeepsWaits, InObjectWait

LEMMA WakeupKeeps ==
    ASSUME NEW tc \in [Slots -> TCB], NEW u \in Slots
    PROVE  KeepsWaits(tc, Wakeup(tc, u))
BY SMT DEF KeepsWaits, InObjectWait, Wakeup, TCB

LEMMA StartKeeps ==
    ASSUME NEW tc \in [Slots -> TCB], NEW u \in Slots
    PROVE  KeepsWaits(tc, Start(tc, u))
BY SMT DEF KeepsWaits, InObjectWait, Start, TCB

LEMMA BlockKeeps ==
    ASSUME NEW tc \in [Slots -> TCB], NEW u \in Slots, NEW obj, NEW left, NEW call,
           tc[u].call # "object"
    PROVE  KeepsWaits(tc, Block(tc, u, obj, left, call))
<1>1. \A t \in Slots \ {u} : Block(tc, u, obj, left, call)[t] = tc[t]
  BY DEF Block
<1> QED
  BY <1>1, OwnKeeps

LEMMA ExitKeeps ==
    ASSUME NEW tc \in [Slots -> TCB], NEW u \in Slots, tc[u].call # "object"
    PROVE  KeepsWaits(tc, Exit(tc, u))
BY SMT DEF KeepsWaits, InObjectWait, Exit, Wake, TCB

LEMMA TerminateEndsOne ==
    ASSUME NEW tc \in [Slots -> TCB], NEW u \in Slots
    PROVE  EndsOne(tc, Terminate(tc, u))
<1>1. \A t \in Slots :
         InObjectWait(tc, t) => \/ InObjectWait(Terminate(tc, u), t)
                                \/ t = u /\ Terminate(tc, u)[t].state = "DORMANT"
  BY SMT DEF InObjectWait, Terminate, Wake, TCB
<1> QED
  BY <1>1 DEF EndsOne

LEMMA DeliveredKeeps ==
    ASSUME NEW tc, NEW c, Good(tc, ntcb, c), ntcb \in 1 .. MAXTHREADS, NEW tc2 \in Delivered(tc)
    PROVE  KeepsWaits(tc, tc2)
<1> DEFINE woken == Wake(Latch(tc), VBLANK)
<1>1. /\ Milder(tc, Latch(tc)) /\ Milder(Latch(tc), woken)
      /\ woken \in [Slots -> TCB]
  BY LatchMilder, WakeMilder, MilderGood, GoodIsTable
<1>2. KeepsWaits(tc, woken)
  BY <1>1, MilderTrans, MilderKeeps
<1> HIDE DEF woken
<1>3. \/ tc2 = woken
      \/ \E u \in Allocated : BankHasRoom(woken, u) /\ tc2 = Wakeup(woken, u)
  BY Zenon DEF Delivered, woken
<1> QED
  BY <1>1, <1>2, <1>3, AllocatedSlots, WakeupKeeps, KeepsTrans

LEMMA ResumedKeeps ==
    ASSUME NEW tc \in [Slots -> TCB], NEW t \in Slots
    PROVE  KeepsWaits(tc, Resumed(tc, t))
BY SMT DEF KeepsWaits, InObjectWait, Resumed, CallOver, TCB

LEMMA PreemptKeeps ==
    ASSUME NEW tc \in [Slots -> TCB], cur \in Slots, tc[cur].call # "object",
           KeepsWaits(tcb, tc), Preempt(tc)
    PROVE  KeepsWaits(tcb, tcb')
<1>1. CASE tcb' = tc
  BY <1>1
<1>2. CASE tcb' = [tc EXCEPT ![cur].state = "READY", ![cur].saved = TRUE]
  <2>1. \A t \in Slots \ {cur} : tcb'[t] = tc[t]
    BY <1>2
  <2>2. KeepsWaits(tc, tcb')
    BY <2>1, OwnKeeps
  <2> QED
    BY <2>2, KeepsTrans
<1> QED
  BY <1>1, <1>2, Zenon DEF Preempt

-----------------------------------------------------------------------------
(* The scheduler's steps.                                                  *)
LEMMA GuestCallEndsOne ==
    ASSUME IInv, InGuest, NEW u \in Allocated
    PROVE  /\ StartThread(u) => EndsOne(tcb, tcb')
           /\ TerminateThread(u) => EndsOne(tcb, tcb')
           /\ WakeupThread(u) => EndsOne(tcb, tcb')
           /\ CancelWakeup(u) => EndsOne(tcb, tcb')
           /\ WaitThreadEnd(u) => EndsOne(tcb, tcb')
           /\ \A p \in Prios : SetPriority(u, p) => EndsOne(tcb, tcb')
<1>1. /\ tcb \in [Slots -> TCB] /\ cur \in Slots /\ u \in Slots /\ u \in 0 .. ntcb - 1
      /\ tcb[cur].call = "guest" /\ tcb[cur].call # "object" /\ Good(tcb, ntcb, cur)
  BY GuestFacts, Zenon
<1>2. ASSUME StartThread(u) PROVE EndsOne(tcb, tcb')
  <2>1. Start(tcb, u) \in [Slots -> TCB]
    BY <1>1, StartGood, GoodIsTable
  <2>2. Start(tcb, u)[cur].call # "object"
    BY <1>1, <2>1, SMT DEF Start, TCB
  <2> QED
    BY <1>1, <1>2, <2>1, <2>2, StartKeeps, PreemptKeeps, KeepsEndsOne DEF StartThread
<1>3. ASSUME TerminateThread(u) PROVE EndsOne(tcb, tcb')
  BY <1>1, <1>3, ExitKeeps, KeepsEndsOne, TerminateEndsOne, Zenon
     DEF TerminateThread, SwitchAway, CallReturns
<1>4. ASSUME WakeupThread(u) PROVE EndsOne(tcb, tcb')
  <2>1. BankHasRoom(tcb, u) /\ Preempt(Wakeup(tcb, u))
    BY <1>4 DEF WakeupThread
  <2>2. Wakeup(tcb, u) \in [Slots -> TCB]
    BY <1>1, <2>1, WakeupGood, GoodIsTable
  <2>3. Wakeup(tcb, u)[cur].call # "object"
    BY <1>1, <2>2, SMT DEF Wakeup, TCB
  <2> QED
    BY <1>1, <2>1, <2>2, <2>3, WakeupKeeps, PreemptKeeps, KeepsEndsOne
<1>5. ASSUME CancelWakeup(u) PROVE EndsOne(tcb, tcb')
  <2>1. tcb' = [tcb EXCEPT ![u].wakeups = 0]
    BY <1>5 DEF CancelWakeup, CallReturns
  <2>2. KeepsWaits(tcb, tcb')
    BY <1>1, <2>1, SMT DEF KeepsWaits, InObjectWait, TCB
  <2> QED
    BY <2>2, KeepsEndsOne
<1>6. ASSUME WaitThreadEnd(u) PROVE EndsOne(tcb, tcb')
  <2>1. tcb' = Block(tcb, cur, u, Never, "waitEnd")
    BY <1>6 DEF WaitThreadEnd, SwitchAway
  <2> QED
    BY <1>1, <2>1, BlockKeeps, KeepsEndsOne
<1>7. ASSUME NEW p \in Prios, SetPriority(u, p) PROVE EndsOne(tcb, tcb')
  <2>1. tcb' = [tcb EXCEPT ![u].priority = p]
    BY <1>7 DEF SetPriority, CallReturns
  <2> QED
    BY <1>1, <2>1, PriorityMilder, MilderKeeps, KeepsEndsOne
<1> QED
  BY <1>2, <1>3, <1>4, <1>5, <1>6, <1>7

LEMMA OwnCallKeeps ==
    ASSUME IInv, InGuest
    PROVE  /\ \A p \in Prios : CreateThread(p) => KeepsWaits(tcb, tcb')
           /\ \A usec \in Delays : DelayThread(usec) => KeepsWaits(tcb, tcb')
           /\ ExitThread => KeepsWaits(tcb, tcb')
           /\ BodyReturns => KeepsWaits(tcb, tcb')
           /\ SleepThread => KeepsWaits(tcb, tcb')
           /\ WaitVblank => KeepsWaits(tcb, tcb')
           /\ \A d \in Elapses : YieldAfter(d) => KeepsWaits(tcb, tcb')
<1>1. /\ tcb \in [Slots -> TCB] /\ cur \in Slots /\ tcb[cur] \in TCB
      /\ tcb[cur].call # "object" /\ Good(tcb, ntcb, cur) /\ ntcb \in 1 .. MAXTHREADS
  BY GuestFacts, Zenon DEF IInv
<1>2. ASSUME NEW p \in Prios, CreateThread(p) PROVE KeepsWaits(tcb, tcb')
  <2>1. tcb' = [tcb EXCEPT ![ntcb] = [Fresh EXCEPT !.priority = p, !.fresh = tcb[ntcb].fresh]]
    BY <1>2 DEF CreateThread
  <2>2. ntcb \in Slots
    BY <1>1, <1>2, TableAssumption, SMT DEF CreateThread, Slots
  <2>3. tcb[ntcb].call # "object"
    BY <1>1, <2>2, SMT DEF Good
  <2>4. \A t \in Slots \ {ntcb} : tcb'[t] = tcb[t]
    BY <1>1, <2>1
  <2> QED
    BY <2>2, <2>3, <2>4, OwnKeeps
<1>3. ASSUME NEW usec \in Delays, DelayThread(usec) PROVE KeepsWaits(tcb, tcb')
  <2>1. PICK d \in Elapses :
           tcb' = [Elapse(tcb, d) EXCEPT ![cur] =
                     [@ EXCEPT !.state = "WAIT_DELAY", !.wake = usec, !.saved = TRUE]]
    BY <1>3 DEF DelayThread, SwitchAway
  <2> DEFINE tc == Elapse(tcb, d)
  <2>2. Milder(tcb, tc) /\ KeepsWaits(tcb, tc)
    BY <1>1, ElapsesNat, ElapseMilder, MilderKeeps
  <2>3. tc[cur].call # "object" /\ tc \in [Slots -> TCB]
    BY <1>1, <2>2, Zenon DEF Milder
  <2> HIDE DEF tc
  <2>4. \A t \in Slots \ {cur} : tcb'[t] = tc[t]
    BY <2>1, <2>3 DEF tc
  <2>5. KeepsWaits(tc, tcb')
    BY <1>1, <2>3, <2>4, OwnKeeps
  <2> QED
    BY <2>2, <2>5, KeepsTrans
<1>4. ASSUME ExitThread PROVE KeepsWaits(tcb, tcb')
  BY <1>1, <1>4, ExitKeeps DEF ExitThread, SwitchAway
<1>5. ASSUME BodyReturns \/ SleepThread \/ WaitVblank PROVE KeepsWaits(tcb, tcb')
  <2>1. \/ tcb' = [tcb EXCEPT ![cur].state = "DORMANT", ![cur].call = "returned"]
        \/ tcb' = [tcb EXCEPT ![cur].wakeups = @ - 1]
        \/ tcb' = [Block(tcb, cur, cur, Never, "sleep") EXCEPT ![cur].sleeping = TRUE]
        \/ tcb' = [tcb EXCEPT ![cur].fresh = FALSE]
        \/ tcb' = Block(tcb, cur, VBLANK, Never, "vblank")
    BY <1>5, Zenon DEF BodyReturns, SleepThread, WaitVblank, SwitchAway, CallReturns
  <2>2. \A t \in Slots \ {cur} : tcb'[t] = tcb[t]
    BY <1>1, <2>1, SMT DEF Block
  <2> QED
    BY <1>1, <2>2, OwnKeeps
<1>6. ASSUME NEW d \in Elapses, YieldAfter(d) PROVE KeepsWaits(tcb, tcb')
  <2> DEFINE passed == Elapse(tcb, d)
             parked(tc) == [tc EXCEPT ![cur].saved = TRUE,
                                      ![cur].state = IF @ = "RUNNING" THEN "READY" ELSE @]
  <2>1. Milder(tcb, passed) /\ passed \in [Slots -> TCB] /\ Good(passed, ntcb, cur)
    BY <1>1, ElapsesNat, ElapseMilder, MilderGood DEF Milder
  <2>2. passed[cur].call # "object" /\ KeepsWaits(tcb, passed)
    <3>1. passed[cur].call # "object"
      BY <1>1, <2>1, Zenon DEF Milder
    <3> QED
      BY <2>1, <3>1, MilderKeeps
  <2>3. PICK tc \in Delivered(passed) \cup {passed} : tcb' = tc \/ tcb' = parked(tc)
    BY <1>6, Zenon DEF YieldAfter, SwitchAway, CallReturns
  <2> HIDE DEF passed
  <2>4. KeepsWaits(tcb, tc) /\ tc \in [Slots -> TCB] /\ tc[cur].call # "object"
    <3>1. CASE tc \in Delivered(passed)
      <4>1. Good(tc, ntcb, cur) /\ \A t \in Slots : tc[t].call = passed[t].call
        BY <1>1, <2>1, <3>1, DeliveredGood
      <4>2. KeepsWaits(passed, tc)
        BY <1>1, <2>1, <3>1, DeliveredKeeps
      <4> QED
        BY <1>1, <2>2, <4>1, <4>2, KeepsTrans, GoodIsTable
    <3>2. CASE tc = passed
      BY <2>1, <2>2, <3>2
    <3> QED
      BY <2>3, <3>1, <3>2
  <2>5. \A t \in Slots \ {cur} : parked(tc)[t] = tc[t]
    BY <2>4
  <2>6. KeepsWaits(tc, parked(tc))
    BY <1>1, <2>4, <2>5, OwnKeeps
  <2> HIDE DEF parked
  <2> QED
    BY <2>3, <2>4, <2>6, KeepsTrans
<1> QED
  BY <1>2, <1>3, <1>4, <1>5, <1>6, Zenon

LEMMA LoopKeeps ==
    ASSUME IInv, SchedulerStep
    PROVE  KeepsWaits(tcb, tcb')
<1>1. tcb \in [Slots -> TCB] /\ Good(tcb, ntcb, cur) /\ ntcb \in 1 .. MAXTHREADS
  BY GoodIsTable DEF IInv
<1>2. CASE Dispatch
  <2>1. PICK t \in Slots : tcb' = Resumed(Expire(tcb), t)
    BY <1>2 DEF Dispatch
  <2>2. KeepsWaits(tcb, Expire(tcb)) /\ Expire(tcb) \in [Slots -> TCB]
    BY <1>1, ExpireMilder, MilderKeeps DEF Milder
  <2> QED
    BY <2>1, <2>2, ResumedKeeps, KeepsTrans
<1>3. CASE IdleSleep
  <2>1. PICK d \in Elapses, over \in Elapses, left \in 1 .. Period : tcb' = Elapse(tcb, d + left + over)
    BY <1>3 DEF IdleSleep
  <2>2. d + left + over \in Nat
    BY ElapsesNat, TimeAssumption, SMT
  <2> QED
    BY <1>1, <2>1, <2>2, ElapseMilder, MilderKeeps
<1>4. CASE IdleVblank
  <2>1. PICK d \in Elapses, over \in Elapses :
           \E tc2 \in Delivered(Elapse(Elapse(tcb, d), FrameWait(DueAfter(d)) + over)) : AfterIdleVblank(tc2)
    BY <1>4, Zenon DEF IdleVblank
  <2> DEFINE wait == FrameWait(DueAfter(d)) + over
             tc == Elapse(Elapse(tcb, d), wait)
  <2>2. wait \in Nat /\ d \in Nat
    BY ElapsesNat, TimeAssumption, DueAfterInRange, SMT DEF FrameWait, IInv
  <2> HIDE DEF wait
  <2>3. Milder(tcb, Elapse(tcb, d)) /\ Elapse(tcb, d) \in [Slots -> TCB] /\ Good(Elapse(tcb, d), ntcb, cur)
    BY <1>1, <2>2, ElapseMilder, MilderGood, GoodIsTable
  <2>4. Milder(Elapse(tcb, d), tc) /\ Good(tc, ntcb, cur) /\ KeepsWaits(tcb, tc)
    BY <2>2, <2>3, ElapseMilder, MilderGood, MilderTrans, MilderKeeps
  <2>5. PICK tc2 \in Delivered(tc) : AfterIdleVblank(tc2)
    BY <2>1 DEF wait
  <2> HIDE DEF tc
  <2>6. Good(tc2, ntcb, cur) /\ tc2 \in [Slots -> TCB] /\ KeepsWaits(tcb, tc2)
    BY <1>1, <2>4, <2>5, DeliveredGood, GoodIsTable, DeliveredKeeps, KeepsTrans
  <2>7. \/ tcb' = tc2
        \/ \E t \in Allocated : IsSoonest(tc2, tc2[t].wake) /\ tcb' = Elapse(tc2, tc2[t].wake)
    BY <2>5, Zenon DEF AfterIdleVblank
  <2>8. ASSUME NEW t \in Allocated, IsSoonest(tc2, tc2[t].wake), tcb' = Elapse(tc2, tc2[t].wake)
        PROVE  KeepsWaits(tcb, tcb')
    <3>1. tc2[t].wake \in Nat
      BY <1>1, <2>6, <2>8, AllocatedSlots, SMT DEF IsSoonest, TCB, Never
    <3> QED
      BY <2>6, <2>8, <3>1, ElapseMilder, MilderKeeps, KeepsTrans
  <2> QED
    BY <2>6, <2>7, <2>8
<1> QED
  BY <1>2, <1>3, <1>4 DEF SchedulerStep

LEMMA NextEndsOne ==
    ASSUME IInv, [Next]_vars
    PROVE  EndsOne(tcb, tcb')
<1>1. CASE tcb' = tcb
  <2>1. KeepsWaits(tcb, tcb')
    BY <1>1 DEF KeepsWaits
  <2> QED
    BY <2>1, KeepsEndsOne
<1>2. CASE ThreadCall
  <2>1. CASE \E on \in BOOLEAN : SetHandler(on)
    BY <1>1, <2>1 DEF SetHandler
  <2>2. InGuest
    BY <1>2 DEF ThreadCall, CreateThread, StartThread, TerminateThread, WakeupThread, CancelWakeup,
                WaitThreadEnd, SetPriority, DelayThread, ExitThread, BodyReturns, SleepThread,
                WaitVblank, SetHandler, Yield, YieldAfter
  <2> QED
    BY <1>2, <2>1, <2>2, GuestCallEndsOne, OwnCallKeeps, KeepsEndsOne, Zenon DEF ThreadCall, Yield
<1>3. CASE ResumeWaitEnd
  <2>1. tcb \in [Slots -> TCB] /\ cur \in Slots /\ tcb[cur].call # "object"
    BY <1>3, RunningFacts DEF ResumeWaitEnd
  <2>2. \/ tcb' = [tcb EXCEPT ![cur].call = "guest", ![cur].wake = 0, ![cur].wait_obj = NoObj]
        \/ \E u : tcb' = Block(tcb, cur, u, Never, "waitEnd")
    BY <1>3, Zenon DEF ResumeWaitEnd, SwitchAway, CallReturns
  <2>3. CASE tcb' = [tcb EXCEPT ![cur].call = "guest", ![cur].wake = 0, ![cur].wait_obj = NoObj]
    <3>1. \A t \in Slots \ {cur} : tcb'[t] = tcb[t]
      BY <2>1, <2>3, SMT
    <3>2. KeepsWaits(tcb, tcb')
      BY <2>1, <3>1, OwnKeeps
    <3> QED
      BY <3>2, KeepsEndsOne
  <2> QED
    BY <2>1, <2>2, <2>3, BlockKeeps, KeepsEndsOne
<1> QED
  BY <1>1, <1>2, <1>3, LoopKeeps, KeepsEndsOne, Zenon DEF Next, Finished, vars

-----------------------------------------------------------------------------
(* The refinement.                                                         *)
(* What the monitor sees of the threads.                                   *)
WaitingMap == [t \in Slots |-> WaitingFor(t)]

(* A thread waits in the monitor when it is inside a wait for an object.   *)
LEMMA WaitingIs ==
    ASSUME SyncInv, NEW t \in Slots
    PROVE  /\ InObjectWait(tcb, t) =>
                 /\ WaitingFor(t) = [obj |-> tcb[t].wait_obj, want |-> want[t]]
                 /\ WaitingFor(t) # [obj |-> NoObj]
           /\ ~InObjectWait(tcb, t) => WaitingFor(t) = [obj |-> NoObj]
<1>1. ASSUME InObjectWait(tcb, t)
      PROVE  /\ WaitingFor(t) = [obj |-> tcb[t].wait_obj, want |-> want[t]]
             /\ WaitingFor(t) # [obj |-> NoObj]
  <2>1. WaitingFor(t) = [obj |-> tcb[t].wait_obj, want |-> want[t]]
    BY <1>1 DEF WaitingFor, InObjectWait
  <2>2. tcb[t].wait_obj # NoObj
    BY <1>1, SyncAssumption DEF SyncInv, WaitsForKnown
  <2>3. WaitingFor(t).obj # [obj |-> NoObj].obj
    BY <2>1, <2>2
  <2> QED
    BY <2>1, <2>3
<1>2. ASSUME ~InObjectWait(tcb, t) PROVE WaitingFor(t) = [obj |-> NoObj]
  BY <1>2 DEF WaitingFor, InObjectWait
<1> QED
  BY <1>1, <1>2

(* The two ways of writing that an object satisfies a wait, and what is    *)
(* left of it.                                                             *)
LEMMA EnoughIsSatisfied ==
    ASSUME NEW o \in OtherObjs, NEW w \in Wants(o), Values
    PROVE  /\ AbstractObjects!Enough(o, w) <=> Satisfied(o, w)
           /\ AbstractObjects!Remainder(o, w) = Taken(o, w)
<1>1. CASE o \in Semas
  BY <1>1 DEF AbstractObjects!Enough, AbstractObjects!Remainder, Satisfied, Taken
<1>2. CASE o \notin Semas
  <2>1. AbstractObjects!Enough(o, w) <=> Satisfied(o, w)
    BY <1>2, SMT DEF AbstractObjects!Enough, Satisfied
  <2>2. {b \in val[o] : b \notin w.bits} = val[o] \ w.bits
    BY SMT
  <2>3. AbstractObjects!Remainder(o, w) = Taken(o, w)
    BY <1>2, <2>2 DEF AbstractObjects!Remainder, Taken
  <2> QED
    BY <2>1, <2>3
<1> QED
  BY <1>1, <1>2

LEMMA SameWaiting ==
    ASSUME NEW t \in Slots, InObjectWait(tcb, t) <=> InObjectWait(tcb', t),
           InObjectWait(tcb, t) => tcb'[t].wait_obj = tcb[t].wait_obj /\ want'[t] = want[t]
    PROVE  WaitingFor(t)' = WaitingFor(t)
<1>1. CASE InObjectWait(tcb, t)
  BY <1>1, Zenon DEF WaitingFor, InObjectWait
<1>2. CASE ~InObjectWait(tcb, t)
  BY <1>2, Zenon DEF WaitingFor, InObjectWait
<1> QED
  BY <1>1, <1>2

(* A step during which all waits go on.                                    *)
LEMMA WaitsStand ==
    ASSUME NoNewWait(tcb, tcb'), KeepsWaits(tcb, tcb'), want' = want
    PROVE  WaitingMap' = WaitingMap
<1>1. \A t \in Slots : WaitingFor(t)' = WaitingFor(t)
  BY SameWaiting, Zenon DEF NoNewWait, KeepsWaits
<1> QED
  BY <1>1, Zenon DEF WaitingMap

(* A step during which the wait of one thread changes.                     *)
LEMMA OneChanges ==
    ASSUME NEW u \in Slots, \A t \in Slots \ {u} : WaitingFor(t)' = WaitingFor(t)
    PROVE  WaitingMap' = [WaitingMap EXCEPT ![u] = WaitingFor(u)']
BY DEF WaitingMap

-----------------------------------------------------------------------------
(* The calls that do not wait.                                             *)
LEMMA CreateMakes ==
    ASSUME NEW o \in OtherObjs, NEW v \in AbstractObjects!Values(o), Create(o, v)
    PROVE  AbstractObjects!Make(o)
<1>1. WaitingMap' = WaitingMap
  BY Zenon DEF Create, CallReturns, WaitingMap, WaitingFor
<1> QED
  BY <1>1, Zenon DEF Create, Update, WaitingMap, AbstractObjects!Make, Cardinality, AbstractObjects!Cardinality

LEMMA DeleteRemoves ==
    ASSUME NEW o \in OtherObjs, Delete(o)
    PROVE  AbstractObjects!Remove(o)
<1>1. WaitingMap' = WaitingMap
  BY Zenon DEF Delete, CallReturns, WaitingMap, WaitingFor
<1> QED
  BY <1>1, Zenon DEF Delete, WaitingMap, AbstractObjects!Remove

LEMMA LowerChanges ==
    ASSUME NEW o \in OtherObjs, NEW v \in AbstractObjects!Values(o), Lower(o, v)
    PROVE  AbstractObjects!Change(o)
<1>1. WaitingMap' = WaitingMap
  BY Zenon DEF Lower, CallReturns, WaitingMap, WaitingFor
<1> QED
  BY <1>1, Zenon DEF Lower, Update, WaitingMap, AbstractObjects!Change

LEMMA SignalChanges ==
    ASSUME SyncInv, NEW o \in OtherObjs, NEW v \in AbstractObjects!Values(o), Signal(o, v)
    PROVE  AbstractObjects!Change(o)
<1> DEFINE woken == Wake(tcb, o)
<1>1. /\ InGuest /\ o \in live /\ Update(o, v) /\ Preempt(woken)
      /\ UNCHANGED <<unborn, live, want>>
  BY DEF Signal, Woken
<1>2. tcb \in [Slots -> TCB] /\ cur \in Slots /\ tcb[cur].call = "guest"
  BY <1>1, GuestFacts DEF SyncInv
<1>3. Milder(tcb, woken)
  BY <1>2, WakeMilder
<1>4. /\ woken \in [Slots -> TCB] /\ woken[cur].call = "guest" /\ woken[cur].call # "object"
  BY <1>2, <1>3, Zenon DEF Milder
<1>5. NoNewWait(tcb, woken) /\ KeepsWaits(tcb, woken)
  BY <1>3, MilderNoNewWait, MilderKeeps
<1> HIDE DEF woken
<1>6. NoNewWait(tcb, tcb')
  BY <1>1, <1>2, <1>4, <1>5, PreemptNoNewWait
<1>7. KeepsWaits(tcb, tcb')
  BY <1>1, <1>2, <1>4, <1>5, PreemptKeeps
<1>8. WaitingMap' = WaitingMap
  BY <1>1, <1>6, <1>7, WaitsStand
<1> QED
  BY <1>1, <1>8, Zenon DEF Update, WaitingMap, AbstractObjects!Change

-----------------------------------------------------------------------------
(* The calls that wait.                                                    *)

(* The parking thread waits with its arguments; the others' waits stand.   *)
LEMMA ParksFacts ==
    ASSUME SyncInv, cur # Scheduling, NEW passed \in Nat,
           NEW tc, tc = tcb \/ tc = Elapse(tcb, passed),
           NEW o \in OtherObjs, NEW w, Parks(tc, passed, o, w),
           NEW u \in Slots, u = cur
    PROVE  /\ WaitingFor(u)' = [obj |-> o, want |-> w]
           /\ \A t \in Slots \ {u} : WaitingFor(t)' = WaitingFor(t)
<1>1. tcb \in [Slots -> TCB] /\ cur \in Slots
  BY RunningFacts DEF SyncInv
<1>2. PICK d \in IF w.usec = Never THEN {0} ELSE Elapses :
         SwitchAway(Block(Elapse(tc, d), cur, o, w.usec, "object"))
  BY DEF Parks
<1>3. d \in Nat
  BY <1>2, ElapsesNat
<1>4. want' = [want EXCEPT ![cur] = w]
  BY DEF Parks
<1>5. tc \in [Slots -> TCB] /\ NoNewWait(tcb, tc) /\ KeepsWaits(tcb, tc)
  <2>1. CASE tc = tcb
    BY <1>1, <2>1, SameNoNewWait DEF KeepsWaits
  <2>2. CASE tc = Elapse(tcb, passed)
    <3>1. Milder(tcb, tc)
      BY <1>1, <2>2, ElapseMilder
    <3> QED
      BY <3>1, MilderNoNewWait, MilderKeeps DEF Milder
  <2> QED
    BY <2>1, <2>2
<1> DEFINE tc2 == Elapse(tc, d)
<1>6. Milder(tc, tc2)
  BY <1>3, <1>5, ElapseMilder
<1>7. tc2 \in [Slots -> TCB] /\ NoNewWait(tc, tc2) /\ KeepsWaits(tc, tc2)
  BY <1>6, MilderNoNewWait, MilderKeeps DEF Milder
<1> HIDE DEF tc2
<1>8. NoNewWait(tcb, tc2) /\ KeepsWaits(tcb, tc2)
  BY <1>5, <1>7, NoNewWaitTrans, KeepsTrans
<1>9. tcb' = Block(tc2, cur, o, w.usec, "object")
  BY <1>2 DEF SwitchAway, tc2
<1>10. /\ tcb'[cur].call = "object" /\ tcb'[cur].state = "WAIT_OBJ" /\ tcb'[cur].wait_obj = o
       /\ \A t \in Slots \ {cur} : tcb'[t] = tc2[t]
  BY <1>1, <1>7, <1>9, SMT DEF Block, TCB
<1>11. want'[cur] = w /\ \A t \in Slots \ {cur} : want'[t] = want[t]
  BY <1>1, <1>4 DEF SyncInv
<1>12. WaitingFor(u)' = [obj |-> o, want |-> w]
  BY <1>10, <1>11, Zenon DEF WaitingFor
<1>13. ASSUME NEW t \in Slots, t # u PROVE WaitingFor(t)' = WaitingFor(t)
  <2>1. /\ InObjectWait(tcb, t) <=> InObjectWait(tcb', t)
        /\ InObjectWait(tcb, t) => tcb'[t].wait_obj = tcb[t].wait_obj /\ want'[t] = want[t]
    BY <1>8, <1>10, <1>11, <1>13, Zenon DEF NoNewWait, KeepsWaits, InObjectWait
  <2> QED
    BY <2>1, SameWaiting
<1> QED
  BY <1>1, <1>12, <1>13

(* The leaving thread waits no more; the others' waits stand.              *)
LEMMA LeavesFacts ==
    ASSUME SyncInv, InWait, NEW d \in Nat, Leaves(Elapse(tcb, d)),
           NEW u \in Slots, u = cur
    PROVE  /\ WaitingFor(u)' = [obj |-> NoObj]
           /\ \A t \in Slots \ {u} : WaitingFor(t)' = WaitingFor(t)
<1>1. tcb \in [Slots -> TCB] /\ cur \in Slots
  BY RunningFacts DEF SyncInv, InWait
<1> DEFINE tc == Elapse(tcb, d)
<1>2. Milder(tcb, tc)
  BY <1>1, ElapseMilder
<1>3. tc \in [Slots -> TCB] /\ NoNewWait(tcb, tc) /\ KeepsWaits(tcb, tc)
  BY <1>2, MilderNoNewWait, MilderKeeps DEF Milder
<1> HIDE DEF tc
<1>4. /\ tcb' = [tc EXCEPT ![cur] = [@ EXCEPT !.call = "guest", !.wake = 0, !.wait_obj = NoObj]]
      /\ want' = [want EXCEPT ![cur] = NoWant]
  BY DEF Leaves, CallReturns, tc
<1>5. tcb'[cur].call # "object" /\ \A t \in Slots \ {cur} : tcb'[t] = tc[t]
  BY <1>1, <1>3, <1>4, SMT DEF TCB
<1>6. \A t \in Slots \ {cur} : want'[t] = want[t]
  BY <1>1, <1>4 DEF SyncInv
<1>7. WaitingFor(u)' = [obj |-> NoObj]
  BY <1>5, Zenon DEF WaitingFor
<1>8. ASSUME NEW t \in Slots, t # u PROVE WaitingFor(t)' = WaitingFor(t)
  <2>1. /\ InObjectWait(tcb, t) <=> InObjectWait(tcb', t)
        /\ InObjectWait(tcb, t) => tcb'[t].wait_obj = tcb[t].wait_obj /\ want'[t] = want[t]
    BY <1>3, <1>5, <1>6, <1>8, Zenon DEF NoNewWait, KeepsWaits, InObjectWait
  <2> QED
    BY <2>1, SameWaiting
<1> QED
  BY <1>1, <1>7, <1>8

LEMMA TakenIsValue ==
    ASSUME Values, NEW o \in OtherObjs, NEW w \in Wants(o), Satisfied(o, w)
    PROVE  Taken(o, w) \in AbstractObjects!Values(o)
<1>1. CASE o \in Semas
  BY <1>1, TakenIs DEF AbstractObjects!Values
<1>2. CASE o \notin Semas
  <2>1. o \in Flags
    BY <1>2, SyncAssumption
  <2>2. Taken(o, w) \subseteq Bits
    BY <2>1, TakenIs DEF Values
  <2> QED
    BY <1>2, <2>2 DEF AbstractObjects!Values
<1> QED
  BY <1>1, <1>2

(* A wait that is satisfied at once changes the object, and another begins. *)
LEMMA WaitRefines ==
    ASSUME SyncInv, NEW o \in OtherObjs, NEW w \in Wants(o), Wait(o, w)
    PROVE  \/ AbstractObjects!Change(o)
           \/ o \in live /\ \E u \in Slots : AbstractObjects!Begin(u, o, w)
<1>1. InGuest /\ cur # Scheduling /\ o \in live /\ UNCHANGED <<unborn, live>>
  BY DEF Wait, InGuest
<1>2. CASE Satisfied(o, w)
  <2>1. Update(o, Taken(o, w)) /\ CallReturns(tcb) /\ want' = want
    BY <1>2, Zenon DEF Wait
  <2>2. WaitingMap' = WaitingMap
    BY <2>1, Zenon DEF CallReturns, WaitingMap, WaitingFor
  <2>3. Taken(o, w) \in AbstractObjects!Values(o)
    BY <1>2, TakenIsValue DEF SyncInv
  <2>4. AbstractObjects!Change(o)
    BY <1>1, <2>1, <2>2, <2>3, Zenon DEF Update, WaitingMap, AbstractObjects!Change
  <2> QED
    BY <2>4
<1>3. CASE ~Satisfied(o, w)
  <2>1. Parks(tcb, 0, o, w)
    BY <1>3, Zenon DEF Wait
  <2>2. PICK u \in Slots : u = cur
    BY <1>1, RunningFacts DEF SyncInv
  <2>3. WaitingMap' = [WaitingMap EXCEPT ![u] = [obj |-> o, want |-> w]]
    <3>1. /\ WaitingFor(u)' = [obj |-> o, want |-> w]
          /\ \A t \in Slots \ {u} : WaitingFor(t)' = WaitingFor(t)
      BY <1>1, <2>1, <2>2, ParksFacts
    <3>2. WaitingMap' = [WaitingMap EXCEPT ![u] = WaitingFor(u)']
      BY <3>1, OneChanges, Zenon
    <3> QED
      BY <3>1, <3>2
  <2>4. WaitingMap[u] = [obj |-> NoObj]
    BY <1>1, <2>2, WaitingIs DEF WaitingMap, InGuest, InObjectWait
  <2>5. ~AbstractObjects!Enough(o, w)
    BY <1>3, EnoughIsSatisfied DEF SyncInv
  <2>6. AbstractObjects!Begin(u, o, w)
    BY <1>1, <2>1, <2>3, <2>4, <2>5, Zenon
       DEF Parks, WaitingMap, AbstractObjects!Begin, AbstractObjects!NotWaiting
  <2> QED
    BY <1>1, <2>2, <2>6
<1> QED
  BY <1>2, <1>3

(* A resumed wait completes, gives up, or parks again, which does not show. *)
LEMMA ResumeRefines ==
    ASSUME SyncInv, ResumeWait
    PROVE  \/ \E t \in Slots : AbstractObjects!Complete(t) \/ AbstractObjects!Abandon(t)
           \/ UNCHANGED <<val, unborn, live, WaitingMap>>
<1> DEFINE o == tcb[cur].wait_obj
           w == want[cur]
<1>1. InWait /\ cur # Scheduling /\ UNCHANGED <<unborn, live>>
  BY DEF ResumeWait, InWait
<1>2. cur \in Slots /\ InObjectWait(tcb, cur)
  BY <1>1, RunningFacts, Zenon DEF SyncInv, RunnerRuns, Runs, InWait, InObjectWait
<1>3. PICK u \in Slots : u = cur
  BY <1>2
<1>4. o \in OtherObjs /\ w \in Wants(o)
  BY <1>2 DEF SyncInv, WaitsForKnown
<1>5. WaitingMap[u] = [obj |-> o, want |-> w] /\ WaitingMap[u] # [obj |-> NoObj]
  BY <1>2, <1>3, WaitingIs DEF WaitingMap
<1>6. WaitingMap[u].obj = o /\ WaitingMap[u].want = w
  BY <1>5
<1>7. PICK d \in Nat : ResumeAfter(d)
  BY ElapsesNat DEF ResumeWait
<1>8. ASSUME Leaves(Elapse(tcb, d))
      PROVE  WaitingMap' = [WaitingMap EXCEPT ![u] = [obj |-> NoObj]]
  <2>1. /\ WaitingFor(u)' = [obj |-> NoObj]
        /\ \A t \in Slots \ {u} : WaitingFor(t)' = WaitingFor(t)
    BY <1>1, <1>3, <1>8, LeavesFacts
  <2>2. WaitingMap' = [WaitingMap EXCEPT ![u] = WaitingFor(u)']
    BY <2>1, OneChanges, Zenon
  <2> QED
    BY <2>1, <2>2
<1>9. ASSUME w.usec # Never \/ o \notin live, Leaves(Elapse(tcb, d)), val' = val
      PROVE  AbstractObjects!Abandon(u)
  <2>1. WaitingMap' = [WaitingMap EXCEPT ![u] = [obj |-> NoObj]]
    BY <1>8, <1>9
  <2> HIDE DEF o, w
  <2> QED
    BY <1>1, <1>5, <1>6, <1>9, <2>1, Zenon
       DEF WaitingMap, AbstractObjects!Abandon, AbstractObjects!NotWaiting
<1>10. ASSUME o \in live, Satisfied(o, w), Leaves(Elapse(tcb, d)), Update(o, Taken(o, w))
       PROVE  AbstractObjects!Complete(u)
  <2>1. WaitingMap' = [WaitingMap EXCEPT ![u] = [obj |-> NoObj]]
    BY <1>8, <1>10
  <2>2. AbstractObjects!Enough(o, w) /\ AbstractObjects!Remainder(o, w) = Taken(o, w)
    BY <1>4, <1>10, EnoughIsSatisfied DEF SyncInv
  <2> HIDE DEF o, w
  <2> QED
    BY <1>1, <1>5, <1>6, <1>10, <2>1, <2>2, Zenon
       DEF Update, WaitingMap, AbstractObjects!Complete, AbstractObjects!NotWaiting
<1>11. ASSUME Parks(Elapse(tcb, d), d, o, w)
       PROVE  UNCHANGED <<val, unborn, live, WaitingMap>>
  <2>1. /\ WaitingFor(u)' = [obj |-> o, want |-> w]
        /\ \A t \in Slots \ {u} : WaitingFor(t)' = WaitingFor(t)
    BY <1>1, <1>3, <1>4, <1>11, ParksFacts
  <2>2. \A t \in Slots : WaitingFor(t)' = WaitingFor(t)
    BY <1>5, <2>1 DEF WaitingMap
  <2>3. WaitingMap' = WaitingMap
    BY <2>2, Zenon DEF WaitingMap
  <2> QED
    BY <1>1, <1>11, <2>3 DEF Parks
<1> HIDE DEF o, w
<1>12. \/ /\ w.usec # Never \/ o \notin live
          /\ Leaves(Elapse(tcb, d)) /\ val' = val
       \/ /\ o \in live /\ Satisfied(o, w)
          /\ Leaves(Elapse(tcb, d)) /\ Update(o, Taken(o, w))
       \/ Parks(Elapse(tcb, d), d, o, w)
  BY <1>7, Zenon DEF ResumeAfter, TimesOut, o, w
<1> QED
  BY <1>9, <1>10, <1>11, <1>12, Zenon

(* The scheduler's steps do not show, but for the end of a waiting thread. *)
LEMMA SchedulerRefines ==
    ASSUME SyncInv, [Next]_vars, UNCHANGED syncVars
    PROVE  \/ \E t \in Slots : AbstractObjects!Abandon(t)
           \/ UNCHANGED <<val, unborn, live, WaitingMap>>
<1>1. UNCHANGED <<val, unborn, live, want>>
  BY DEF syncVars
<1>2. NoNewWait(tcb, tcb') /\ EndsOne(tcb, tcb')
  BY NextNoNewWait, NextEndsOne DEF SyncInv
<1>3. CASE KeepsWaits(tcb, tcb')
  BY <1>1, <1>2, <1>3, WaitsStand
<1>4. CASE ~KeepsWaits(tcb, tcb')
  <2>1. PICK u \in Slots : \A t \in Slots :
           InObjectWait(tcb, t) => \/ InObjectWait(tcb', t)
                                   \/ t = u /\ tcb'[t].state = "DORMANT"
    BY <1>2 DEF EndsOne
  <2>2. InObjectWait(tcb, u) /\ ~InObjectWait(tcb', u) /\ tcb'[u].state = "DORMANT"
    BY <1>4, <2>1 DEF KeepsWaits
  <2>3. ASSUME NEW t \in Slots \ {u} PROVE WaitingFor(t)' = WaitingFor(t)
    <3>1. /\ InObjectWait(tcb, t) <=> InObjectWait(tcb', t)
          /\ InObjectWait(tcb, t) => tcb'[t].wait_obj = tcb[t].wait_obj /\ want'[t] = want[t]
      BY <1>1, <1>2, <2>1, Zenon DEF NoNewWait
    <3> QED
      BY <3>1, SameWaiting
  <2>4. WaitingFor(u)' = [obj |-> NoObj]
    BY <2>2, Zenon DEF WaitingFor, InObjectWait
  <2>5. WaitingMap' = [WaitingMap EXCEPT ![u] = [obj |-> NoObj]]
    <3>1. WaitingMap' = [WaitingMap EXCEPT ![u] = WaitingFor(u)']
      BY <2>3, OneChanges
    <3> QED
      BY <2>4, <3>1
  <2>6. WaitingMap[u] # [obj |-> NoObj]
    BY <2>2, WaitingIs DEF WaitingMap
  <2>7. u \in {t \in Slots : tcb'[t].state = "DORMANT"}
    BY <2>2
  <2>8. AbstractObjects!Abandon(u)
    BY <1>1, <2>5, <2>6, <2>7, Zenon
       DEF WaitingMap, AbstractObjects!Abandon, AbstractObjects!NotWaiting
  <2> QED
    BY <2>8
<1> QED
  BY <1>3, <1>4

-----------------------------------------------------------------------------
LEMMA InitRefines == SyncInit => AbstractObjects!MonitorInit
<1> SUFFICES ASSUME SyncInit PROVE AbstractObjects!MonitorInit
  OBVIOUS
<1>1. \A t \in Slots : tcb[t].call = "guest"
  BY SMT DEF SyncInit, Init, Fresh
<1>2. \A t \in Slots : WaitingFor(t) = [obj |-> NoObj]
  BY <1>1 DEF WaitingFor
<1>3. OtherObjs = Semas \cup Flags
  BY SyncAssumption
<1> QED
  BY <1>2, <1>3, Zenon DEF SyncInit, AbstractObjects!MonitorInit, AbstractObjects!NotWaiting

LEMMA CallRefines ==
    ASSUME SyncInv, SyncCall
    PROVE  AbstractObjects!MonitorNext
<1>1. /\ OtherObjs = Semas \cup Flags /\ \A o \in Flags : o \notin Semas
      /\ MaxCount \in Nat
  BY SyncAssumption
<1>2. /\ \A o \in Semas : AbstractObjects!Values(o) = 0 .. MaxCount
      /\ \A o \in Flags : AbstractObjects!Values(o) = SUBSET Bits
  BY <1>1 DEF AbstractObjects!Values
<1>3. \/ \E o \in OtherObjs : \E v \in AbstractObjects!Values(o) :
            Create(o, v) \/ Signal(o, v) \/ Lower(o, v)
      \/ \E o \in OtherObjs : Delete(o)
      \/ \E o \in OtherObjs : \E w \in Wants(o) : Wait(o, w)
  <2>1. ASSUME NEW o \in Semas, NEW n \in 0 .. MaxCount, Create(o, n)
        PROVE  o \in OtherObjs /\ n \in AbstractObjects!Values(o)
    BY <1>1, <1>2
  <2>2. ASSUME NEW o \in Semas, NEW n \in 1 .. MaxCount, SignalSema(o, n)
        PROVE  /\ o \in OtherObjs /\ val[o] + n \in AbstractObjects!Values(o)
               /\ Signal(o, val[o] + n)
    <3>1. val[o] \in 0 .. MaxCount /\ val[o] + n <= MaxCount /\ Signal(o, val[o] + n)
      BY <2>2 DEF SyncInv, Values, SignalSema
    <3>2. val[o] + n \in 0 .. MaxCount
      BY <1>1, <3>1, SMT
    <3> QED
      BY <1>1, <1>2, <3>1, <3>2
  <2>3. ASSUME NEW o \in Semas, NEW n \in 1 .. MaxCount, PollSema(o, n)
        PROVE  /\ o \in OtherObjs /\ val[o] - n \in AbstractObjects!Values(o)
               /\ Lower(o, val[o] - n)
    <3>1. val[o] \in 0 .. MaxCount /\ val[o] >= n /\ Lower(o, val[o] - n)
      BY <2>3 DEF SyncInv, Values, PollSema
    <3>2. val[o] - n \in 0 .. MaxCount
      BY <1>1, <3>1, SMT
    <3> QED
      BY <1>1, <1>2, <3>1, <3>2
  <2>4. ASSUME NEW o \in Flags, NEW bits \in SUBSET Bits
        PROVE  /\ o \in OtherObjs /\ bits \in AbstractObjects!Values(o)
               /\ val[o] \cup bits \in AbstractObjects!Values(o)
               /\ val[o] \cap bits \in AbstractObjects!Values(o)
    BY <1>1, <1>2 DEF SyncInv, Values
  <2>5. ASSUME NEW o \in Flags, NEW bits \in SUBSET Bits, SetEventFlag(o, bits)
        PROVE  Signal(o, val[o] \cup bits)
    BY <2>5 DEF SetEventFlag
  <2>6. ASSUME NEW o \in Flags, NEW mask \in SUBSET Bits, ClearEventFlag(o, mask)
        PROVE  Lower(o, val[o] \cap mask)
    BY <2>6 DEF ClearEventFlag
  <2> QED
    BY <2>1, <2>2, <2>3, <2>4, <2>5, <2>6, Zenon DEF SyncCall
<1>4. ASSUME NEW o \in OtherObjs, NEW v \in AbstractObjects!Values(o),
             Create(o, v) \/ Signal(o, v) \/ Lower(o, v)
      PROVE  AbstractObjects!MonitorNext
  <2>1. AbstractObjects!Make(o) \/ AbstractObjects!Change(o)
    BY <1>4, CreateMakes, SignalChanges, LowerChanges
  <2> QED
    BY <1>1, <2>1, Zenon DEF AbstractObjects!MonitorNext
<1>5. ASSUME NEW o \in OtherObjs, Delete(o) PROVE AbstractObjects!MonitorNext
  BY <1>1, <1>5, DeleteRemoves, Zenon DEF AbstractObjects!MonitorNext
<1>6. ASSUME NEW o \in OtherObjs, NEW w \in Wants(o), Wait(o, w)
      PROVE  AbstractObjects!MonitorNext
  <2>1. \/ AbstractObjects!Change(o)
        \/ o \in live /\ \E u \in Slots : AbstractObjects!Begin(u, o, w)
    BY <1>6, WaitRefines
  <2>2. w \in AbstractObjects!Wants(o)
    BY Zenon DEF Wants, SemaWants, FlagWants, AbstractObjects!Wants
  <2> QED
    BY <1>1, <2>1, <2>2, Zenon DEF AbstractObjects!MonitorNext
<1> QED
  BY <1>3, <1>4, <1>5, <1>6

LEMMA StepRefines ==
    ASSUME SyncInv, [SyncNext]_<<vars, syncVars>>
    PROVE  [AbstractObjects!MonitorNext]_<<val, unborn, live, [t \in Slots |-> WaitingFor(t)]>>
<1>1. CASE UNCHANGED <<vars, syncVars>>
  BY <1>1, SchedulerRefines, Zenon DEF WaitingMap, AbstractObjects!MonitorNext
<1>2. CASE Next /\ UNCHANGED syncVars
  BY <1>2, SchedulerRefines, Zenon DEF WaitingMap, AbstractObjects!MonitorNext
<1>3. CASE ResumeWait
  BY <1>3, ResumeRefines, Zenon DEF WaitingMap, AbstractObjects!MonitorNext
<1>4. CASE SyncCall
  BY <1>4, CallRefines
<1> QED
  BY <1>1, <1>2, <1>3, <1>4 DEF SyncNext

(* To the threads, semaphores and event flags are atomic: a wait takes in  *)
(* one step, exactly when the object satisfies it, and is given up only    *)
(* for a timeout, a deleted object or the end of its thread, however often *)
(* the code parks, wakes and tests again (h_WaitSema, h_WaitEventFlag).    *)
THEOREM ObjectsAreAtomic == SyncSpec => ImplementsMonitor
  BY SyncInvariance, InitRefines, StepRefines, PTL
     DEF SyncSpec, ImplementsMonitor, AbstractObjects!MonitorSpec
=============================================================================
