-------------------------- MODULE SchedulerProofs --------------------------
(***************************************************************************)
(* The safety of the scheduler for every number of threads, every set of   *)
(* priorities and every frame length.  The inductive invariant is a        *)
(* property of the thread table, given how much of it is allocated and     *)
(* which thread runs; each operation on the table preserves it.            *)
(***************************************************************************)
EXTENDS Scheduler, TLAPS

(* n slots of the table are in use and thread c runs (or the scheduler).   *)
Good(tc, n, c) ==
    /\ tc \in [Slots -> TCB]
    /\ \A t \in Slots : tc[t].state = "RUNNING" => c = t
    /\ \A t \in Slots : ~tc[t].started => tc[t].saved
    /\ \A t \in Slots : t # c /\ tc[t].state # "DORMANT" => tc[t].saved
    /\ \A t \in Slots : tc[t].call = "sleep" /\ tc[t].state = "WAIT_OBJ" =>
                           tc[t].wakeups = 0 /\ tc[t].sleeping /\ tc[t].wait_obj = t
    /\ \A t \in Slots : tc[t].state = "WAIT_DELAY" => tc[t].wake # Never
    /\ \A t \in Slots \ (0 .. n - 1) : tc[t].state = "DORMANT" /\ tc[t].call = "guest"
    /\ \A t, u \in Slots :
          /\ tc[t].call = "waitEnd" /\ tc[t].state = "WAIT_OBJ" /\ tc[t].wait_obj = u
          /\ tc[u].state = "DORMANT"
          => tc[u].call = "returned"

(* tc2 differs from tc only in waits that have ended, in deadlines, in     *)
(* vblank latches and in priorities.                                       *)
Milder(tc, tc2) ==
    /\ tc2 \in [Slots -> TCB]
    /\ \A t \in Slots :
          /\ \/ tc2[t].state = tc[t].state
             \/ tc[t].state \in Waits /\ tc2[t].state = "READY"
          /\ tc2[t].call = tc[t].call
          /\ tc2[t].saved = tc[t].saved
          /\ tc2[t].started = tc[t].started
          /\ tc2[t].sleeping = tc[t].sleeping
          /\ tc2[t].wakeups = tc[t].wakeups
          /\ tc2[t].wait_obj = tc[t].wait_obj
          /\ tc2[t].wake = Never => tc[t].wake = Never

LEMMA GoodIsTable ==
    ASSUME NEW tc, NEW n, NEW c, Good(tc, n, c)
    PROVE  tc \in [Slots -> TCB]
  BY DEF Good

LEMMA MilderGood ==
    ASSUME NEW tc, NEW tc2, NEW n, NEW c, Good(tc, n, c), Milder(tc, tc2)
    PROVE  Good(tc2, n, c)
  BY SMT DEF Good, Milder, Waits

LEMMA MilderTrans ==
    ASSUME NEW tc, NEW tc2, NEW tc3, Milder(tc, tc2), Milder(tc2, tc3)
    PROVE  Milder(tc, tc3)
  BY SMT DEF Milder, Waits

LEMMA ElapseMilder ==
    ASSUME NEW tc \in [Slots -> TCB], NEW d \in Nat
    PROVE  Milder(tc, Elapse(tc, d))
  BY SMT DEF Milder, Elapse, Timed, TCB, Never, Waits

LEMMA ExpireMilder ==
    ASSUME NEW tc \in [Slots -> TCB]
    PROVE  Milder(tc, Expire(tc))
  BY SMT DEF Milder, Expire, Expired, Waiting, TCB, Waits

LEMMA WakeMilder ==
    ASSUME NEW tc \in [Slots -> TCB], NEW obj
    PROVE  Milder(tc, Wake(tc, obj))
  BY SMT DEF Milder, Wake, TCB, Waits

LEMMA LatchMilder ==
    ASSUME NEW tc \in [Slots -> TCB]
    PROVE  Milder(tc, Latch(tc))
<1>1. \A t \in Slots : [tc[t] EXCEPT !.fresh = TRUE] \in TCB
  BY Zenon DEF TCB
<1> QED
  BY <1>1, SMT DEF Milder, Latch, TCB

LEMMA PriorityMilder ==
    ASSUME NEW tc \in [Slots -> TCB], NEW u \in Slots, NEW p \in Prios
    PROVE  Milder(tc, [tc EXCEPT ![u].priority = p])
  BY SMT DEF Milder, TCB

-----------------------------------------------------------------------------
(* Operations on one slot.                                                 *)

(* What the entry r of slot u must satisfy beside the table tc it joins.   *)
Fits(tc, n, c, u, r) ==
    /\ r \in TCB
    /\ r.state = "RUNNING" => c = u
    /\ ~r.started => r.saved
    /\ u # c /\ r.state # "DORMANT" => r.saved
    /\ r.call = "sleep" /\ r.state = "WAIT_OBJ" =>
          r.wakeups = 0 /\ r.sleeping /\ r.wait_obj = u
    /\ r.state = "WAIT_DELAY" => r.wake # Never
    /\ u \notin 0 .. n - 1 => r.state = "DORMANT" /\ r.call = "guest"
    /\ r.call = "waitEnd" /\ r.state = "WAIT_OBJ" =>
          \A v \in Slots \ {u} : r.wait_obj = v /\ tc[v].state = "DORMANT" =>
                                    tc[v].call = "returned"
    /\ r.state = "DORMANT" /\ r.call # "returned" =>
          \A t \in Slots \ {u} : ~(/\ tc[t].call = "waitEnd"
                                   /\ tc[t].state = "WAIT_OBJ"
                                   /\ tc[t].wait_obj = u)

(* The running thread may change only by its own slot's change.            *)
LEMMA SlotGood ==
    ASSUME NEW tc, NEW n, NEW c, Good(tc, n, c),
           NEW u \in Slots, NEW d, d = c \/ (c \in {u, Scheduling} /\ d \in {u, Scheduling}),
           NEW r, Fits(tc, n, d, u, r), NEW tc2, tc2 = [tc EXCEPT ![u] = r]
    PROVE  Good(tc2, n, d)
<1>1. tc2 \in [Slots -> TCB] /\ tc2[u] = r /\ \A t \in Slots \ {u} : tc2[t] = tc[t]
  BY SMT DEF Good, Fits
<1>2. \A t \in Slots \ {u} : tc[t].state = "RUNNING" => d = t
  BY SMT DEF Good, Scheduling, Slots
<1>3. \A t \in Slots \ {u} : t # d /\ tc[t].state # "DORMANT" => tc[t].saved
  BY SMT DEF Good, Scheduling, Slots
<1>4. \A t, v \in Slots : 
          /\ tc2[t].call = "waitEnd" /\ tc2[t].state = "WAIT_OBJ" /\ tc2[t].wait_obj = v
          /\ tc2[v].state = "DORMANT"
          => tc2[v].call = "returned"
  BY <1>1, SMT DEF Good, Fits
<1> QED
  BY <1>1, <1>2, <1>3, <1>4, SMT DEF Good, Fits

LEMMA WakeupGood ==
    ASSUME NEW tc, NEW n, NEW c, Good(tc, n, c),
           NEW u \in 0 .. n - 1, u \in Slots, BankHasRoom(tc, u)
    PROVE  Good(Wakeup(tc, u), n, c)
<1>1. tc \in [Slots -> TCB] /\ tc[u] \in TCB
  BY DEF Good
<1>2. CASE Asleep(tc, u)
  <2> DEFINE r == [tc[u] EXCEPT !.sleeping = FALSE, !.state = "READY"]
  <2>1. r \in TCB
    BY <1>1, Zenon DEF TCB, Waits
  <2>2. /\ r.state = "READY"
        /\ r.started = tc[u].started /\ r.saved = tc[u].saved
    BY <1>1, SMT DEF TCB
  <2>3. Wakeup(tc, u) = [tc EXCEPT ![u] = r]
    BY <1>1, <1>2, Zenon DEF Wakeup
  <2> HIDE DEF r
  <2>4. Fits(tc, n, c, u, r)
    BY <1>1, <1>2, <2>1, <2>2, SMT DEF Good, Fits, Asleep
  <2> QED
    BY <2>3, <2>4, SlotGood
<1>3. CASE ~Asleep(tc, u)
  <2> DEFINE r == [tc[u] EXCEPT !.wakeups = @ + 1]
  <2>1. tc[u].wakeups + 1 \in 0 .. MaxWakeups
    BY <1>1, <1>3, BankAssumption, SMT DEF BankHasRoom, TCB
  <2>2. r \in TCB
    BY <1>1, <2>1, Zenon DEF TCB
  <2>3. /\ r.state = tc[u].state /\ r.call = tc[u].call /\ r.wait_obj = tc[u].wait_obj
        /\ r.wake = tc[u].wake /\ r.started = tc[u].started /\ r.saved = tc[u].saved
    BY <1>1, SMT DEF TCB
  <2>4. Wakeup(tc, u) = [tc EXCEPT ![u] = r]
    BY <1>1, <1>3, Zenon DEF Wakeup
  <2> HIDE DEF r
  <2>5. Fits(tc, n, c, u, r)
    BY <1>1, <1>3, <2>2, <2>3, SMT DEF Good, Fits, Asleep
  <2> QED
    BY <2>4, <2>5, SlotGood
<1> QED
  BY <1>2, <1>3

LEMMA StartGood ==
    ASSUME NEW tc, NEW n, NEW c, Good(tc, n, c), NEW u \in 0 .. n - 1, u \in Slots
    PROVE  Good(Start(tc, u), n, c)
<1>1. tc \in [Slots -> TCB] /\ tc[u] \in TCB
  BY DEF Good
<1>2. CASE tc[u].started /\ tc[u].state = "DORMANT"
  <2> DEFINE r == [tc[u] EXCEPT !.state = "READY", !.started = FALSE,
                                !.wakeups = 0, !.sleeping = FALSE,
                                !.wait_obj = NoObj, !.wake = 0,
                                !.saved = TRUE, !.call = "guest"]
  <2>1. 0 \in 0 .. MaxWakeups /\ NoObj \in Objs /\ 0 \in Nat /\ "guest" \in Calls
    BY BankAssumption, SMT DEF Objs, Calls
  <2>2. r \in TCB
    BY <1>1, <2>1, Zenon DEF TCB
  <2>3. r.state = "READY" /\ r.saved /\ r.call = "guest"
    BY <1>1, SMT DEF TCB
  <2>4. Start(tc, u) = [tc EXCEPT ![u] = r]
    BY <1>2, Zenon DEF Start
  <2> HIDE DEF r
  <2>5. Fits(tc, n, c, u, r)
    BY <2>2, <2>3, SMT DEF Fits
  <2> QED
    BY <2>4, <2>5, SlotGood
<1>3. CASE ~(tc[u].started /\ tc[u].state = "DORMANT")
  <2> DEFINE r == [tc[u] EXCEPT !.state = "READY"]
  <2>1. r \in TCB
    BY <1>1, Zenon DEF TCB
  <2>2. /\ r.state = "READY"
        /\ r.started = tc[u].started /\ r.saved = tc[u].saved
    BY <1>1, SMT DEF TCB
  <2>3. Start(tc, u) = [tc EXCEPT ![u] = r]
    BY <1>3, Zenon DEF Start
  <2> HIDE DEF r
  <2>4. Fits(tc, n, c, u, r)
    BY <1>1, <1>3, <2>1, <2>2, SMT DEF Good, Fits
  <2> QED
    BY <2>3, <2>4, SlotGood
<1> QED
  BY <1>2, <1>3

(* The running thread blocks; a sleeper has no wakeup left, and a waiter   *)
(* for the end of a thread has seen that thread alive.                     *)
LEMMA BlockGood ==
    ASSUME NEW tc, NEW n, NEW c \in 0 .. n - 1, c \in Slots, Good(tc, n, c),
           NEW obj \in Objs, NEW left \in {Never} \cup Nat, NEW call \in Calls \ {"sleep"},
           call = "waitEnd" => \A v \in Slots : obj = v => tc[v].state # "DORMANT"
    PROVE  Good(Block(tc, c, obj, left, call), n, Scheduling)
<1> DEFINE r == [tc[c] EXCEPT !.state = "WAIT_OBJ", !.wait_obj = obj,
                              !.wake = left, !.saved = TRUE, !.call = call]
<1>1. tc \in [Slots -> TCB] /\ tc[c] \in TCB
  BY DEF Good
<1>2. r \in TCB
  BY <1>1, Zenon DEF TCB, Waits
<1>3. /\ r.state = "WAIT_OBJ" /\ r.saved
      /\ r.call = call /\ r.wait_obj = obj
  BY <1>1, SMT DEF TCB
<1>4. Block(tc, c, obj, left, call) = [tc EXCEPT ![c] = r]
  BY Zenon DEF Block
<1> HIDE DEF r
<1>5. Fits(tc, n, Scheduling, c, r)
  BY <1>1, <1>2, <1>3, SMT DEF Good, Fits
<1> QED
  BY <1>4, <1>5, SlotGood

LEMMA SleepGood ==
    ASSUME NEW tc, NEW n, NEW c \in 0 .. n - 1, c \in Slots, Good(tc, n, c),
           tc[c].wakeups = 0
    PROVE  Good([Block(tc, c, c, Never, "sleep") EXCEPT ![c].sleeping = TRUE], n, Scheduling)
<1> DEFINE r == [tc[c] EXCEPT !.state = "WAIT_OBJ", !.wait_obj = c, !.wake = Never,
                              !.saved = TRUE, !.call = "sleep", !.sleeping = TRUE]
<1>1. tc \in [Slots -> TCB] /\ tc[c] \in TCB
  BY DEF Good
<1>2. c \in Objs /\ "sleep" \in Calls
  BY DEF Objs, Calls
<1>3. r \in TCB
  BY <1>1, <1>2, Zenon DEF TCB, Waits
<1>4. /\ r.state = "WAIT_OBJ" /\ r.saved /\ r.sleeping
      /\ r.call = "sleep" /\ r.wait_obj = c /\ r.wakeups = tc[c].wakeups
  BY <1>1, SMT DEF TCB
<1>5. [Block(tc, c, c, Never, "sleep") EXCEPT ![c].sleeping = TRUE] = [tc EXCEPT ![c] = r]
  BY <1>1, Zenon DEF Block
<1> HIDE DEF r
<1>6. Fits(tc, n, Scheduling, c, r)
  BY <1>1, <1>3, <1>4, SMT DEF Good, Fits
<1> QED
  BY <1>5, <1>6, SlotGood

(* Thread u becomes dormant and every thread waiting on it becomes ready.  *)
LEMMA EndedGood ==
    ASSUME NEW tc, NEW n, NEW c, Good(tc, n, c), NEW u \in 0 .. n - 1, u \in Slots,
           NEW d, d = c \/ (c = u /\ d = Scheduling),
           NEW r \in TCB, r.state = "DORMANT",
           r.started = tc[u].started, r.saved = tc[u].saved,
           NEW tc2, tc2 = [tc EXCEPT ![u] = r]
    PROVE  Good(Wake(tc2, u), n, d)
<1>1. tc2 \in [Slots -> TCB] /\ tc2[u] = r /\ \A t \in Slots \ {u} : tc2[t] = tc[t]
  BY SMT DEF Good
<1> DEFINE tc3 == Wake(tc2, u)
<1>2. Milder(tc2, tc3)
  BY <1>1, WakeMilder
<1>3. \A t \in Slots : tc3[t].state = "WAIT_OBJ" => tc3[t].wait_obj # u
  BY <1>1, SMT DEF Wake, TCB
<1>4. tc3[u].state = "DORMANT"
  BY <1>1, SMT DEF Wake, TCB
<1> HIDE DEF tc3
<1>5. \A t \in Slots \ {u} :
         /\ \/ tc3[t].state = tc[t].state
            \/ tc[t].state \in Waits /\ tc3[t].state = "READY"
         /\ tc3[t].call = tc[t].call
         /\ tc3[t].saved = tc[t].saved /\ tc3[t].started = tc[t].started
         /\ tc3[t].sleeping = tc[t].sleeping /\ tc3[t].wakeups = tc[t].wakeups
         /\ tc3[t].wait_obj = tc[t].wait_obj
         /\ tc3[t].wake = Never => tc[t].wake = Never
  BY <1>1, <1>2, SMT DEF Milder
<1>6. tc3 \in [Slots -> TCB] /\ tc3[u].saved = tc[u].saved /\ tc3[u].started = tc[u].started
  BY <1>1, <1>2, SMT DEF Milder
<1>7. Good(tc3, n, d)
  BY <1>3, <1>4, <1>5, <1>6, SMT DEF Good, Waits, Scheduling, Slots
<1> QED
  BY <1>7 DEF tc3

LEMMA ExitGood ==
    ASSUME NEW tc, NEW n, NEW c \in 0 .. n - 1, c \in Slots, Good(tc, n, c)
    PROVE  Good(Exit(tc, c), n, Scheduling)
<1> DEFINE r == [tc[c] EXCEPT !.state = "DORMANT", !.call = "exited"]
<1>1. tc \in [Slots -> TCB] /\ tc[c] \in TCB
  BY DEF Good
<1>2. "exited" \in Calls
  BY DEF Calls
<1>3. r \in TCB
  BY <1>1, <1>2, Zenon DEF TCB
<1>4. r.state = "DORMANT" /\ r.started = tc[c].started /\ r.saved = tc[c].saved
  BY <1>1, SMT DEF TCB
<1>5. Exit(tc, c) = Wake([tc EXCEPT ![c] = r], c)
  BY Zenon DEF Exit
<1> HIDE DEF r
<1> QED
  BY <1>3, <1>4, <1>5, EndedGood

LEMMA ReturnGood ==
    ASSUME NEW tc, NEW n, NEW c \in 0 .. n - 1, c \in Slots, Good(tc, n, c)
    PROVE  Good([tc EXCEPT ![c].state = "DORMANT", ![c].call = "returned"], n, Scheduling)
<1> DEFINE r == [tc[c] EXCEPT !.state = "DORMANT", !.call = "returned"]
<1>1. tc \in [Slots -> TCB] /\ tc[c] \in TCB
  BY DEF Good
<1>2. "returned" \in Calls
  BY DEF Calls
<1>3. r \in TCB
  BY <1>1, <1>2, Zenon DEF TCB
<1>4. /\ r.state = "DORMANT" /\ r.call = "returned"
      /\ r.started = tc[c].started /\ r.saved = tc[c].saved
  BY <1>1, SMT DEF TCB
<1>5. [tc EXCEPT ![c].state = "DORMANT", ![c].call = "returned"] = [tc EXCEPT ![c] = r]
  BY Zenon
<1> HIDE DEF r
<1>6. Fits(tc, n, Scheduling, c, r)
  BY <1>1, <1>3, <1>4, SMT DEF Good, Fits
<1> QED
  BY <1>5, <1>6, SlotGood

LEMMA TerminateGood ==
    ASSUME NEW tc, NEW n, NEW c, Good(tc, n, c), NEW u \in 0 .. n - 1, u \in Slots
    PROVE  Good(Terminate(tc, u), n, c)
<1> DEFINE r == [tc[u] EXCEPT !.state = "DORMANT", !.sleeping = FALSE,
                              !.wait_obj = NoObj, !.wake = 0]
<1>1. tc \in [Slots -> TCB] /\ tc[u] \in TCB
  BY DEF Good
<1>2. NoObj \in Objs /\ 0 \in Nat
  BY DEF Objs
<1>3. r \in TCB
  BY <1>1, <1>2, Zenon DEF TCB
<1>4. r.state = "DORMANT" /\ r.started = tc[u].started /\ r.saved = tc[u].saved
  BY <1>1, SMT DEF TCB
<1>5. CASE tc[u].state # "DORMANT"
  <2>1. Terminate(tc, u) = Wake([tc EXCEPT ![u] = r], u)
    BY <1>5, Zenon DEF Terminate
  <2> HIDE DEF r
  <2> QED
    BY <1>3, <1>4, <2>1, EndedGood
<1>6. CASE tc[u].state = "DORMANT"
  BY <1>6 DEF Terminate
<1> QED
  BY <1>5, <1>6

LEMMA ResumedGood ==
    ASSUME NEW tc, NEW n, Good(tc, n, Scheduling), NEW t \in 0 .. n - 1, t \in Slots
    PROVE  Good(Resumed(tc, t), n, t)
<1> DEFINE over == CallOver(tc, t)
           fr == tc[t].fresh /\ tc[t].call # "vblank"
           wk == IF over THEN 0 ELSE tc[t].wake
           ob == IF over THEN NoObj ELSE tc[t].wait_obj
           ca == IF over THEN "guest" ELSE tc[t].call
           r == [tc[t] EXCEPT !.state = "RUNNING", !.started = TRUE, !.saved = FALSE,
                              !.fresh = fr, !.wake = wk, !.wait_obj = ob, !.call = ca]
<1>1. tc \in [Slots -> TCB] /\ tc[t] \in TCB
  BY DEF Good
<1>2. fr \in BOOLEAN
  BY <1>1, Zenon DEF TCB
<1>3. /\ wk \in {Never} \cup Nat /\ ob \in Objs /\ ca \in Calls
  BY <1>1, SMT DEF TCB, Objs, Calls
<1>4. Resumed(tc, t) = [tc EXCEPT ![t] = r]
  BY Zenon DEF Resumed
<1> HIDE DEF fr, wk, ob, ca
<1>5. r \in TCB
  BY <1>1, <1>2, <1>3, Zenon DEF TCB
<1>6. r.state = "RUNNING" /\ r.started
  BY <1>1, SMT DEF TCB
<1> HIDE DEF r
<1>7. Fits(tc, n, t, t, r)
  BY <1>5, <1>6, SMT DEF Fits
<1> QED
  BY <1>4, <1>7, SlotGood

(* A change of one slot that touches neither its state nor its call.       *)
LEMMA QuietGood ==
    ASSUME NEW tc, NEW n, NEW c, Good(tc, n, c), NEW u \in Slots, NEW r \in TCB,
           r.state = tc[u].state, r.call = tc[u].call, r.wait_obj = tc[u].wait_obj,
           r.wake = tc[u].wake, r.started = tc[u].started, r.saved = tc[u].saved,
           r.sleeping = tc[u].sleeping, tc[u].wakeups = 0 => r.wakeups = 0,
           NEW tc2, tc2 = [tc EXCEPT ![u] = r]
    PROVE  Good(tc2, n, c)
<1>1. Fits(tc, n, c, u, r)
  BY SMT DEF Good, Fits
<1> QED
  BY <1>1, SlotGood

(* The running thread gives way from guest code: its registers are saved.  *)
LEMMA ParkedGood ==
    ASSUME NEW tc, NEW n, NEW c \in 0 .. n - 1, c \in Slots, Good(tc, n, c),
           tc[c].call = "guest", NEW r \in TCB, r.call = "guest", r.saved,
           r.state # "RUNNING", r.state = "DORMANT" => tc[c].state = "DORMANT",
           r.state = "WAIT_DELAY" => r.wake # Never,
           NEW tc2, tc2 = [tc EXCEPT ![c] = r]
    PROVE  Good(tc2, n, Scheduling)
<1>1. Fits(tc, n, Scheduling, c, r)
  BY SMT DEF Good, Fits
<1> QED
  BY <1>1, SlotGood

(* A thread block is taken from the end of the table, where nobody waits.  *)
LEMMA CreateGood ==
    ASSUME NEW tc, NEW n \in Nat, NEW c, Good(tc, n, c), c # n, n \in Slots,
           NEW p \in Prios,
           NEW tc2, tc2 = [tc EXCEPT ![n] = [Fresh EXCEPT !.priority = p, !.fresh = tc[n].fresh]]
    PROVE  Good(tc2, n + 1, c)
<1> DEFINE r == [Fresh EXCEPT !.priority = p, !.fresh = tc[n].fresh]
<1>1. tc \in [Slots -> TCB] /\ tc[n] \in TCB
  BY DEF Good
<1>2. tc[n].fresh \in BOOLEAN
  BY <1>1, Zenon DEF TCB
<1>3. /\ 0 \in 0 .. MaxWakeups /\ NoObj \in Objs /\ 0 \in Nat /\ "guest" \in Calls
      /\ EntryPrio \in Prios
  BY BankAssumption, PrioAssumption, SMT DEF Objs, Calls
<1>4. r \in TCB
  BY <1>2, <1>3, Zenon DEF TCB, Fresh
<1>5. r.state = "DORMANT" /\ r.call = "guest" /\ r.saved
  BY DEF Fresh
<1>6. tc2 = [tc EXCEPT ![n] = r]
  OBVIOUS
<1> HIDE DEF r
<1>7. tc[n].state = "DORMANT" /\ tc[n].call = "guest"
  BY SMT DEF Good
<1>8. Fits(tc, n, c, n, r)
  BY <1>1, <1>4, <1>5, <1>7, SMT DEF Good, Fits
<1>9. Good(tc2, n, c)
  BY <1>6, <1>8, SlotGood
<1>10. 0 .. n - 1 \subseteq 0 .. (n + 1) - 1
  BY SMT
<1> QED
  BY <1>9, <1>10, Zenon DEF Good

-----------------------------------------------------------------------------
(* The operations that read the variables: a call of the running thread    *)
(* that may preempt, and the delivery of a vblank.                         *)

LEMMA AllocatedSlots ==
    ASSUME ntcb \in 1 .. MAXTHREADS
    PROVE  Allocated \subseteq Slots /\ Allocated = 0 .. ntcb - 1
  BY TableAssumption, SMT DEF Allocated, Slots

LEMMA PreemptGood ==
    ASSUME NEW tc, NEW n, cur \in 0 .. n - 1, cur \in Slots, Good(tc, n, cur),
           tc[cur].call = "guest", Preempt(tc)
    PROVE  Good(tcb', n, cur') /\ cur' \in {cur, Scheduling}
<1>1. CASE cur' = Scheduling /\ tcb' = [tc EXCEPT ![cur].state = "READY", ![cur].saved = TRUE]
  <2> DEFINE r == [tc[cur] EXCEPT !.state = "READY", !.saved = TRUE]
  <2>1. tc[cur] \in TCB
    BY DEF Good
  <2>2. r \in TCB
    BY <2>1, Zenon DEF TCB
  <2>3. r.state = "READY" /\ r.saved /\ r.call = "guest"
    BY <2>1, SMT DEF TCB
  <2>4. tcb' = [tc EXCEPT ![cur] = r]
    BY <1>1, Zenon
  <2> HIDE DEF r
  <2>5. \A tc2 : tc2 = [tc EXCEPT ![cur] = r] => Good(tc2, n, Scheduling)
    BY <2>2, <2>3, ParkedGood, Zenon
  <2>6. Good(tcb', n, Scheduling)
    BY <2>4, <2>5, Zenon
  <2> QED
    BY <1>1, <2>6, Zenon
<1>2. CASE tcb' = tc /\ cur' = cur
  BY <1>2
<1> QED
  BY <1>1, <1>2, Zenon DEF Preempt

LEMMA DeliveredGood ==
    ASSUME NEW tc, NEW c, Good(tc, ntcb, c), ntcb \in 1 .. MAXTHREADS,
           NEW tc2 \in Delivered(tc)
    PROVE  Good(tc2, ntcb, c) /\ \A t \in Slots : tc2[t].call = tc[t].call
<1> DEFINE woken == Wake(Latch(tc), VBLANK)
<1>1. tc \in [Slots -> TCB]
  BY DEF Good
<1>2. Good(Latch(tc), ntcb, c)
  BY <1>1, LatchMilder, MilderGood
<1>3. Latch(tc) \in [Slots -> TCB]
  BY <1>2 DEF Good
<1>4. Good(woken, ntcb, c)
  BY <1>2, <1>3, WakeMilder, MilderGood
<1>5. tc2 = woken \/ \E u \in Allocated : BankHasRoom(woken, u) /\ tc2 = Wakeup(woken, u)
  BY Zenon DEF Delivered
<1>6. \A t \in Slots : woken[t].call = tc[t].call
  BY <1>1, <1>3, LatchMilder, WakeMilder, SMT DEF Milder
<1> HIDE DEF woken
<1>7. \A u \in Allocated, t \in Slots : Wakeup(woken, u)[t].call = woken[t].call
  BY <1>4, AllocatedSlots, SMT DEF Wakeup, Good, TCB
<1>8. \A u \in Allocated : BankHasRoom(woken, u) => Good(Wakeup(woken, u), ntcb, c)
  BY <1>4, AllocatedSlots, WakeupGood
<1> QED
  BY <1>4, <1>5, <1>6, <1>7, <1>8, Zenon

LEMMA ElapsesNat == Elapses \subseteq Nat
  BY TimeAssumption, SMT DEF Elapses

LEMMA DueAfterInRange ==
    ASSUME due \in -(Period + 1) .. Period, NEW d \in Nat
    PROVE  DueAfter(d) \in -(Period + 1) .. Period
  BY TimeAssumption, SMT DEF DueAfter

LEMMA NextDueInRange ==
    ASSUME NEW du \in Int, du <= 0
    PROVE  NextDue(du) \in -(Period + 1) .. Period
  BY TimeAssumption, SMT DEF NextDue

-----------------------------------------------------------------------------
(* The inductive invariant.                                                *)
IInv ==
    /\ Good(tcb, ntcb, cur)
    /\ ntcb \in 1 .. MAXTHREADS
    /\ cur \in Allocated \cup {Scheduling}
    /\ due \in -(Period + 1) .. Period
    /\ handler \in BOOLEAN
    /\ stopped \in BOOLEAN
    /\ stopped => cur = Scheduling

LEMMA InitInv == Init => IInv
<1> SUFFICES ASSUME Init PROVE IInv
  OBVIOUS
<1>1. /\ 0 \in 0 .. MaxWakeups /\ NoObj \in Objs /\ 0 \in Nat /\ "guest" \in Calls
      /\ EntryPrio \in Prios
  BY BankAssumption, PrioAssumption, SMT DEF Objs, Calls
<1>2. Fresh \in TCB
  BY <1>1, Zenon DEF Fresh, TCB
<1>3. [Fresh EXCEPT !.state = "READY"] \in TCB
  BY <1>2, Zenon DEF TCB
<1>4. tcb \in [Slots -> TCB]
  BY <1>2, <1>3, SMT DEF Init
<1>5. \A t \in Slots : /\ tcb[t].state = IF t = 0 THEN "READY" ELSE "DORMANT"
                       /\ tcb[t].saved /\ tcb[t].call = "guest"
  BY SMT DEF Init, Fresh
<1>6. Good(tcb, ntcb, cur)
  BY <1>4, <1>5, SMT DEF Init, Good
<1>7. ntcb \in 1 .. MAXTHREADS /\ due \in -(Period + 1) .. Period
  BY TableAssumption, TimeAssumption, SMT DEF Init
<1>8. cur \in Allocated \cup {Scheduling}
  BY SMT DEF Init
<1>9. handler = FALSE /\ stopped = FALSE
  BY Zenon DEF Init
<1>10. handler \in BOOLEAN /\ stopped \in BOOLEAN /\ ~stopped
  BY <1>9, Zenon
<1> QED
  BY <1>6, <1>7, <1>8, <1>10, Zenon DEF IInv

(* What a call of the running thread starts from.                          *)
LEMMA RunningFacts ==
    ASSUME IInv, cur # Scheduling
    PROVE  /\ Good(tcb, ntcb, cur) /\ tcb \in [Slots -> TCB]
           /\ cur \in 0 .. ntcb - 1 /\ cur \in Slots /\ tcb[cur] \in TCB
           /\ Allocated \subseteq Slots /\ Allocated = 0 .. ntcb - 1
           /\ ~stopped
<1>1. cur \in Allocated /\ ~stopped
  BY Zenon DEF IInv
<1>2. Allocated \subseteq Slots /\ Allocated = 0 .. ntcb - 1
  BY AllocatedSlots DEF IInv
<1> QED
  BY <1>1, <1>2 DEF IInv, Good

LEMMA GuestFacts ==
    ASSUME IInv, InGuest
    PROVE  /\ Good(tcb, ntcb, cur) /\ tcb \in [Slots -> TCB]
           /\ cur \in 0 .. ntcb - 1 /\ cur \in Slots
           /\ tcb[cur] \in TCB /\ tcb[cur].call = "guest"
           /\ Allocated \subseteq Slots /\ Allocated = 0 .. ntcb - 1
           /\ ~stopped
  BY RunningFacts DEF InGuest

(* What it has to establish.                                               *)
LEMMA CallInv ==
    ASSUME IInv, ~stopped, Good(tcb', ntcb, cur'), cur' \in {cur, Scheduling},
           due' \in -(Period + 1) .. Period, handler' \in BOOLEAN,
           UNCHANGED <<ntcb, stopped>>
    PROVE  IInv'
<1>1. cur' \in Allocated' \cup {Scheduling}
  BY Zenon DEF IInv, Allocated
<1>2. ntcb' \in 1 .. MAXTHREADS /\ Good(tcb', ntcb', cur')
  BY Zenon DEF IInv
<1>3. ~stopped'
  OBVIOUS
<1> QED
  BY <1>1, <1>2, <1>3, Zenon DEF IInv

LEMMA CreateThreadInv ==
    ASSUME IInv, NEW p \in Prios, CreateThread(p)
    PROVE  IInv'
<1>1. InGuest
  BY DEF CreateThread
<1>2. /\ ntcb \in Nat /\ ntcb \in Slots /\ cur # ntcb
      /\ ntcb + 1 \in 1 .. MAXTHREADS
      /\ cur \in 0 .. (ntcb + 1) - 1
  BY <1>1, GuestFacts, TableAssumption, SMT DEF CreateThread, IInv, Slots
<1>3. \A tc2 : tc2 = [tcb EXCEPT ![ntcb] = [Fresh EXCEPT !.priority = p, !.fresh = tcb[ntcb].fresh]]
                 => Good(tc2, ntcb + 1, cur)
  BY <1>1, <1>2, GuestFacts, CreateGood, Zenon
<1>4. Good(tcb', ntcb', cur')
  BY <1>3, Zenon DEF CreateThread
<1>5. cur' \in Allocated'
  BY <1>2, Zenon DEF CreateThread, Allocated
<1> QED
  BY <1>1, <1>2, <1>4, <1>5, GuestFacts, Zenon DEF CreateThread, IInv

LEMMA StartThreadInv ==
    ASSUME IInv, NEW u \in Allocated, StartThread(u)
    PROVE  IInv'
<1>1. InGuest
  BY DEF StartThread
<1>2. Good(Start(tcb, u), ntcb, cur)
  BY <1>1, GuestFacts, StartGood
<1>3. Start(tcb, u)[cur].call = "guest"
  BY <1>1, GuestFacts, SMT DEF Start, TCB
<1>4. Good(tcb', ntcb, cur') /\ cur' \in {cur, Scheduling}
  BY <1>1, <1>2, <1>3, GuestFacts, PreemptGood DEF StartThread
<1> QED
  BY <1>1, <1>4, GuestFacts, CallInv DEF StartThread, TimeStands, IInv

LEMMA ExitThreadInv ==
    ASSUME IInv, ExitThread
    PROVE  IInv'
<1>1. InGuest
  BY DEF ExitThread
<1>2. Good(Exit(tcb, cur), ntcb, Scheduling)
  BY <1>1, GuestFacts, ExitGood
<1>3. Good(tcb', ntcb, cur') /\ cur' \in {cur, Scheduling}
  BY <1>2, Zenon DEF ExitThread, SwitchAway
<1> QED
  BY <1>1, <1>3, GuestFacts, CallInv DEF ExitThread, TimeStands, IInv

LEMMA BodyReturnsInv ==
    ASSUME IInv, BodyReturns
    PROVE  IInv'
<1>1. InGuest
  BY DEF BodyReturns
<1>2. Good([tcb EXCEPT ![cur].state = "DORMANT", ![cur].call = "returned"], ntcb, Scheduling)
  BY <1>1, GuestFacts, ReturnGood
<1>3. Good(tcb', ntcb, cur') /\ cur' \in {cur, Scheduling}
  BY <1>2, Zenon DEF BodyReturns, SwitchAway
<1> QED
  BY <1>1, <1>3, GuestFacts, CallInv DEF BodyReturns, TimeStands, IInv

LEMMA TerminateThreadInv ==
    ASSUME IInv, NEW u \in Allocated, TerminateThread(u)
    PROVE  IInv'
<1>1. InGuest
  BY DEF TerminateThread
<1>2. Good(Exit(tcb, cur), ntcb, Scheduling)
  BY <1>1, GuestFacts, ExitGood
<1>3. Good(Terminate(tcb, u), ntcb, cur)
  BY <1>1, GuestFacts, TerminateGood
<1>4. Good(tcb', ntcb, cur') /\ cur' \in {cur, Scheduling}
  BY <1>2, <1>3, Zenon DEF TerminateThread, SwitchAway, CallReturns
<1> QED
  BY <1>1, <1>4, GuestFacts, CallInv DEF TerminateThread, TimeStands, IInv

LEMMA DelayThreadInv ==
    ASSUME IInv, NEW usec \in Delays, DelayThread(usec)
    PROVE  IInv'
<1>1. InGuest
  BY DEF DelayThread
<1>2. PICK d \in Elapses :
         /\ SwitchAway([Elapse(tcb, d) EXCEPT ![cur] =
                           [@ EXCEPT !.state = "WAIT_DELAY", !.wake = usec, !.saved = TRUE]])
         /\ due' = DueAfter(d)
  BY DEF DelayThread
<1>3. d \in Nat /\ usec \in Nat
  BY ElapsesNat, TimeAssumption, SMT
<1> DEFINE tc == Elapse(tcb, d)
           r == [tc[cur] EXCEPT !.state = "WAIT_DELAY", !.wake = usec, !.saved = TRUE]
<1>4. Milder(tcb, tc)
  BY <1>1, <1>3, GuestFacts, ElapseMilder
<1>5. Good(tc, ntcb, cur)
  BY <1>1, <1>4, GuestFacts, MilderGood
<1>6. tc[cur] \in TCB /\ tc[cur].call = "guest"
  BY <1>1, <1>4, GuestFacts DEF Milder
<1>7. tcb' = [tc EXCEPT ![cur] = r] /\ cur' = Scheduling
  BY <1>2, Zenon DEF SwitchAway
<1> HIDE DEF tc
<1>8. r \in TCB
  BY <1>3, <1>6, Zenon DEF TCB, Waits
<1>9. r.state = "WAIT_DELAY" /\ r.saved /\ r.call = "guest" /\ r.wake # Never
  BY <1>3, <1>6, SMT DEF TCB, Never
<1> HIDE DEF r
<1>10. \A tc2 : tc2 = [tc EXCEPT ![cur] = r] => Good(tc2, ntcb, Scheduling)
  BY <1>1, <1>5, <1>6, <1>8, <1>9, GuestFacts, ParkedGood, Zenon
<1>11. Good(tcb', ntcb, cur') /\ cur' \in {cur, Scheduling}
  BY <1>7, <1>10, Zenon
<1>12. due' \in -(Period + 1) .. Period
  BY <1>2, <1>3, DueAfterInRange DEF IInv
<1> QED
  BY <1>1, <1>11, <1>12, GuestFacts, CallInv DEF DelayThread, IInv

LEMMA SleepThreadInv ==
    ASSUME IInv, SleepThread
    PROVE  IInv'
<1>1. InGuest
  BY DEF SleepThread
<1>2. CASE tcb[cur].wakeups > 0
  <2> DEFINE r == [tcb[cur] EXCEPT !.wakeups = tcb[cur].wakeups - 1]
  <2>1. tcb[cur] \in TCB
    BY <1>1, GuestFacts
  <2>2. tcb[cur].wakeups - 1 \in 0 .. MaxWakeups /\ tcb[cur].wakeups # 0
    BY <1>2, <2>1, BankAssumption, SMT DEF TCB
  <2>3. r \in TCB
    BY <2>1, <2>2, Zenon DEF TCB
  <2>4. /\ r.state = tcb[cur].state /\ r.call = tcb[cur].call
        /\ r.wait_obj = tcb[cur].wait_obj /\ r.started = tcb[cur].started
        /\ r.saved = tcb[cur].saved /\ r.sleeping = tcb[cur].sleeping
        /\ r.wake = tcb[cur].wake
    BY <2>1, SMT DEF TCB
  <2>5. tcb' = [tcb EXCEPT ![cur] = r] /\ cur' = cur
    BY <1>2, Zenon DEF SleepThread, CallReturns
  <2> HIDE DEF r
  <2>6. \A tc2 : tc2 = [tcb EXCEPT ![cur] = r] => Good(tc2, ntcb, cur)
    BY <1>1, <2>2, <2>3, <2>4, GuestFacts, QuietGood, Zenon
  <2> QED
    BY <2>5, <2>6, <1>1, GuestFacts, CallInv DEF SleepThread, TimeStands, IInv
<1>3. CASE ~(tcb[cur].wakeups > 0)
  <2>1. tcb[cur].wakeups = 0
    BY <1>1, <1>3, GuestFacts, BankAssumption, SMT DEF TCB
  <2>2. Good([Block(tcb, cur, cur, Never, "sleep") EXCEPT ![cur].sleeping = TRUE],
             ntcb, Scheduling)
    BY <1>1, <2>1, GuestFacts, SleepGood
  <2>3. Good(tcb', ntcb, cur') /\ cur' \in {cur, Scheduling}
    BY <1>3, <2>2, Zenon DEF SleepThread, SwitchAway
  <2> QED
    BY <1>1, <2>3, GuestFacts, CallInv DEF SleepThread, TimeStands, IInv
<1> QED
  BY <1>2, <1>3

LEMMA WakeupThreadInv ==
    ASSUME IInv, NEW u \in Allocated, WakeupThread(u)
    PROVE  IInv'
<1>1. InGuest /\ BankHasRoom(tcb, u)
  BY DEF WakeupThread
<1>2. Good(Wakeup(tcb, u), ntcb, cur)
  BY <1>1, GuestFacts, WakeupGood
<1>3. Wakeup(tcb, u)[cur].call = "guest"
  BY <1>1, GuestFacts, SMT DEF Wakeup, TCB
<1>4. Good(tcb', ntcb, cur') /\ cur' \in {cur, Scheduling}
  BY <1>1, <1>2, <1>3, GuestFacts, PreemptGood DEF WakeupThread
<1> QED
  BY <1>1, <1>4, GuestFacts, CallInv DEF WakeupThread, TimeStands, IInv

LEMMA CancelWakeupInv ==
    ASSUME IInv, NEW u \in Allocated, CancelWakeup(u)
    PROVE  IInv'
<1> DEFINE r == [tcb[u] EXCEPT !.wakeups = 0]
<1>1. InGuest
  BY DEF CancelWakeup
<1>2. u \in Slots /\ tcb[u] \in TCB /\ 0 \in 0 .. MaxWakeups
  BY <1>1, GuestFacts, BankAssumption, SMT
<1>3. r \in TCB
  BY <1>2, Zenon DEF TCB
<1>4. /\ r.state = tcb[u].state /\ r.call = tcb[u].call
      /\ r.wait_obj = tcb[u].wait_obj /\ r.started = tcb[u].started
      /\ r.saved = tcb[u].saved /\ r.sleeping = tcb[u].sleeping /\ r.wakeups = 0
      /\ r.wake = tcb[u].wake
  BY <1>2, SMT DEF TCB
<1>5. tcb' = [tcb EXCEPT ![u] = r] /\ cur' = cur
  BY Zenon DEF CancelWakeup, CallReturns
<1> HIDE DEF r
<1>6. \A tc2 : tc2 = [tcb EXCEPT ![u] = r] => Good(tc2, ntcb, cur)
  BY <1>1, <1>2, <1>3, <1>4, GuestFacts, QuietGood, Zenon
<1> QED
  BY <1>1, <1>5, <1>6, GuestFacts, CallInv DEF CancelWakeup, TimeStands, IInv

LEMMA SetPriorityInv ==
    ASSUME IInv, NEW u \in Allocated, NEW p \in Prios, SetPriority(u, p)
    PROVE  IInv'
<1>1. InGuest
  BY DEF SetPriority
<1>2. Good([tcb EXCEPT ![u].priority = p], ntcb, cur)
  BY <1>1, GuestFacts, PriorityMilder, MilderGood
<1>3. Good(tcb', ntcb, cur') /\ cur' \in {cur, Scheduling}
  BY <1>2, Zenon DEF SetPriority, CallReturns
<1> QED
  BY <1>1, <1>3, GuestFacts, CallInv DEF SetPriority, TimeStands, IInv

LEMMA WaitThreadEndInv ==
    ASSUME IInv, NEW u \in Allocated, WaitThreadEnd(u)
    PROVE  IInv'
<1>1. InGuest /\ tcb[u].state # "DORMANT"
  BY DEF WaitThreadEnd
<1>2. u \in Objs /\ "waitEnd" \in Calls \ {"sleep"} /\ Never \in {Never} \cup Nat
  BY <1>1, GuestFacts, Zenon DEF Objs, Calls
<1>3. Good(Block(tcb, cur, u, Never, "waitEnd"), ntcb, Scheduling)
  BY <1>1, <1>2, GuestFacts, BlockGood
<1>4. Good(tcb', ntcb, cur') /\ cur' \in {cur, Scheduling}
  BY <1>3, Zenon DEF WaitThreadEnd, SwitchAway
<1> QED
  BY <1>1, <1>4, GuestFacts, CallInv DEF WaitThreadEnd, TimeStands, IInv

LEMMA ResumeWaitEndInv ==
    ASSUME IInv, ResumeWaitEnd
    PROVE  IInv'
<1> DEFINE u == tcb[cur].wait_obj
           r == [tcb[cur] EXCEPT !.call = "guest", !.wake = 0, !.wait_obj = NoObj]
<1>1. cur # Scheduling /\ tcb[cur].call = "waitEnd"
  BY DEF ResumeWaitEnd
<1>2. u \in Objs /\ "waitEnd" \in Calls \ {"sleep"} /\ "guest" \in Calls
  BY <1>1, RunningFacts, SMT DEF TCB, Calls
<1>3. CASE tcb[u].state = "DORMANT"
  <2>1. 0 \in Nat /\ NoObj \in Objs /\ tcb[cur] \in TCB
    BY <1>1, RunningFacts, SMT DEF Objs
  <2>2. r \in TCB
    BY <1>2, <2>1, Zenon DEF TCB
  <2>3. /\ r.state = tcb[cur].state /\ r.call = "guest"
        /\ r.started = tcb[cur].started /\ r.saved = tcb[cur].saved /\ r.wake # Never
    BY <2>1, SMT DEF TCB, Never
  <2>4. tcb' = [tcb EXCEPT ![cur] = r] /\ cur' = cur
    BY <1>3, Zenon DEF ResumeWaitEnd, CallReturns
  <2> HIDE DEF r
  <2>5. Fits(tcb, ntcb, cur, cur, r)
    BY <1>1, <2>2, <2>3, RunningFacts, SMT DEF Good, Fits
  <2>6. \A tc2 : tc2 = [tcb EXCEPT ![cur] = r] => Good(tc2, ntcb, cur)
    BY <1>1, <2>5, RunningFacts, SlotGood, Zenon
  <2> QED
    BY <1>1, <2>4, <2>6, RunningFacts, CallInv DEF ResumeWaitEnd, TimeStands, IInv
<1>4. CASE tcb[u].state # "DORMANT"
  <2>1. Never \in {Never} \cup Nat
    OBVIOUS
  <2>2. \A v \in Slots : u = v => tcb[v].state # "DORMANT"
    BY <1>4
  <2>3. Good(Block(tcb, cur, u, Never, "waitEnd"), ntcb, Scheduling)
    BY <1>1, <1>2, <2>1, <2>2, RunningFacts, BlockGood, Zenon
  <2>4. Good(tcb', ntcb, cur') /\ cur' \in {cur, Scheduling}
    BY <1>4, <2>3, Zenon DEF ResumeWaitEnd, SwitchAway
  <2> QED
    BY <1>1, <2>4, RunningFacts, CallInv DEF ResumeWaitEnd, TimeStands, IInv
<1> QED
  BY <1>3, <1>4

LEMMA WaitVblankInv ==
    ASSUME IInv, WaitVblank
    PROVE  IInv'
<1>1. InGuest
  BY DEF WaitVblank
<1>2. CASE tcb[cur].fresh
  <2> DEFINE r == [tcb[cur] EXCEPT !.fresh = FALSE]
  <2>1. tcb[cur] \in TCB
    BY <1>1, GuestFacts
  <2>2. r \in TCB
    BY <2>1, Zenon DEF TCB
  <2>3. /\ r.state = tcb[cur].state /\ r.call = tcb[cur].call
        /\ r.wait_obj = tcb[cur].wait_obj /\ r.started = tcb[cur].started
        /\ r.saved = tcb[cur].saved /\ r.sleeping = tcb[cur].sleeping
        /\ r.wakeups = tcb[cur].wakeups /\ r.wake = tcb[cur].wake
    BY <2>1, SMT DEF TCB
  <2>4. tcb' = [tcb EXCEPT ![cur] = r] /\ cur' = cur
    BY <1>2, Zenon DEF WaitVblank, CallReturns
  <2> HIDE DEF r
  <2>5. \A tc2 : tc2 = [tcb EXCEPT ![cur] = r] => Good(tc2, ntcb, cur)
    BY <1>1, <2>2, <2>3, GuestFacts, QuietGood, Zenon
  <2> QED
    BY <1>1, <2>4, <2>5, GuestFacts, CallInv DEF WaitVblank, TimeStands, IInv
<1>3. CASE ~tcb[cur].fresh
  <2>1. VBLANK \in Objs /\ "vblank" \in Calls \ {"sleep"} /\ Never \in {Never} \cup Nat
    BY Zenon DEF Objs, Calls
  <2>2. Good(Block(tcb, cur, VBLANK, Never, "vblank"), ntcb, Scheduling)
    BY <1>1, <2>1, GuestFacts, BlockGood
  <2>3. Good(tcb', ntcb, cur') /\ cur' \in {cur, Scheduling}
    BY <1>3, <2>2, Zenon DEF WaitVblank, SwitchAway
  <2> QED
    BY <1>1, <2>3, GuestFacts, CallInv DEF WaitVblank, TimeStands, IInv
<1> QED
  BY <1>2, <1>3

LEMMA SetHandlerInv ==
    ASSUME IInv, NEW on \in BOOLEAN, SetHandler(on)
    PROVE  IInv'
<1>1. InGuest
  BY DEF SetHandler
<1>2. Good(tcb', ntcb, cur') /\ cur' \in {cur, Scheduling}
  BY <1>1, GuestFacts, Zenon DEF SetHandler
<1> QED
  BY <1>1, <1>2, GuestFacts, CallInv DEF SetHandler, IInv

LEMMA YieldInv ==
    ASSUME IInv, NEW d \in Elapses, YieldAfter(d)
    PROVE  IInv'
<1> DEFINE overdue == Paced /\ DueAfter(d) <= 0
<1>1. InGuest /\ d \in Nat
  BY ElapsesNat DEF YieldAfter
<1>2. PICK tc \in IF overdue THEN Delivered(Elapse(tcb, d)) ELSE {Elapse(tcb, d)} :
         \/ SwitchAway([tc EXCEPT ![cur].saved = TRUE,
                                  ![cur].state = IF @ = "RUNNING" THEN "READY" ELSE @])
         \/ CallReturns(tc)
  BY Zenon DEF YieldAfter
<1> DEFINE st == IF tc[cur].state = "RUNNING" THEN "READY" ELSE tc[cur].state
           r == [tc[cur] EXCEPT !.saved = TRUE, !.state = st]
<1>3. Good(tc, ntcb, cur) /\ tc[cur].call = "guest"
  <2>1. Milder(tcb, Elapse(tcb, d))
    BY <1>1, GuestFacts, ElapseMilder
  <2>2. Good(Elapse(tcb, d), ntcb, cur) /\ Elapse(tcb, d)[cur].call = "guest"
    BY <1>1, <2>1, GuestFacts, MilderGood DEF Milder
  <2> QED
    BY <1>1, <1>2, <2>2, GuestFacts, DeliveredGood DEF IInv
<1>4. tc[cur] \in TCB
  BY <1>1, <1>3, GuestFacts DEF Good
<1>5. /\ st \in {"DORMANT", "READY", "RUNNING"} \cup Waits
      /\ st # "RUNNING" /\ (st = "DORMANT" => tc[cur].state = "DORMANT")
      /\ st = "WAIT_DELAY" => tc[cur].wake # Never
  BY <1>1, <1>3, <1>4, GuestFacts, SMT DEF TCB, Waits, Good
<1>6. Good(tcb', ntcb, cur') /\ cur' \in {cur, Scheduling}
  <2>1. CASE CallReturns(tc)
    BY <1>3, <2>1, Zenon DEF CallReturns
  <2>2. CASE SwitchAway([tc EXCEPT ![cur].saved = TRUE,
                                   ![cur].state = IF @ = "RUNNING" THEN "READY" ELSE @])
    <3>1. cur' = Scheduling /\ tcb' = [tc EXCEPT ![cur].saved = TRUE, ![cur].state = st]
      BY <2>2, Zenon DEF SwitchAway
    <3>2. tcb' = [tc EXCEPT ![cur] = r]
      BY <3>1, Zenon
    <3> HIDE DEF st
    <3>3. r \in TCB
      BY <1>4, <1>5, Zenon DEF TCB
    <3>4. r.state = st /\ r.saved /\ r.call = "guest" /\ r.wake = tc[cur].wake
      BY <1>3, <1>4, SMT DEF TCB
    <3> HIDE DEF r
    <3>5. \A tc2 : tc2 = [tc EXCEPT ![cur] = r] => Good(tc2, ntcb, Scheduling)
      BY <1>1, <1>3, <1>5, <3>3, <3>4, GuestFacts, ParkedGood, Zenon
    <3> QED
      BY <3>1, <3>2, <3>5, Zenon
  <2> QED
    BY <1>2, <2>1, <2>2
<1>7. due' \in -(Period + 1) .. Period
  <2>1. DueAfter(d) \in -(Period + 1) .. Period
    BY <1>1, DueAfterInRange DEF IInv
  <2>2. overdue => DueAfter(d) \in Int /\ DueAfter(d) <= 0
    BY <2>1, TimeAssumption, SMT
  <2> QED
    BY <2>1, <2>2, NextDueInRange, Zenon DEF YieldAfter
<1> QED
  BY <1>1, <1>6, <1>7, GuestFacts, CallInv DEF YieldAfter, IInv

-----------------------------------------------------------------------------
(* The scheduler's loop.                                                   *)

LEMMA DispatchInv ==
    ASSUME IInv, Dispatch
    PROVE  IInv'
<1>1. PICK t \in Slots : /\ IsNext(Expire(tcb), t)
                         /\ tcb' = Resumed(Expire(tcb), t)
                         /\ cur' = t
  BY Zenon DEF Dispatch
<1>2. cur = Scheduling /\ ~stopped /\ UNCHANGED <<ntcb, due, handler, stopped>>
  BY Zenon DEF Dispatch
<1>3. tcb \in [Slots -> TCB] /\ Good(tcb, ntcb, Scheduling)
  BY <1>2, Zenon DEF IInv, Good
<1>4. Good(Expire(tcb), ntcb, Scheduling)
  BY <1>3, ExpireMilder, MilderGood
<1>5. t \in Allocated /\ t \in 0 .. ntcb - 1
  BY <1>1 DEF IsNext, Allocated
<1>6. Good(Resumed(Expire(tcb), t), ntcb, t)
  BY <1>4, <1>5, ResumedGood
<1>7. Good(tcb', ntcb', cur')
  BY <1>1, <1>2, <1>6, Zenon
<1>8. cur' \in Allocated' \cup {Scheduling} /\ ntcb' \in 1 .. MAXTHREADS
  BY <1>1, <1>2, <1>5, Zenon DEF Allocated, IInv
<1>9. /\ due' \in -(Period + 1) .. Period /\ handler' \in BOOLEAN
      /\ stopped' \in BOOLEAN /\ ~stopped'
  BY <1>2, Zenon DEF IInv
<1> QED
  BY <1>7, <1>8, <1>9, Zenon DEF IInv

(* What a pass of the idle loop has to establish: no thread is resumed.    *)
LEMMA IdleInv ==
    ASSUME IInv, Idle, Good(tcb', ntcb, Scheduling),
           due' \in -(Period + 1) .. Period, stopped' \in BOOLEAN,
           UNCHANGED <<ntcb, cur, handler>>
    PROVE  IInv'
<1>1. cur' = Scheduling
  BY DEF Idle
<1>2. Good(tcb', ntcb', cur') /\ ntcb' \in 1 .. MAXTHREADS /\ handler' \in BOOLEAN
  BY <1>1, Zenon DEF IInv
<1> QED
  BY <1>1, <1>2, Zenon DEF IInv

LEMMA IdleSleepInv ==
    ASSUME IInv, IdleSleep
    PROVE  IInv'
<1>1. PICK d \in Elapses, over \in Elapses, left \in 1 .. Period :
         tcb' = Elapse(tcb, d + left + over) /\ due' = DueAfter(d + left + over)
  BY Zenon DEF IdleSleep
<1>2. d + left + over \in Nat
  BY ElapsesNat, TimeAssumption, SMT
<1>3. Good(tcb, ntcb, Scheduling) /\ tcb \in [Slots -> TCB]
  BY Zenon DEF IInv, IdleSleep, Idle, Good
<1>4. Good(Elapse(tcb, d + left + over), ntcb, Scheduling)
  BY <1>2, <1>3, ElapseMilder, MilderGood
<1>5. due' \in -(Period + 1) .. Period
  BY <1>1, <1>2, DueAfterInRange DEF IInv
<1> QED
  BY <1>1, <1>4, <1>5, IdleInv, Zenon DEF IdleSleep, IInv

LEMMA IdleVblankInv ==
    ASSUME IInv, IdleVblank
    PROVE  IInv'
<1>1. PICK d \in Elapses, over \in Elapses :
         LET du == DueAfter(d)
             tc == Elapse(tcb, d)
         IN /\ \E tc2 \in Delivered(Elapse(tc, FrameWait(du) + over)) : AfterIdleVblank(tc2)
            /\ due' = NextDue((IF du > 0 THEN 0 ELSE du) - over)
  BY Zenon DEF IdleVblank
<1> DEFINE du == DueAfter(d)
           tc == Elapse(Elapse(tcb, d), FrameWait(du) + over)
<1>2. d \in Nat /\ over \in Nat
  BY ElapsesNat
<1>3. du \in -(Period + 1) .. Period
  BY <1>2, DueAfterInRange DEF IInv
<1>4. due' \in -(Period + 1) .. Period
  <2>1. /\ (IF du > 0 THEN 0 ELSE du) - over \in Int
        /\ (IF du > 0 THEN 0 ELSE du) - over <= 0
    BY <1>2, <1>3, TimeAssumption, SMT
  <2> QED
    BY <1>1, <2>1, NextDueInRange, Zenon
<1>5. Good(tc, ntcb, Scheduling)
  <2>1. Good(tcb, ntcb, Scheduling) /\ tcb \in [Slots -> TCB]
    BY Zenon DEF IInv, IdleVblank, Idle, Good
  <2>2. Good(Elapse(tcb, d), ntcb, Scheduling)
    BY <1>2, <2>1, ElapseMilder, MilderGood
  <2>3. FrameWait(du) + over \in Nat
    BY <1>2, <1>3, TimeAssumption, SMT DEF FrameWait
  <2> QED
    BY <2>2, <2>3, ElapseMilder, MilderGood, GoodIsTable
<1>6. PICK tc2 \in Delivered(tc) : AfterIdleVblank(tc2)
  BY <1>1
<1> HIDE DEF tc, du
<1>7. Good(tc2, ntcb, Scheduling) /\ tc2 \in [Slots -> TCB]
  BY <1>5, DeliveredGood, GoodIsTable DEF IInv
<1>8. /\ stopped' \in BOOLEAN
      /\ \/ tcb' = tc2
         \/ \E t \in Allocated : /\ IsSoonest(tc2, tc2[t].wake)
                                 /\ tcb' = Elapse(tc2, tc2[t].wake)
  BY <1>6, Zenon DEF AfterIdleVblank
<1>9. Good(tcb', ntcb, Scheduling)
  <2>1. CASE tcb' = tc2
    BY <1>7, <2>1
  <2>2. ASSUME NEW t \in Allocated, IsSoonest(tc2, tc2[t].wake),
               tcb' = Elapse(tc2, tc2[t].wake)
        PROVE  Good(tcb', ntcb, Scheduling)
    <3>1. tc2[t].wake \in Nat
      BY <1>7, <2>2, AllocatedSlots, SMT DEF IInv, IsSoonest, TCB, Never
    <3>2. Good(Elapse(tc2, tc2[t].wake), ntcb, Scheduling)
      BY <1>7, <3>1, ElapseMilder, MilderGood
    <3> QED
      BY <2>2, <3>2
  <2> QED
    BY <1>8, <2>1, <2>2
<1> QED
  BY <1>4, <1>8, <1>9, IdleInv DEF IdleVblank

-----------------------------------------------------------------------------
LEMMA NextInv == IInv /\ [Next]_vars => IInv'
<1> SUFFICES ASSUME IInv, [Next]_vars PROVE IInv'
  OBVIOUS
<1>1. ASSUME NEW p \in Prios, CreateThread(p) PROVE IInv'
  BY <1>1, CreateThreadInv
<1>2. ASSUME NEW u \in Allocated, StartThread(u) PROVE IInv'
  BY <1>2, StartThreadInv
<1>3. ASSUME NEW u \in Allocated, TerminateThread(u) PROVE IInv'
  BY <1>3, TerminateThreadInv
<1>4. ASSUME NEW u \in Allocated, WakeupThread(u) PROVE IInv'
  BY <1>4, WakeupThreadInv
<1>5. ASSUME NEW u \in Allocated, CancelWakeup(u) PROVE IInv'
  BY <1>5, CancelWakeupInv
<1>6. ASSUME NEW u \in Allocated, WaitThreadEnd(u) PROVE IInv'
  BY <1>6, WaitThreadEndInv
<1>7. ASSUME NEW u \in Allocated, NEW p \in Prios, SetPriority(u, p) PROVE IInv'
  BY <1>7, SetPriorityInv
<1>8. ASSUME NEW usec \in Delays, DelayThread(usec) PROVE IInv'
  BY <1>8, DelayThreadInv
<1>9. CASE ExitThread
  BY <1>9, ExitThreadInv
<1>10. CASE BodyReturns
  BY <1>10, BodyReturnsInv
<1>11. CASE SleepThread
  BY <1>11, SleepThreadInv
<1>12. CASE WaitVblank
  BY <1>12, WaitVblankInv
<1>13. ASSUME NEW on \in BOOLEAN, SetHandler(on) PROVE IInv'
  BY <1>13, SetHandlerInv
<1>14. ASSUME NEW d \in Elapses, YieldAfter(d) PROVE IInv'
  BY <1>14, YieldInv
<1>15. CASE ResumeWaitEnd
  BY <1>15, ResumeWaitEndInv
<1>16. CASE Dispatch
  BY <1>16, DispatchInv
<1>17. CASE IdleSleep
  BY <1>17, IdleSleepInv
<1>18. CASE IdleVblank
  BY <1>18, IdleVblankInv
<1>19. CASE UNCHANGED vars
  BY <1>19, Zenon DEF vars, IInv, Allocated
<1>20. CASE ThreadCall
  BY <1>1, <1>2, <1>3, <1>4, <1>5, <1>6, <1>7, <1>8, <1>9, <1>10, <1>11, <1>12, <1>13,
     <1>14, <1>20, Zenon DEF ThreadCall, Yield
<1> QED
  BY <1>15, <1>16, <1>17, <1>18, <1>19, <1>20, Zenon DEF Next, SchedulerStep, Finished

LEMMA Invariance == Spec => []IInv
  BY InitInv, NextInv, PTL DEF Spec

-----------------------------------------------------------------------------
(* A running thread was started and is neither blocked nor dormant; it is  *)
(* READY, not RUNNING, when it was the target of a start.                  *)
Runs(tc, t) == tc[t].started /\ tc[t].state \in {"RUNNING", "READY"}

RunnerRuns == cur # Scheduling => Runs(tcb, cur)

LEMMA MilderRuns ==
    ASSUME NEW tc, NEW tc2, Milder(tc, tc2), NEW t \in Slots, Runs(tc, t)
    PROVE  Runs(tc2, t)
BY SMT DEF Runs, Milder, Waits

LEMMA WakeupRuns ==
    ASSUME NEW tc \in [Slots -> TCB], NEW u \in Slots, NEW t \in Slots, Runs(tc, t)
    PROVE  Runs(Wakeup(tc, u), t)
BY SMT DEF Runs, Wakeup, TCB

LEMMA DeliveredRuns ==
    ASSUME NEW tc, NEW c, Good(tc, ntcb, c), ntcb \in 1 .. MAXTHREADS, NEW tc2 \in Delivered(tc),
           NEW t \in Slots, Runs(tc, t)
    PROVE  Runs(tc2, t)
<1> DEFINE woken == Wake(Latch(tc), VBLANK)
<1>1. /\ Milder(tc, Latch(tc)) /\ Milder(Latch(tc), woken)
      /\ woken \in [Slots -> TCB]
  BY LatchMilder, WakeMilder, MilderGood, GoodIsTable
<1>2. Runs(woken, t)
  BY <1>1, MilderTrans, MilderRuns
<1> HIDE DEF woken
<1>3. \/ tc2 = woken
      \/ \E u \in Allocated : BankHasRoom(woken, u) /\ tc2 = Wakeup(woken, u)
  BY Zenon DEF Delivered, woken
<1> QED
  BY <1>1, <1>2, <1>3, AllocatedSlots, WakeupRuns

LEMMA PreemptRuns ==
    ASSUME NEW tc, cur # Scheduling, Runs(tc, cur), Preempt(tc)
    PROVE  RunnerRuns'
BY Zenon DEF Preempt, RunnerRuns, Runs

LEMMA NextRuns ==
    ASSUME IInv, RunnerRuns, [Next]_vars
    PROVE  RunnerRuns'
<1>1. CASE cur' = Scheduling
  BY <1>1 DEF RunnerRuns
<1>2. CASE UNCHANGED <<tcb, cur>>
  BY <1>2 DEF RunnerRuns
<1>3. ASSUME InGuest, NEW p \in Prios, CreateThread(p) PROVE RunnerRuns'
  <2>1. cur' = cur /\ tcb'[cur] = tcb[cur]
    <3>1. cur # ntcb /\ cur \in Slots
      BY <1>3, GuestFacts, SMT DEF IInv
    <3> QED
      BY <1>3, <3>1, GuestFacts, SMT DEF CreateThread
  <2> QED
    BY <1>3, <2>1 DEF RunnerRuns, Runs
<1>4. ASSUME InGuest, NEW u \in Allocated,
             StartThread(u) \/ TerminateThread(u) \/ WakeupThread(u)
      PROVE  RunnerRuns'
  <2>1. /\ tcb \in [Slots -> TCB] /\ cur \in Slots /\ u \in Slots /\ Runs(tcb, cur) /\ cur # Scheduling
    BY <1>4, GuestFacts, Zenon DEF RunnerRuns, InGuest
  <2>2. CASE StartThread(u)
    <3>1. Runs(Start(tcb, u), cur)
      BY <2>1, SMT DEF Runs, Start, TCB
    <3> QED
      BY <2>1, <2>2, <3>1, PreemptRuns DEF StartThread
  <2>3. CASE TerminateThread(u) /\ u = cur
    BY <2>3 DEF TerminateThread, SwitchAway, RunnerRuns
  <2>4. CASE TerminateThread(u) /\ u # cur
    <3>1. tcb' = Terminate(tcb, u) /\ cur' = cur
      BY <2>4 DEF TerminateThread, CallReturns
    <3>2. Runs(Terminate(tcb, u), cur)
      BY <2>1, <2>4, SMT DEF Runs, Terminate, Wake, TCB
    <3> QED
      BY <3>1, <3>2 DEF RunnerRuns, Runs
  <2>5. CASE WakeupThread(u)
    BY <2>1, <2>5, WakeupRuns, PreemptRuns DEF WakeupThread
  <2> QED
    BY <1>4, <2>2, <2>3, <2>4, <2>5
<1>5. ASSUME cur # Scheduling, cur' = cur, NEW u \in Slots,
             \/ tcb' = [tcb EXCEPT ![u].wakeups = 0]
             \/ \E p \in Prios : tcb' = [tcb EXCEPT ![u].priority = p]
             \/ tcb' = [tcb EXCEPT ![u].wakeups = @ - 1]
             \/ tcb' = [tcb EXCEPT ![u].fresh = FALSE]
             \/ tcb' = [tcb EXCEPT ![u].call = "guest", ![u].wake = 0, ![u].wait_obj = NoObj]
      PROVE  RunnerRuns'
  <2>1. tcb \in [Slots -> TCB] /\ cur \in Slots /\ Runs(tcb, cur)
    BY <1>5, RunningFacts, Zenon DEF RunnerRuns
  <2>2. tcb'[cur].started = tcb[cur].started /\ tcb'[cur].state = tcb[cur].state
    BY <1>5, <2>1, SMT DEF TCB
  <2> QED
    BY <1>5, <2>1, <2>2, Zenon DEF RunnerRuns, Runs
<1>6. ASSUME InGuest, NEW d \in Elapses, YieldAfter(d), cur' # Scheduling PROVE RunnerRuns'
  <2>1. /\ tcb \in [Slots -> TCB] /\ cur \in Slots /\ Runs(tcb, cur) /\ Good(tcb, ntcb, cur)
        /\ ntcb \in 1 .. MAXTHREADS
    BY <1>6, GuestFacts, Zenon DEF RunnerRuns, InGuest, IInv
  <2>2. Milder(tcb, Elapse(tcb, d)) /\ Good(Elapse(tcb, d), ntcb, cur)
    BY <2>1, ElapsesNat, ElapseMilder, MilderGood
  <2>3. Runs(Elapse(tcb, d), cur)
    BY <2>1, <2>2, MilderRuns
  <2>4. cur' = cur /\ tcb' \in Delivered(Elapse(tcb, d)) \cup {Elapse(tcb, d)}
    BY <1>6, Zenon DEF YieldAfter, SwitchAway, CallReturns
  <2>5. Runs(tcb', cur)
    BY <2>1, <2>2, <2>3, <2>4, DeliveredRuns
  <2> QED
    BY <2>4, <2>5 DEF RunnerRuns, Runs
<1>7. ASSUME Dispatch PROVE RunnerRuns'
  <2>1. PICK t \in Slots : tcb' = Resumed(Expire(tcb), t) /\ cur' = t
    BY <1>7 DEF Dispatch
  <2>2. Expire(tcb) \in [Slots -> TCB]
    BY GoodIsTable, ExpireMilder DEF IInv, Milder
  <2>3. tcb'[t].started /\ tcb'[t].state = "RUNNING"
    BY <2>1, <2>2, SMT DEF Resumed, TCB
  <2> QED
    BY <2>1, <2>3 DEF RunnerRuns, Runs
<1>8. CASE ThreadCall
  <2>1. InGuest
    BY <1>8 DEF ThreadCall, CreateThread, StartThread, TerminateThread, WakeupThread, CancelWakeup,
                WaitThreadEnd, SetPriority, DelayThread, ExitThread, BodyReturns, SleepThread,
                WaitVblank, SetHandler, Yield, YieldAfter
  <2>2. cur # Scheduling /\ cur \in Slots /\ Allocated \subseteq Slots
    BY <2>1, GuestFacts DEF InGuest
  <2>3. ASSUME NEW u \in Allocated, CancelWakeup(u) PROVE RunnerRuns'
    BY <1>5, <2>2, <2>3, Zenon DEF CancelWakeup, CallReturns
  <2>4. ASSUME NEW u \in Allocated, NEW p \in Prios, SetPriority(u, p) PROVE RunnerRuns'
    BY <1>5, <2>2, <2>4, Zenon DEF SetPriority, CallReturns
  <2>5. CASE SleepThread
    BY <1>1, <1>5, <2>2, <2>5, Zenon DEF SleepThread, CallReturns, SwitchAway
  <2>6. CASE WaitVblank
    BY <1>1, <1>5, <2>2, <2>6, Zenon DEF WaitVblank, CallReturns, SwitchAway
  <2>7. CASE ExitThread
    BY <1>1, <2>7, Zenon DEF ExitThread, SwitchAway
  <2>8. CASE BodyReturns
    BY <1>1, <2>8, Zenon DEF BodyReturns, SwitchAway
  <2>9. ASSUME NEW usec \in Delays, DelayThread(usec) PROVE RunnerRuns'
    BY <1>1, <2>9, Zenon DEF DelayThread, SwitchAway
  <2>10. ASSUME NEW u \in Allocated, WaitThreadEnd(u) PROVE RunnerRuns'
    BY <1>1, <2>10, Zenon DEF WaitThreadEnd, SwitchAway
  <2>11. ASSUME NEW on \in BOOLEAN, SetHandler(on) PROVE RunnerRuns'
    BY <1>2, <2>11 DEF SetHandler
  <2>12. CASE Yield
    BY <1>1, <1>6, <2>1, <2>12, Zenon DEF Yield
  <2> QED
    BY <1>3, <1>4, <1>8, <2>1, <2>3, <2>4, <2>5, <2>6, <2>7, <2>8, <2>9, <2>10, <2>11, <2>12,
       Zenon DEF ThreadCall
<1>9. CASE ResumeWaitEnd
  <2>1. cur # Scheduling /\ cur \in Slots
    BY <1>9, RunningFacts DEF ResumeWaitEnd
  <2> QED
    BY <1>1, <1>5, <1>9, <2>1, Zenon DEF ResumeWaitEnd, CallReturns, SwitchAway
<1>10. CASE IdleSleep \/ IdleVblank
  BY <1>1, <1>10, Zenon DEF IdleSleep, IdleVblank, Idle
<1> QED
  BY <1>2, <1>7, <1>8, <1>9, <1>10, Zenon DEF Next, SchedulerStep, Finished, vars

-----------------------------------------------------------------------------
(* A delivered vblank leaves nobody waiting for one, so a second one makes *)
(* ready only a sleeper its handler wakes.                                 *)
LEMMA NoneAwaitsVblank ==
    ASSUME NEW tc, NEW c, Good(tc, ntcb, c), ntcb \in 1 .. MAXTHREADS,
           NEW tc2 \in Delivered(tc), NEW t \in Slots, tc2[t].state = "WAIT_OBJ"
    PROVE  tc2[t].wait_obj # VBLANK
<1> DEFINE woken == Wake(Latch(tc), VBLANK)
<1>1. Milder(tc, Latch(tc)) /\ Latch(tc) \in [Slots -> TCB]
  BY LatchMilder, GoodIsTable DEF Milder
<1>2. woken \in [Slots -> TCB]
  BY <1>1, WakeMilder DEF Milder
<1>3. \A u \in Slots : woken[u].state = "WAIT_OBJ" => woken[u].wait_obj # VBLANK
  BY <1>1, SMT DEF Wake, TCB
<1> HIDE DEF woken
<1>4. \/ tc2 = woken
      \/ \E u \in Allocated : BankHasRoom(woken, u) /\ tc2 = Wakeup(woken, u)
  BY Zenon DEF Delivered, woken
<1>5. ASSUME NEW u \in Slots, tc2 = Wakeup(woken, u) PROVE tc2[t].wait_obj # VBLANK
  BY <1>2, <1>3, <1>5, SMT DEF Wakeup, TCB
<1> QED
  BY <1>3, <1>4, <1>5, AllocatedSlots

LEMMA OnlySleepersWoken ==
    ASSUME NEW tc \in [Slots -> TCB], ntcb \in 1 .. MAXTHREADS,
           \A u \in Allocated : /\ tc[u].state # "READY"
                                /\ tc[u].state = "WAIT_OBJ" => tc[u].wait_obj # VBLANK,
           NEW tc2 \in Delivered(tc), NEW t \in Allocated, tc2[t].state = "READY"
    PROVE  handler /\ Asleep(tc, t)
<1> DEFINE woken == Wake(Latch(tc), VBLANK)
<1>1. Latch(tc) \in [Slots -> TCB] /\ woken \in [Slots -> TCB]
  BY LatchMilder, WakeMilder DEF Milder
<1>2. ASSUME NEW u \in Allocated
      PROVE  /\ woken[u].state # "READY"
             /\ Asleep(woken, u) => Asleep(tc, u)
  <2>1. u \in Slots /\ tc[u] \in TCB
    BY AllocatedSlots
  <2>2. Latch(tc)[u].state = tc[u].state /\ Latch(tc)[u].wait_obj = tc[u].wait_obj
        /\ Latch(tc)[u].sleeping = tc[u].sleeping
    BY <2>1, SMT DEF Latch, TCB
  <2>3. woken[u] = Latch(tc)[u]
    BY <2>1, <2>2, Zenon DEF Wake
  <2> QED
    BY <2>2, <2>3, Zenon DEF Asleep
<1> HIDE DEF woken
<1>3. \/ tc2 = woken
      \/ handler /\ \E u \in Allocated : BankHasRoom(woken, u) /\ tc2 = Wakeup(woken, u)
  BY Zenon DEF Delivered, woken
<1>4. PICK u \in Allocated : handler /\ tc2 = Wakeup(woken, u)
  BY <1>2, <1>3
<1>5. u \in Slots /\ t \in Slots
  BY AllocatedSlots
<1>6. CASE Asleep(woken, u)
  <2>1. t # u => tc2[t].state = woken[t].state
    BY <1>1, <1>4, <1>5, <1>6, SMT DEF Wakeup, TCB
  <2> QED
    BY <1>2, <1>4, <1>6, <2>1
<1>7. CASE ~Asleep(woken, u)
  <2>1. tc2[t].state = woken[t].state
    BY <1>1, <1>4, <1>5, <1>7, SMT DEF Wakeup, TCB
  <2> QED
    BY <1>2, <2>1
<1> QED
  BY <1>6, <1>7

LEMMA NextStopIsFinal ==
    ASSUME IInv, StopIsFinal, [Next]_vars
    PROVE  StopIsFinal'
<1>1. CASE stopped
  <2>1. cur = Scheduling
    BY <1>1 DEF IInv
  <2>2. tcb' = tcb /\ Allocated' = Allocated /\ handler' = handler
    BY <1>1, <2>1, Zenon
       DEF Next, Finished, vars, ThreadCall, InGuest, CreateThread, StartThread, TerminateThread,
           WakeupThread, CancelWakeup, WaitThreadEnd, SetPriority, DelayThread, ExitThread,
           BodyReturns, SleepThread, WaitVblank, SetHandler, Yield, YieldAfter, ResumeWaitEnd,
           SchedulerStep, Dispatch, IdleSleep, IdleVblank, Idle, Allocated
  <2> QED
    BY <1>1, <2>2, Zenon DEF StopIsFinal, NoDeadline, Delivered
<1>2. CASE IdleVblank /\ stopped'
  <2>1. PICK d \in Elapses, over \in Elapses :
           \E tc2 \in Delivered(Elapse(Elapse(tcb, d), FrameWait(DueAfter(d)) + over)) : AfterIdleVblank(tc2)
    BY <1>2, Zenon DEF IdleVblank
  <2> DEFINE wait == FrameWait(DueAfter(d)) + over
             tc == Elapse(Elapse(tcb, d), wait)
  <2>2. wait \in Nat /\ d \in Nat
    BY ElapsesNat, TimeAssumption, DueAfterInRange, SMT DEF FrameWait, IInv
  <2> HIDE DEF wait
  <2>3. tcb \in [Slots -> TCB] /\ Good(tcb, ntcb, Scheduling) /\ ntcb \in 1 .. MAXTHREADS
    BY <1>2, GoodIsTable DEF IInv, IdleVblank, Idle
  <2>4. Good(Elapse(tcb, d), ntcb, Scheduling) /\ Elapse(tcb, d) \in [Slots -> TCB]
    BY <2>2, <2>3, ElapseMilder, MilderGood, GoodIsTable
  <2>5. Good(tc, ntcb, Scheduling)
    BY <2>2, <2>4, ElapseMilder, MilderGood
  <2>6. PICK tc2 \in Delivered(tc) : AfterIdleVblank(tc2)
    BY <2>1 DEF wait
  <2> HIDE DEF tc
  <2>7. Good(tc2, ntcb, Scheduling) /\ tc2 \in [Slots -> TCB]
    BY <2>3, <2>5, <2>6, DeliveredGood, GoodIsTable
  <2>8. NothingReady(Expire(tc2)) /\ NoDeadline(tc2) /\ tcb' = tc2
    BY <1>2, <2>6, Zenon DEF AfterIdleVblank
  <2>9. ASSUME NEW t \in Allocated
        PROVE  /\ tc2[t].state # "READY"
               /\ tc2[t].state = "WAIT_OBJ" => tc2[t].wait_obj # VBLANK
    <3>1. t \in Slots /\ tc2[t] \in TCB
      BY <2>3, <2>7, AllocatedSlots
    <3>2. tc2[t].state # "READY"
      <4>1. Expire(tc2)[t].state # "READY"
        BY <2>8, Zenon DEF NothingReady
      <4>2. CASE Expired(tc2, t)
        BY <4>2, Zenon DEF Expired, Waiting, Waits
      <4>3. CASE ~Expired(tc2, t)
        BY <3>1, <4>1, <4>3, Zenon DEF Expire
      <4> QED
        BY <4>2, <4>3
    <3> QED
      BY <2>3, <2>5, <2>6, <3>1, <3>2, NoneAwaitsVblank
  <2>10. ASSUME NEW tc3 \in Delivered(tc2), NEW t \in Allocated, tc3[t].state = "READY"
         PROVE  handler /\ Asleep(tc2, t)
    BY <2>3, <2>7, <2>9, <2>10, OnlySleepersWoken
  <2>11. Allocated' = Allocated /\ handler' = handler
    BY <1>2 DEF IdleVblank, Allocated
  <2> QED
    BY <2>8, <2>10, <2>11, Zenon DEF StopIsFinal, Delivered, NoDeadline
<1>3. CASE ~stopped' 
  BY <1>3 DEF StopIsFinal
<1>4. stopped' => stopped \/ IdleVblank
  BY Zenon DEF Next, Finished, vars, ThreadCall, TimeStands, CreateThread, StartThread, TerminateThread,
           WakeupThread, CancelWakeup, WaitThreadEnd, SetPriority, DelayThread, ExitThread,
           BodyReturns, SleepThread, WaitVblank, SetHandler, Yield, YieldAfter, ResumeWaitEnd,
           SchedulerStep, Dispatch, IdleSleep
<1> QED
  BY <1>1, <1>2, <1>3, <1>4

-----------------------------------------------------------------------------
(* A wait that neither a wakeup, nor the end of a thread, nor a vblank can  *)
(* end: a delay, or a wait for one of objs, none of them a thread or the    *)
(* vblank.                                                                  *)
Held(objs, tc, t) ==
    \/ tc[t].state = "WAIT_DELAY"
    \/ tc[t].state = "WAIT_OBJ" /\ tc[t].wait_obj \in objs

Holds(objs, tc, tc2) == \A t \in Slots : Held(objs, tc, t) => Held(objs, tc2, t)

NoThreads(objs) == objs \cap (Slots \cup {VBLANK}) = {}

LEMMA HoldsTrans ==
    ASSUME NEW objs, NEW a, NEW b, NEW c, Holds(objs, a, b), Holds(objs, b, c)
    PROVE  Holds(objs, a, c)
BY Zenon DEF Holds

LEMMA SlotHolds ==
    ASSUME NEW objs, NEW tc, NEW tc2, NEW u, ~Held(objs, tc, u),
           \A t \in Slots \ {u} : tc2[t] = tc[t]
    PROVE  Holds(objs, tc, tc2)
BY Zenon DEF Holds, Held

LEMMA ElapseHolds ==
    ASSUME NEW objs, NEW tc \in [Slots -> TCB], NEW d
    PROVE  Holds(objs, tc, Elapse(tc, d))
BY SMT DEF Holds, Held, Elapse, TCB

LEMMA WakeHolds ==
    ASSUME NEW objs, NEW tc \in [Slots -> TCB], NEW o, o \notin objs
    PROVE  Holds(objs, tc, Wake(tc, o))
BY SMT DEF Holds, Held, Wake, TCB

LEMMA LatchHolds ==
    ASSUME NEW objs, NEW tc \in [Slots -> TCB]
    PROVE  Holds(objs, tc, Latch(tc))
BY SMT DEF Holds, Held, Latch, TCB

LEMMA WakeupHolds ==
    ASSUME NEW objs, NoThreads(objs), NEW tc \in [Slots -> TCB], NEW u \in Slots
    PROVE  Holds(objs, tc, Wakeup(tc, u))
<1>1. u \notin objs
  BY Zenon DEF NoThreads
<1> QED
  BY <1>1, SMT DEF Holds, Held, Wakeup, Asleep, TCB

LEMMA DeliveredHolds ==
    ASSUME NEW objs, NoThreads(objs), NEW tc, NEW c, Good(tc, ntcb, c), ntcb \in 1 .. MAXTHREADS,
           NEW tc2 \in Delivered(tc)
    PROVE  Holds(objs, tc, tc2)
<1> DEFINE woken == Wake(Latch(tc), VBLANK)
<1>1. Milder(tc, Latch(tc)) /\ Milder(Latch(tc), woken)
  BY LatchMilder, WakeMilder, GoodIsTable, MilderGood
<1>2. /\ tc \in [Slots -> TCB] /\ Latch(tc) \in [Slots -> TCB] /\ woken \in [Slots -> TCB]
      /\ VBLANK \notin objs
  BY <1>1, GoodIsTable, Zenon DEF Milder, NoThreads
<1>3. Holds(objs, tc, woken)
  BY <1>2, LatchHolds, WakeHolds, HoldsTrans
<1> HIDE DEF woken
<1>4. \/ tc2 = woken
      \/ \E u \in Allocated : BankHasRoom(woken, u) /\ tc2 = Wakeup(woken, u)
  BY Zenon DEF Delivered, woken
<1> QED
  BY <1>2, <1>3, <1>4, AllocatedSlots, WakeupHolds, HoldsTrans

LEMMA PreemptHolds ==
    ASSUME NEW objs, NEW tc \in [Slots -> TCB], Runs(tc, cur), Preempt(tc)
    PROVE  Holds(objs, tc, tcb')
<1>1. ~Held(objs, tc, cur)
  BY Zenon DEF Runs, Held
<1>2. \A t \in Slots \ {cur} : tcb'[t] = tc[t]
  BY SMT DEF Preempt, TCB
<1> QED
  BY <1>1, <1>2, SlotHolds

(* Before its deadline such a wait is over only by a sceKernelStartThread   *)
(* aimed at the thread; or the thread is ended.                             *)
LEMMA NextHolds ==
    ASSUME IInv, RunnerRuns, [Next]_vars, NEW objs, NoThreads(objs),
           NEW t \in Allocated, Held(objs, tcb, t), tcb[t].wake # 0, tcb'[t].state = "READY"
    PROVE  StartThread(t)
<1> DEFINE Kept == Holds(objs, tcb, tcb')
<1>1. /\ t \in Slots /\ ntcb \in 1 .. MAXTHREADS
      /\ Good(tcb, ntcb, cur) /\ tcb \in [Slots -> TCB]
  BY AllocatedSlots, GoodIsTable DEF IInv
<1>2. ~Held(objs, tcb', t)
  BY Zenon DEF Held
<1>3. ~Kept
  BY <1>1, <1>2, Zenon DEF Holds
<1>4. ASSUME UNCHANGED tcb PROVE FALSE
  BY <1>3, <1>4 DEF Holds
<1>5. ASSUME cur # Scheduling
      PROVE  cur \in Slots /\ Runs(tcb, cur) /\ ~Held(objs, tcb, cur)
  BY <1>5, RunningFacts, Zenon DEF RunnerRuns, Runs, Held
<1>6. ASSUME cur # Scheduling, \A u \in Slots \ {cur} : tcb'[u] = tcb[u]
      PROVE  FALSE
  BY <1>3, <1>5, <1>6, SlotHolds
<1>7. ASSUME InGuest, NEW p \in Prios, CreateThread(p) PROVE FALSE
  <2>1. ntcb \in Slots /\ t # ntcb
    <3>1. ntcb \in Int /\ ntcb < MAXTHREADS /\ 0 < ntcb /\ MAXTHREADS \in Int
      BY <1>1, <1>7, TableAssumption, SMT DEF CreateThread
    <3>2. t \in 0 .. ntcb - 1
      BY DEF Allocated
    <3> QED
      BY <3>1, <3>2, SMT DEF Slots
  <2>2. tcb'[t] = tcb[t]
    BY <1>1, <1>7, <2>1, SMT DEF CreateThread
  <2> QED
    BY <1>2, <2>2, Zenon DEF Held
<1>8. ASSUME InGuest, NEW u \in Allocated, StartThread(u) PROVE u = t
  <2>1. SUFFICES ASSUME u # t PROVE FALSE
    OBVIOUS
  <2>2. cur # Scheduling /\ u \in Slots
    BY <1>8, AllocatedSlots DEF InGuest, IInv
  <2>3. Runs(Start(tcb, u), cur) /\ Start(tcb, u)[t] = tcb[t] /\ Start(tcb, u) \in [Slots -> TCB]
    <3>1. Good(Start(tcb, u), ntcb, cur)
      BY <1>1, <1>8, <2>2, StartGood DEF Allocated
    <3> QED
      BY <1>1, <1>5, <2>1, <2>2, <3>1, GoodIsTable, SMT DEF Runs, Start, TCB
  <2>4. Holds(objs, Start(tcb, u), tcb')
    BY <1>8, <2>3, PreemptHolds DEF StartThread
  <2> QED
    BY <1>1, <1>2, <2>3, <2>4, Zenon DEF Holds, Held
<1>9. ASSUME InGuest, NEW u \in Allocated, TerminateThread(u), u # cur PROVE FALSE
  <2>1. u \in Slots /\ u \notin objs /\ tcb' = Terminate(tcb, u)
    BY <1>9, AllocatedSlots, Zenon DEF IInv, TerminateThread, CallReturns, NoThreads
  <2> QED
    BY <1>1, <2>1, SMT DEF Held, Terminate, Wake, TCB
<1>10. ASSUME InGuest, tcb' = Exit(tcb, cur) PROVE FALSE
  <2>1. cur \in Slots /\ cur \notin objs /\ t # cur
    BY <1>5, <1>10, Zenon DEF InGuest, NoThreads
  <2> QED
    BY <1>1, <1>10, <2>1, SMT DEF Held, Exit, Wake, TCB
<1>11. ASSUME InGuest, NEW u \in Allocated, WakeupThread(u) PROVE FALSE
  <2>1. cur # Scheduling /\ u \in Slots
    BY <1>11, AllocatedSlots DEF InGuest, IInv
  <2>2. Runs(Wakeup(tcb, u), cur)
    BY <1>1, <1>5, <2>1, WakeupRuns
  <2>3. Wakeup(tcb, u) \in [Slots -> TCB]
    BY <1>1, <1>11, <2>1, WakeupGood, GoodIsTable DEF WakeupThread, Allocated
  <2>4. Holds(objs, tcb, Wakeup(tcb, u)) /\ Holds(objs, Wakeup(tcb, u), tcb')
    BY <1>1, <1>11, <2>1, <2>2, <2>3, WakeupHolds, PreemptHolds DEF WakeupThread
  <2> QED
    BY <1>3, <2>4, HoldsTrans
<1>12. ASSUME NEW u \in Slots,
              \/ tcb' = [tcb EXCEPT ![u].wakeups = 0]
              \/ \E p \in Prios : tcb' = [tcb EXCEPT ![u].priority = p]
       PROVE  FALSE
  BY <1>1, <1>12, SMT DEF Held, TCB
<1>13. ASSUME InGuest, NEW usec \in Delays, DelayThread(usec) PROVE FALSE
  <2>1. PICK d \in Elapses :
           tcb' = [Elapse(tcb, d) EXCEPT ![cur] =
                      [@ EXCEPT !.state = "WAIT_DELAY", !.wake = usec, !.saved = TRUE]]
    BY <1>13, Zenon DEF DelayThread, SwitchAway
  <2>2. cur # t /\ tcb'[t] = Elapse(tcb, d)[t]
    <3>1. cur # t
      BY <1>5, <1>13, Zenon DEF InGuest
    <3> QED
      BY <1>1, <2>1, <3>1, SMT DEF Elapse
  <2> QED
    BY <1>1, <1>2, <2>2, ElapseHolds, Zenon DEF Holds, Held
<1>14. ASSUME InGuest, NEW d \in Elapses, YieldAfter(d) PROVE FALSE
  <2>1. /\ Good(Elapse(tcb, d), ntcb, cur) /\ Holds(objs, tcb, Elapse(tcb, d))
        /\ Runs(Elapse(tcb, d), cur) /\ cur # Scheduling /\ cur \in Slots
    BY <1>1, <1>5, <1>14, ElapsesNat, ElapseMilder, MilderGood, ElapseHolds, MilderRuns DEF InGuest
  <2>2. PICK tc \in Delivered(Elapse(tcb, d)) \cup {Elapse(tcb, d)} :
           \/ tcb' = tc
           \/ tcb' = [tc EXCEPT ![cur].saved = TRUE,
                                ![cur].state = IF @ = "RUNNING" THEN "READY" ELSE @]
    BY <1>14, Zenon DEF YieldAfter, SwitchAway, CallReturns
  <2>3. Holds(objs, tcb, tc) /\ Runs(tc, cur) /\ tc \in [Slots -> TCB]
    BY <1>1, <2>1, <2>2, DeliveredHolds, HoldsTrans, DeliveredRuns, DeliveredGood, GoodIsTable
  <2>4. ~Held(objs, tc, cur)
    BY <2>3, Zenon DEF Runs, Held
  <2>5. \A u \in Slots \ {cur} : tcb'[u] = tc[u]
    BY <2>1, <2>2, <2>3, SMT
  <2> QED
    BY <1>3, <2>3, <2>4, <2>5, SlotHolds, HoldsTrans
<1>15. ASSUME Dispatch PROVE FALSE
  <2>1. PICK u \in Slots : IsNext(Expire(tcb), u) /\ tcb' = Resumed(Expire(tcb), u)
    BY <1>15, Zenon DEF Dispatch
  <2>2. Expire(tcb)[t] = tcb[t] /\ Expire(tcb) \in [Slots -> TCB]
    BY <1>1, ExpireMilder DEF Expire, Expired, Milder
  <2>3. u # t
    BY <2>1, <2>2, Zenon DEF IsNext, Held
  <2>4. tcb'[t] = tcb[t]
    BY <1>1, <2>1, <2>2, <2>3, SMT DEF Resumed
  <2> QED
    BY <1>2, <2>4, Zenon DEF Held
<1>16. ASSUME IdleSleep PROVE FALSE
  <2>1. PICK d : tcb' = Elapse(tcb, d)
    BY <1>16, Zenon DEF IdleSleep
  <2> QED
    BY <1>1, <1>3, <2>1, ElapseHolds
<1>17. ASSUME IdleVblank PROVE FALSE
  <2>1. PICK d \in Elapses, over \in Elapses :
           \E tc2 \in Delivered(Elapse(Elapse(tcb, d), FrameWait(DueAfter(d)) + over)) : AfterIdleVblank(tc2)
    BY <1>17, Zenon DEF IdleVblank
  <2> DEFINE wait == FrameWait(DueAfter(d)) + over
             tc == Elapse(Elapse(tcb, d), wait)
  <2>2. wait \in Nat /\ d \in Nat
    BY ElapsesNat, TimeAssumption, DueAfterInRange, SMT DEF FrameWait, IInv
  <2> HIDE DEF wait
  <2>3. /\ Good(Elapse(tcb, d), ntcb, cur) /\ Elapse(tcb, d) \in [Slots -> TCB]
        /\ Holds(objs, tcb, Elapse(tcb, d))
    BY <1>1, <2>2, ElapseMilder, MilderGood, GoodIsTable, ElapseHolds
  <2>4. Good(tc, ntcb, cur) /\ Holds(objs, tcb, tc)
    BY <2>2, <2>3, ElapseMilder, MilderGood, ElapseHolds, HoldsTrans
  <2>5. PICK tc2 \in Delivered(tc) : AfterIdleVblank(tc2)
    BY <2>1 DEF wait
  <2> HIDE DEF tc
  <2>6. Good(tc2, ntcb, cur) /\ tc2 \in [Slots -> TCB] /\ Holds(objs, tcb, tc2)
    <3>1. cur = Scheduling
      BY <1>17 DEF IdleVblank, Idle
    <3> QED
      BY <1>1, <2>4, <2>5, <3>1, DeliveredGood, GoodIsTable, DeliveredHolds, HoldsTrans
  <2>7. tcb' = tc2 \/ \E left : tcb' = Elapse(tc2, left)
    BY <2>5, Zenon DEF AfterIdleVblank
  <2> QED
    BY <1>3, <2>6, <2>7, ElapseHolds, HoldsTrans
<1>18. CASE ThreadCall
  <2>1. InGuest /\ cur # Scheduling /\ cur \in Slots /\ Allocated \subseteq Slots
    <3>1. InGuest
      BY <1>18 DEF ThreadCall, CreateThread, StartThread, TerminateThread, WakeupThread, CancelWakeup,
                WaitThreadEnd, SetPriority, DelayThread, ExitThread, BodyReturns, SleepThread,
                WaitVblank, SetHandler, Yield, YieldAfter
    <3> QED
      BY <3>1, GuestFacts DEF InGuest
  <2>2. ASSUME NEW obj, NEW left, NEW call, tcb' = Block(tcb, cur, obj, left, call) PROVE FALSE
    BY <1>6, <2>1, <2>2, SMT DEF Block
  <2>3. CASE SleepThread
    <3>1. \A u \in Slots \ {cur} : tcb'[u] = tcb[u]
      BY <1>1, <2>1, <2>3, SMT DEF SleepThread, Block, CallReturns, SwitchAway
    <3> QED
      BY <1>6, <2>1, <3>1
  <2>4. CASE WaitVblank
    <3>1. \A u \in Slots \ {cur} : tcb'[u] = tcb[u]
      BY <1>1, <2>1, <2>4, SMT DEF WaitVblank, Block, CallReturns, SwitchAway
    <3> QED
      BY <1>6, <2>1, <3>1
  <2>5. CASE BodyReturns
    <3>1. \A u \in Slots \ {cur} : tcb'[u] = tcb[u]
      BY <1>1, <2>1, <2>5, SMT DEF BodyReturns, SwitchAway
    <3> QED
      BY <1>6, <2>1, <3>1
  <2>6. CASE ExitThread
    BY <1>10, <2>1, <2>6, Zenon DEF ExitThread, SwitchAway
  <2>7. ASSUME NEW u \in Allocated, TerminateThread(u) PROVE FALSE
    BY <1>9, <1>10, <2>1, <2>7, Zenon DEF TerminateThread, SwitchAway
  <2>8. ASSUME NEW u \in Allocated, CancelWakeup(u) PROVE FALSE
    BY <1>12, <2>1, <2>8, Zenon DEF CancelWakeup, CallReturns
  <2>9. ASSUME NEW u \in Allocated, NEW p \in Prios, SetPriority(u, p) PROVE FALSE
    BY <1>12, <2>1, <2>9, Zenon DEF SetPriority, CallReturns
  <2>10. ASSUME NEW u \in Allocated, WaitThreadEnd(u) PROVE FALSE
    BY <2>2, <2>10, Zenon DEF WaitThreadEnd, SwitchAway
  <2>11. ASSUME NEW on \in BOOLEAN, SetHandler(on) PROVE FALSE
    BY <1>4, <2>11 DEF SetHandler
  <2>12. ~Yield
    BY <1>14, <2>1, Zenon DEF Yield
  <2> QED
    BY <1>7, <1>8, <1>11, <1>13, <1>18, <2>1, <2>3, <2>4, <2>5, <2>6, <2>7, <2>8, <2>9, <2>10,
       <2>11, <2>12, Zenon DEF ThreadCall
<1>19. CASE ResumeWaitEnd
  <2>1. cur # Scheduling /\ cur \in Slots
    BY <1>5, <1>19 DEF ResumeWaitEnd
  <2>2. \A u \in Slots \ {cur} : tcb'[u] = tcb[u]
    BY <1>1, <1>19, <2>1, SMT DEF ResumeWaitEnd, Block, CallReturns, SwitchAway
  <2> QED
    BY <1>6, <2>1, <2>2
<1> QED
  BY <1>4, <1>15, <1>16, <1>17, <1>18, <1>19, Zenon DEF Next, SchedulerStep, Finished, vars

-----------------------------------------------------------------------------
(* The variables keep their types: no index leaves the thread table, no    *)
(* banked wakeup leaves its bound, whatever the constants.                 *)
THEOREM TypeCorrect == Spec => []TypeOK
<1>1. IInv => TypeOK
  BY Zenon DEF IInv, TypeOK, Good
<1> QED
  BY <1>1, Invariance, PTL

(* At most one thread runs, and it is the one s_cur names.                 *)
THEOREM MutualExclusion == Spec => []OneRunning
<1>1. IInv => OneRunning
  BY Zenon DEF IInv, OneRunning, Good
<1> QED
  BY <1>1, Invariance, PTL

(* No thread is switched away from before its registers are saved.         *)
THEOREM RegistersSaved == Spec => []ParkedIsSaved
<1>1. IInv => ParkedIsSaved
  BY AllocatedSlots, Zenon DEF IInv, ParkedIsSaved, Good
<1> QED
  BY <1>1, Invariance, PTL

(* No wakeup is lost: a sleeping thread has none banked.                   *)
THEOREM WakeupsKept == Spec => []SleeperHasNoWakeup
<1>1. IInv => SleeperHasNoWakeup
  BY AllocatedSlots, Zenon DEF IInv, SleeperHasNoWakeup, Good, Asleep
<1> QED
  BY <1>1, Invariance, PTL

(* Only a thread whose entry function returned leaves threads waiting for  *)
(* its end.                                                                *)
THEOREM EndReleases == Spec => []StrandedOnlyByReturn
<1>1. IInv => StrandedOnlyByReturn
  BY AllocatedSlots, Zenon DEF IInv, StrandedOnlyByReturn, AwaitsEndOf, Good
<1> QED
  BY <1>1, Invariance, PTL

(* When the loop of sched_run returns, no thread can run again by itself.  *)
THEOREM StopsForGood == Spec => []StopIsFinal
<1>1. Init => StopIsFinal
  BY Zenon DEF Init, StopIsFinal
<1> QED
  BY <1>1, Invariance, NextStopIsFinal, PTL DEF Spec

(* A delay is not cut short: only a sceKernelStartThread aimed at it ends   *)
(* it before its deadline.                                                 *)
THEOREM DelaysRunTheirTime == Spec => DelayNotCutShort
<1>1. ASSUME IInv, RunnerRuns, [Next]_vars,
             NEW t \in Allocated, tcb[t].state = "WAIT_DELAY", tcb[t].wake > 0, tcb'[t].state = "READY"
      PROVE  StartThread(t)
  <2>1. NoThreads({}) /\ Held({}, tcb, t)
    BY <1>1, Zenon DEF NoThreads, Held
  <2>2. tcb[t].wake # 0
    BY <1>1, SMT
  <2> QED
    BY <1>1, <2>1, <2>2, NextHolds
<1>2. Init => RunnerRuns
  BY DEF Init, RunnerRuns
<1>3. IInv /\ RunnerRuns /\ [Next]_vars
      => [\A t \in Allocated :
            /\ tcb[t].state = "WAIT_DELAY" /\ tcb[t].wake > 0
            /\ tcb'[t].state = "READY"
            => StartThread(t)]_vars
  BY <1>1, Zenon
<1> QED
  BY <1>2, <1>3, Invariance, NextRuns, PTL DEF Spec, DelayNotCutShort
=============================================================================
