------------------------------ MODULE CtrlRing ------------------------------
(***************************************************************************)
(* Controller input, hle.c: the vblank interrupt latches one sample of the *)
(* pad into a ring, sr_ctrl_sample, and the guest's threads drain it,      *)
(* ctrl_fill_n.  A read that consumes parks its thread until a sample      *)
(* comes; a peek does not.                                                 *)
(*                                                                         *)
(* The scheduler is reduced to what the readers see of it: a woken thread  *)
(* runs some time later, after any other thread and any vblank.  The cell  *)
(* i before s_ctrl_w always holds the sample of i + 1 samples ago, so the  *)
(* ring's contents are not modelled, only its two indices; `behind' counts *)
(* the samples really latched since the last consuming read, up to         *)
(* CTRL_RING, for the properties.                                          *)
(***************************************************************************)
EXTENDS Integers

CONSTANTS
    CTRL_RING,     \* entries of the ring, 64
    Readers,       \* threads that read the pad
    Wakes          \* wakes a blocking read waits for at most, 4

ASSUME RingAssumption ==
    /\ CTRL_RING \in Nat \ {0, 1}
    /\ Wakes \in Nat \ {0}

VARIABLES
    ctrlW, ctrlR,   \* s_ctrl_w, s_ctrl_r
    unreadSamples,  \* samples latched since the last consuming read
    vblHandler,     \* a vblank handler is registered and enabled
    reader,         \* "idle", or a read's state: "blocked" or woken and "ready"
    wakesLeft,      \* the wakes it may still wait for
    vblParity       \* s_vbl_count modulo 2

ctrlVars == <<ctrlW, ctrlR, unreadSamples, vblHandler, reader, wakesLeft, vblParity>>

Avail == (ctrlW - ctrlR + CTRL_RING) % CTRL_RING

(* One sample is there to be read when the program starts.                 *)
CtrlInit ==
    /\ ctrlW = 1 /\ ctrlR = 0 /\ unreadSamples = 1
    /\ vblHandler = FALSE
    /\ reader = [t \in Readers |-> "idle"]
    /\ wakesLeft = [t \in Readers |-> 0]
    /\ vblParity = 0

-----------------------------------------------------------------------------
(* sr_ctrl_sample: the oldest unread sample gives way when the ring is     *)
(* full, and every parked reader is woken.                                 *)
ReadIndexKept(nw) == ctrlR         \* variant: the overflow is not noticed

ReadIndex(nw) == IF nw = ctrlR THEN (ctrlR + 1) % CTRL_RING ELSE ctrlR

WakenNobody == reader           \* variant: no sched_wake

Waken == [t \in Readers |-> IF reader[t] = "blocked" THEN "ready" ELSE reader[t]]

LatchSample ==
    /\ ctrlW' = (ctrlW + 1) % CTRL_RING
    /\ ctrlR' = ReadIndex((ctrlW + 1) % CTRL_RING)
    /\ unreadSamples' = IF unreadSamples < CTRL_RING THEN unreadSamples + 1 ELSE unreadSamples
    /\ reader' = Waken

(* deliver_vblank leaves before sr_vblank_tick when there is no handler.   *)
VblankLatch ==
    /\ IF vblHandler THEN LatchSample ELSE UNCHANGED <<ctrlW, ctrlR, unreadSamples, reader>>
    /\ vblParity' = 1 - vblParity
    /\ UNCHANGED <<vblHandler, wakesLeft>>

SetVblankHandler(on) == vblHandler' = on /\ UNCHANGED <<ctrlW, ctrlR, unreadSamples, reader, wakesLeft, vblParity>>

-----------------------------------------------------------------------------
(* ctrl_fill_n with peek = 0: whatever number of samples the caller asked  *)
(* for, all are consumed.  A peek changes nothing.                         *)
ConsumeSamples(t) ==
    /\ ctrlR' = ctrlW /\ unreadSamples' = 0
    /\ reader' = [reader EXCEPT ![t] = "idle"]
    /\ wakesLeft' = [wakesLeft EXCEPT ![t] = 0]
    /\ UNCHANGED <<ctrlW, vblHandler, vblParity>>

(* The thread parks with `left' wakes to go.                               *)
ParkReader(t, left) ==
    /\ reader' = [reader EXCEPT ![t] = "blocked"]
    /\ wakesLeft' = [wakesLeft EXCEPT ![t] = left]
    /\ UNCHANGED <<ctrlW, ctrlR, unreadSamples, vblHandler, vblParity>>

ReadBuffer(t) ==
    /\ reader[t] = "idle"
    /\ IF Avail = 0 THEN ParkReader(t, Wakes - 1) ELSE ConsumeSamples(t)

(* Back from sched_block_on: the sample may have gone to another reader,   *)
(* and after the last wake the read makes do with an old one.              *)
ResumeRead(t) ==
    /\ reader[t] = "ready"
    /\ IF Avail = 0 /\ wakesLeft[t] > 0 THEN ParkReader(t, wakesLeft[t] - 1) ELSE ConsumeSamples(t)

CtrlNext ==
    \/ VblankLatch
    \/ \E on \in BOOLEAN : SetVblankHandler(on)
    \/ \E t \in Readers : ReadBuffer(t) \/ ResumeRead(t)

CtrlSpec == CtrlInit /\ [][CtrlNext]_ctrlVars

(* Vblanks are delivered for ever, and a woken thread runs eventually.     *)
FairCtrlSpec == CtrlSpec /\ WF_ctrlVars(VblankLatch) /\ \A t \in Readers : WF_ctrlVars(ResumeRead(t))

-----------------------------------------------------------------------------
CtrlTypeOK ==
    /\ ctrlW \in 0 .. CTRL_RING - 1 /\ ctrlR \in 0 .. CTRL_RING - 1
    /\ unreadSamples \in 0 .. CTRL_RING
    /\ vblHandler \in BOOLEAN
    /\ reader \in [Readers -> {"idle", "blocked", "ready"}]
    /\ wakesLeft \in [Readers -> 0 .. Wakes - 1]
    /\ vblParity \in {0, 1}

(* The ring counts right: the samples it offers are exactly those latched  *)
(* since the last consuming read, but for the oldest ones of a ring that   *)
(* overflowed.  In particular a full ring never looks empty.               *)
CountsUnread == Avail = IF unreadSamples < CTRL_RING THEN unreadSamples ELSE CTRL_RING - 1

(* A reader parks only while there is nothing to read, and a sample        *)
(* latched while it is parked finds it.                                    *)
ParkedOnlyWhenEmpty == \A t \in Readers : reader[t] = "blocked" => Avail = 0

(* While the interrupt handler stays registered a blocking read returns,   *)
(* even when other readers take every sample before it runs: hle.c:1196    *)
(* bounds the number of wakes.                                             *)
ReadReturns == \A t \in Readers : reader[t] = "blocked" ~> reader[t] = "idle" \/ ~vblHandler
=============================================================================
