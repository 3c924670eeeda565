----------------------------- MODULE GuestCalls -----------------------------
(***************************************************************************)
(* Calls from the runtime back into the game: the finish callback of a     *)
(* display list (ge_call_guest, hle.c) and the fill callback of the movie  *)
(* ring (call_guest3, mpeg.c), which are the same.  There is one register  *)
(* file; the caller's copy of it is a local variable on the thread's own   *)
(* host stack, and the callback may make calls that end in another         *)
(* callback, or give way to another thread, which may do the same.         *)
(*                                                                         *)
(* Registers are represented by the activation they belong to: a thread    *)
(* and the number of callbacks it is inside.  The scheduler is that of     *)
(* module Scheduler, reduced to the switch of threads.                     *)
(***************************************************************************)
EXTENDS Integers, Sequences, SequencesExt

CONSTANTS
    Threads,
    CBSLOTS,        \* size of s_ge_cb
    MaxDepth        \* bound: callbacks inside one another on one thread

ASSUME GuestCallsAssumption ==
    /\ Threads # {}
    /\ CBSLOTS \in Nat /\ MaxDepth \in Nat

VARIABLES
    registers,        \* the activation whose registers are loaded
    runs,    \* the thread with the processor
    saved,      \* the registers in each thread's control block
    frames,     \* for each thread, what its pending calls into the game hold
    hooks       \* s_ge_cb in use: whether each slot has a finish function

callVars == <<registers, runs, saved, frames, hooks>>

Activation(t, depth) == [thread |-> t, depth |-> depth]

CallsInit ==
    /\ runs = CHOOSE t \in Threads : TRUE
    /\ registers = Activation(runs, 0)
    /\ saved = [t \in Threads |-> Activation(t, 0)]
    /\ frames = [t \in Threads |-> <<>>]
    /\ hooks = <<>>

-----------------------------------------------------------------------------
(* sceGeSetCallback takes the next slot; no call of the module frees one.  *)
SetCallback(hasFinish) ==
    /\ Len(hooks) < CBSLOTS
    /\ hooks' = Append(hooks, hasFinish)
    /\ UNCHANGED <<registers, runs, saved, frames>>

(* ge_call_guest up to the dispatch: the caller's registers go to the host *)
(* stack and the callback gets its own.                                    *)
CallGuest ==
    /\ frames' = [frames EXCEPT ![runs] = Append(@, registers)]
    /\ registers' = Activation(runs, Len(frames[runs]) + 1)

(* sceGeListEnQueue with callback c: the list has been run, and the finish *)
(* function is called if the slot has one.                                 *)
ListEnQueue(c) ==
    /\ Len(frames[runs]) < MaxDepth
    /\ IF c \in DOMAIN hooks /\ hooks[c]
       THEN CallGuest ELSE UNCHANGED <<registers, frames>>
    /\ UNCHANGED <<runs, saved, hooks>>

(* sceMpegRingbufferPut calls the game for each piece of the ring.         *)
RingbufferPut ==
    /\ Len(frames[runs]) < MaxDepth
    /\ CallGuest
    /\ UNCHANGED <<runs, saved, hooks>>

(* The callback has returned.                                              *)
FromControlBlock(t) == saved[t]   \* variant: what the last switch saved, not the caller's copy
CallersCopy(t) == Last(frames[t])

GuestReturns ==
    /\ frames[runs] # <<>>
    /\ registers' = CallersCopy(runs)
    /\ frames' = [frames EXCEPT ![runs] = Front(@)]
    /\ UNCHANGED <<runs, saved, hooks>>

(* The running thread yields or blocks, in a callback or not.              *)
Switch(t) ==
    /\ t # runs
    /\ saved' = [saved EXCEPT ![runs] = registers]
    /\ registers' = saved[t]
    /\ runs' = t
    /\ UNCHANGED <<frames, hooks>>

CallsNext ==
    \/ \E hasFinish \in BOOLEAN : SetCallback(hasFinish)
    \/ \E c \in 0 .. CBSLOTS : ListEnQueue(c)
    \/ RingbufferPut
    \/ GuestReturns
    \/ \E t \in Threads : Switch(t)

CallsSpec == CallsInit /\ [][CallsNext]_callVars

(* Whatever threads run while callbacks are under way, each activation     *)
(* finds its own registers: those loaded are the running thread's, for as  *)
(* many callbacks as it is inside.                                         *)
EachFindsItsRegisters == registers = Activation(runs, Len(frames[runs]))
=============================================================================
