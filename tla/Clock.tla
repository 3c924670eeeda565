------------------------------- MODULE Clock -------------------------------
(***************************************************************************)
(* The guest's clocks, hle.c.  Neither follows the host: both count the    *)
(* frames the scheduler delivers, and between two frames every reading     *)
(* moves them on, so that a game that polls them sees time pass.           *)
(***************************************************************************)
EXTENDS Integers

CONSTANTS
    FRAME,      \* 16667, microseconds of a frame
    LINES,      \* 286, scan lines of a frame
    MaxFrames,  \* bound: frames
    MaxReads    \* bound: microseconds the first clock is ahead of the frame

ASSUME ClockAssumption == FRAME \in Nat \ {0} /\ LINES \in Nat \ {0}

VARIABLES
    vcount,     \* s_vcount, and s_vcount_fwd, which sr_vblank_tick sets to it
    time,       \* g_time_usec
    lineFrame,  \* s_hcount_vc, -1 before the first reading
    line,       \* s_hcount_intra
    usec,       \* what now_usec returned last
    hcount      \* what sceDisplayGetAccumulatedHcount returned last

clockVars == <<vcount, time, lineFrame, line, usec, hcount>>

ClockInit ==
    /\ vcount = 0 /\ time = 0
    /\ lineFrame = -1 /\ line = 0
    /\ usec = -1 /\ hcount = -1

VblankTick ==
    /\ vcount < MaxFrames
    /\ vcount' = vcount + 1
    /\ UNCHANGED <<time, lineFrame, line, usec, hcount>>

(* now_usec, behind sceKernelGetSystemTime, sceKernelLibcTime, sceRtc and  *)
(* the others.                                                             *)
FrameTime == IF vcount * FRAME # time THEN vcount * FRAME ELSE time + 1   \* variant: back to the frame
NextTime == IF vcount * FRAME > time THEN vcount * FRAME ELSE time + 1

NowUsec ==
    /\ time <= vcount * FRAME + MaxReads
    /\ time' = NextTime /\ usec' = time'
    /\ UNCHANGED <<vcount, lineFrame, line, hcount>>

(* hcount_intra: each reading within a frame is one line on, up to the     *)
(* last.                                                                   *)
NextLine ==
    IF vcount # lineFrame THEN 0 ELSE IF line < LINES - 1 THEN line + 1 ELSE line

GetCurrentHcount ==
    /\ line' = NextLine /\ lineFrame' = vcount
    /\ UNCHANGED <<vcount, time, usec, hcount>>

GetAccumulatedHcount ==
    /\ line' = NextLine /\ lineFrame' = vcount
    /\ hcount' = vcount * LINES + line'
    /\ UNCHANGED <<vcount, time, usec>>

ClockNext == VblankTick \/ NowUsec \/ GetCurrentHcount \/ GetAccumulatedHcount

ClockSpec == ClockInit /\ [][ClockNext]_clockVars

(* The clock in microseconds moves on at every reading, and the count of   *)
(* lines never goes back, however often and across whatever frames they    *)
(* are read.                                                               *)
TimeMovesOn ==
    [][/\ usec' # usec => usec' > usec
       /\ NowUsec => usec' > usec
       /\ hcount' >= hcount]_clockVars
=============================================================================
