------------------------------ MODULE AudioOut ------------------------------
(***************************************************************************)
(* sceAudio (hle.c 1047-1096) over the host's mixing ring (audio.c): the   *)
(* guest's threads push buffers into one ring of frames, each channel      *)
(* behind a write cursor of its own, and wait until the ring holds no more *)
(* than one buffer of theirs; the host's feeder thread takes blocks of     *)
(* frames out and queues them to the device.  Both work on the ring under  *)
(* s_lock, so that a push and the taking of a block are atomic.            *)
(*                                                                         *)
(* Samples are left out: a cell of the ring holds the frames mixed into it *)
(* since it was cleared, each as its channel and the frame of the stream   *)
(* it is meant for.  Frames are counted from the read cursor, as only the  *)
(* distance from it matters; it stands at cell `pos'.                      *)
(***************************************************************************)
EXTENDS Integers, FiniteSets

CONSTANTS Channels,      \* the guest's channels, each with its thread
          RING_FRAMES,   \* cells of the ring
          BLOCK_FRAMES,  \* frames in a block
          NUM_BLOCKS,    \* blocks the device can hold
          Lens           \* buffer lengths the guest asks for

ASSUME AudioAssumption ==
    /\ {RING_FRAMES, BLOCK_FRAMES, NUM_BLOCKS} \cup Lens \subseteq Nat \ {0}
    /\ RING_FRAMES % BLOCK_FRAMES = 0

Cells  == 0..RING_FRAMES - 1
Behind == -1             \* a write cursor anywhere before the read cursor

VARIABLES
    device,   \* "unopened", "open", or "failed" (s_inited, s_ok)
    pos,      \* s_play modulo the ring's length
    lead,     \* s_chw - s_play per channel, or Behind
    cell,     \* s_accL, s_accR
    queued,   \* blocks the device has not played
    chan,     \* s_audio_ch, s_audio_len
    out       \* per channel, what its thread does: "idle", "delay" (open-loop
              \* pacing) or "pace" (waits until the ring holds at most its buffer)
audioVars == <<device, pos, lead, cell, queued, chan, out>>

AudioTypeOK ==
    /\ device \in {"unopened", "open", "failed"}
    /\ pos \in Cells
    /\ lead \in [Channels -> Behind..RING_FRAMES]
    /\ queued \in 0..NUM_BLOCKS
    /\ \A c \in Channels : /\ chan[c].used \in BOOLEAN
                           /\ chan[c].len \in Lens \cup {0}
                           /\ out[c] \in {"idle", "delay", "pace"}

AudioInit ==
    /\ device = "unopened"
    /\ pos = 0 /\ lead = [c \in Channels |-> 0] /\ cell = [i \in Cells |-> {}]
    /\ queued = 0
    /\ chan = [c \in Channels |-> [used |-> FALSE, len |-> 0]]
    /\ out = [c \in Channels |-> "idle"]

Queued(c) == IF lead[c] > 0 THEN lead[c] ELSE 0

(* h_AudioChReserve, h_AudioChRelease, h_AudioSetChannelDataLen.           *)
ChReserve(c, n) ==
    /\ chan' = [chan EXCEPT ![c] = [used |-> TRUE, len |-> n]]
    /\ UNCHANGED <<device, pos, lead, cell, queued, out>>
ChRelease(c) ==
    /\ chan[c].used
    /\ chan' = [chan EXCEPT ![c].used = FALSE]
    /\ UNCHANGED <<device, pos, lead, cell, queued, out>>
SetChannelDataLen(c, n) ==
    /\ chan' = [chan EXCEPT ![c].len = n]
    /\ UNCHANGED <<device, pos, lead, cell, queued, out>>

Begin(c) == IF lead[c] < 0 THEN 0 ELSE lead[c]       \* snap to now

\* variant: nothing is dropped
NoClamp(c, n) == n

Room(c, n) == IF Begin(c) + n > RING_FRAMES THEN RING_FRAMES - Begin(c) ELSE n

(* sr_audio_push for a buffer of n frames.                                 *)
Push(c, n) ==
    LET w == Begin(c)
        m == Room(c, n)
    IN /\ cell' = [i \in Cells |->
                      cell[i] \cup {[ch |-> c, at |-> f] :
                                       f \in {w + k : k \in {j \in 0..m - 1 : (pos + w + j) % RING_FRAMES = i}}}]
       /\ lead' = [lead EXCEPT ![c] = w + m]

(* audio_output: the first push opens the device.                          *)
Output(c) ==
    /\ out[c] = "idle"
    /\ LET n == chan[c].len
       IN IF n = 0 \/ device = "failed"
          THEN /\ out' = [out EXCEPT ![c] = "delay"]
               /\ UNCHANGED <<device, lead, cell>>
          ELSE \/ /\ device = "unopened"
                  /\ device' = "failed"
                  /\ out' = [out EXCEPT ![c] = "delay"]
                  /\ UNCHANGED <<lead, cell>>
               \/ /\ device' = "open"
                  /\ Push(c, n)
                  /\ out' = [out EXCEPT ![c] = IF lead'[c] > n THEN "pace" ELSE "idle"]
    /\ UNCHANGED <<pos, queued, chan>>

(* The thread's delay is over.  The length it compares with is that of its *)
(* call; the thread is in the call, so only another thread could change it.*)
Resume(c) ==
    /\ out[c] = "delay" \/ (out[c] = "pace" /\ Queued(c) <= chan[c].len)
    /\ out' = [out EXCEPT ![c] = "idle"]
    /\ UNCHANGED <<device, pos, lead, cell, queued, chan>>

(* The feeder takes a block when one of the device's buffers is free.      *)
Feed ==
    /\ device = "open" /\ queued < NUM_BLOCKS
    /\ pos' = (pos + BLOCK_FRAMES) % RING_FRAMES
    /\ lead' = [c \in Channels |-> IF lead[c] < BLOCK_FRAMES THEN Behind ELSE lead[c] - BLOCK_FRAMES]
    /\ cell' = [i \in Cells |->
                   IF \E k \in 0..BLOCK_FRAMES - 1 : (pos + k) % RING_FRAMES = i THEN {}
                   ELSE {[f EXCEPT !.at = f.at - BLOCK_FRAMES] : f \in cell[i]}]
    /\ queued' = queued + 1
    /\ UNCHANGED <<device, chan, out>>

(* The device plays the oldest block (WHDR_DONE).                          *)
Played ==
    /\ queued > 0
    /\ queued' = queued - 1
    /\ UNCHANGED <<device, pos, lead, cell, chan, out>>

AudioNext ==
    \/ \E c \in Channels :
           \/ out[c] = "idle" /\ \E n \in Lens : ChReserve(c, n) \/ SetChannelDataLen(c, n)
           \/ out[c] = "idle" /\ ChRelease(c)
           \/ Output(c) \/ Resume(c)
    \/ Feed \/ Played

(* The host runs the feeder, the device plays, and a delay ends.           *)
AudioFairness ==
    /\ WF_audioVars(Feed) /\ WF_audioVars(Played)
    /\ \A c \in Channels : WF_audioVars(Resume(c))

AudioSpec == AudioInit /\ [][AudioNext]_audioVars /\ AudioFairness

-----------------------------------------------------------------------------
(* A frame is played when it is due: whatever was mixed into a cell since  *)
(* it was cleared is meant for the frame the cell stands for now, and a    *)
(* channel's cursor is past all of its own frames, so that it mixes none   *)
(* over another.  A channel that fell behind, a push that would lap the    *)
(* reader and a feeder that runs between two pushes must not break it      *)
(* (audio.c 44-57, 97-113).                                                *)
MixedForItsFrame ==
    \A i \in Cells : \A f \in cell[i] :
        /\ f.at \in Cells /\ (pos + f.at) % RING_FRAMES = i
        /\ f.at < lead[f.ch]

(* A blocking output returns, as long as the device plays (hle.c 1081-1083).*)
OutputReturns == \A c \in Channels : out[c] # "idle" ~> out[c] = "idle"
=============================================================================
