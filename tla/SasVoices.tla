----------------------------- MODULE SasVoices ------------------------------
(***************************************************************************)
(* sceSasCore (hle.c 1464-1580): voices that decode a stream of blocks as  *)
(* they are mixed, a grain at a time, at their pitch.  Samples and volumes *)
(* are left out: what is heard of a voice is the place in its stream.      *)
(*                                                                         *)
(* A stream is the sequence of its blocks' flags: "plain", "start" (6, the *)
(* loop starts here), "loop" (3, back to the start of the loop), "end" (7).*)
(* Blocks are counted from 0, samples too: sample s is in block s \div 28. *)
(***************************************************************************)
EXTENDS Integers, Sequences

CONSTANTS Voices,    \* 32 in the code
          Streams,   \* the streams the guest keys
          SAMPLES,   \* samples in a block, 28
          Native,    \* the pitch that takes one sample per sample, 0x1000
          Pitches, Grains, DefaultGrain

ASSUME SasAssumption ==
    /\ {SAMPLES, Native} \cup Pitches \cup Grains \subseteq Nat \ {0}
    /\ DefaultGrain \in Grains
    /\ \A s \in Streams : s \in Seq({"plain", "start", "loop", "end"})

None == -1

VARIABLES
    voice,   \* s_sasv
    grain    \* s_sas_grain
sasVars == <<voice, grain>>

(* `block' is the block in the buffer, the others are the code's fields.   *)
(* For the properties only: `due' is the sample the voice is to play next, *)
(* and `skipped' whether it ever played another one.                       *)
Voice == [on : BOOLEAN, vag : Streams \cup {<<>>}, pos : Nat, loop : Int, pitch : Pitches \cup {Native},
          bufn : {0, SAMPLES}, bufi : Nat, frac : 0..Native - 1, block : Int,
          due : Int, skipped : BOOLEAN]

Silent == [on |-> FALSE, vag |-> <<>>, pos |-> 0, loop |-> None, pitch |-> Native, bufn |-> 0,
           bufi |-> 0, frac |-> 0, block |-> None, due |-> 0, skipped |-> FALSE]

SasTypeOK == /\ \A v \in Voices : voice[v] \in Voice
             /\ grain \in Grains

SasInitial == voice = [v \in Voices |-> Silent] /\ grain = DefaultGrain

Flags(v) == v.vag[v.pos + 1]

(* sas_vag_block: whether there is a block to decode, and the voice after  *)
(* it.  The start of a loop is remembered, its end goes back there.        *)
HasBlock(v) == v.pos < Len(v.vag) /\ Flags(v) # "end"

Decoded(v) ==
    LET start == IF Flags(v) = "start" THEN v.pos ELSE v.loop
    IN [v EXCEPT !.loop = start, !.block = v.pos,
                 !.pos = IF Flags(v) = "loop" /\ start >= 0 THEN start ELSE v.pos + 1,
                 !.bufn = SAMPLES, !.bufi = 0]

(* The sample to play after sample s when the pitch goes `step' samples on:*)
(* what it overshoots a block by is dropped.                               *)
After(v, s, step) ==
    LET b == s \div SAMPLES
    IN IF (s + step) \div SAMPLES = b THEN s + step
       ELSE SAMPLES * IF v.vag[b + 1] = "loop" /\ v.loop >= 0 THEN v.loop ELSE b + 1

(* One turn of the mixing loop for a voice.                                *)
Mixed(v) ==
    IF ~v.on THEN v
    ELSE IF v.bufi >= v.bufn /\ ~HasBlock(v) THEN [v EXCEPT !.on = FALSE]
    ELSE LET w == IF v.bufi >= v.bufn THEN Decoded(v) ELSE v
             s == w.block * SAMPLES + w.bufi
             step == (w.frac + w.pitch) \div Native
         IN [w EXCEPT !.frac = (w.frac + w.pitch) % Native, !.bufi = w.bufi + step,
                      !.due = After(w, s, step), !.skipped = w.skipped \/ s # v.due]

MixedGrain(v, n) ==
    LET after[i \in 0..n] == IF i = 0 THEN v ELSE CHOOSE w \in {Mixed(u) : u \in {after[i - 1]}} : TRUE
    IN after[n]

(* h_SasCore, h_SasCoreWithMix.                                            *)
SasCore ==
    /\ voice' = [v \in Voices |-> MixedGrain(voice[v], grain)]
    /\ UNCHANGED grain

(* h_SasInit.                                                              *)
SasInit(n) ==
    /\ voice' = [v \in Voices |-> Silent]
    /\ grain' = n

\* variant: the samples in the buffer are kept
NotRewound(v) == [v EXCEPT !.pos = 0, !.frac = 0, !.due = 0]

Rewound(v) == [v EXCEPT !.pos = 0, !.bufn = 0, !.bufi = 0, !.frac = 0, !.block = None, !.due = 0]

(* h_SasSetVoice: a voice that is on goes on with the new stream.          *)
SetVoice(v, s, looped) ==
    /\ voice' = [voice EXCEPT ![v] = [Rewound(voice[v]) EXCEPT !.vag = s,
                                                               !.loop = IF looped THEN 0 ELSE None]]
    /\ UNCHANGED grain

SetPitch(v, p) ==
    /\ voice' = [voice EXCEPT ![v].pitch = p]
    /\ UNCHANGED grain

(* h_SasSetKeyOn: the start of a loop is kept from the last time.          *)
SetKeyOn(v) ==
    /\ voice' = [voice EXCEPT ![v] = [Rewound(voice[v]) EXCEPT !.on = voice[v].vag # <<>>]]
    /\ UNCHANGED grain

SetKeyOff(v) ==
    /\ voice' = [voice EXCEPT ![v].on = FALSE]
    /\ UNCHANGED grain

(* h_SasGetEndFlag.                                                        *)
EndFlag == {v \in Voices : ~voice[v].on}

SasNext ==
    \/ SasCore
    \/ \E n \in Grains : SasInit(n)
    \/ \E v \in Voices :
           \/ \E s \in Streams, looped \in BOOLEAN : SetVoice(v, s, looped)
           \/ \E p \in Pitches : SetPitch(v, p)
           \/ SetKeyOn(v) \/ SetKeyOff(v)

(* The guest's sound thread mixes grain after grain.                       *)
SasSpec == SasInitial /\ [][SasNext]_sasVars /\ WF_sasVars(SasCore)

-----------------------------------------------------------------------------
(* A voice plays its stream in order from the first sample, across blocks, *)
(* grains, changes of pitch and loops: keyed again or given another        *)
(* stream, it plays nothing of what it had decoded before.  Left out are   *)
(* the blocks a pitch above native left at other than their last sample:   *)
(* what it overshot is not made up for (hle.c 1495-1540).                  *)
PlaysInOrder == \A v \in Voices : ~voice[v].skipped

Loops(v) ==
    \E j \in 1..Len(v.vag) : /\ v.vag[j] = "loop"
                             /\ v.loop >= 0 \/ \E i \in 1..j : v.vag[i] = "start"
Fresh(v) == v.pos = 0 /\ v.bufn = 0

(* A voice whose stream does not loop ends, and the guest sees its flag,   *)
(* unless it is keyed again or given another stream (hle.c 1484, 1527).    *)
OneShotEnds ==
    \A v \in Voices :
        (voice[v].on /\ ~Loops(voice[v])) ~> (v \in EndFlag \/ Fresh(voice[v]) \/ Loops(voice[v]))
=============================================================================
