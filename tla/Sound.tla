------------------------------- MODULE Sound --------------------------------
(***************************************************************************)
(* The two makers of sound, the ring the channels are mixed in and the     *)
(* voices of sceSasCore, and what they promise together.                   *)
(***************************************************************************)
EXTENDS AudioOut, SasVoices

(* Sound: a frame mixed is of the frames it was queued for, and a voice    *)
(* plays its blocks in order.                                              *)
SoundInOrder == MixedForItsFrame /\ PlaysInOrder
=============================================================================
