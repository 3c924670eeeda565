----------------------------- MODULE MCServices -----------------------------
(***************************************************************************)
(* The services of the runtime a game waits for: dialogs with their saves, *)
(* sound output, voices and the pad.  They share no state with one another *)
(* and are checked side by side and not as a product: each behaviour has   *)
(* one of them at work, chosen at the start, and the others idle.          *)
(***************************************************************************)
EXTENDS Dialogs, Sound, CtrlRing

VARIABLE part

MCAsked    == {Wild, 1}
MCLists    == {<<>>, <<Wild, 2, 1>>}
MCStreams  == {<<"plain", "plain">>, <<"plain", "start", "plain", "loop">>,
               <<"plain", "end", "plain">>}

-----------------------------------------------------------------------------
ServicesInit ==
    /\ part \in {"dialogs", "audio", "voices", "pad"}
    /\ DialogInit /\ AudioInit /\ SasInitial /\ CtrlInit

DialogsWork == part = "dialogs" /\ DialogNext /\ UNCHANGED <<part, audioVars, sasVars, ctrlVars>>
AudioWorks  == part = "audio"   /\ AudioNext  /\ UNCHANGED <<part, dlgVars, sasVars, ctrlVars>>
VoicesWork  == part = "voices"  /\ SasNext    /\ UNCHANGED <<part, dlgVars, audioVars, ctrlVars>>
PadIsRead   == part = "pad"     /\ CtrlNext   /\ UNCHANGED <<part, dlgVars, audioVars, sasVars>>

ServicesNext == DialogsWork \/ AudioWorks \/ VoicesWork \/ PadIsRead

svcVars == <<part, dlgVars, audioVars, sasVars, ctrlVars>>

(* The fairness of the service at work (GameGoesOn, AudioFairness, that of *)
(* SasCore and FairCtrlSpec).                                              *)
DialogsGoOn  == part = "dialogs" /\ GameGoesOn /\ UNCHANGED <<part, audioVars, sasVars, ctrlVars>>
AudioFair(A) == part = "audio" /\ A /\ UNCHANGED <<part, dlgVars, sasVars, ctrlVars>>
VoicesMix    == part = "voices" /\ SasCore /\ UNCHANGED <<part, dlgVars, audioVars, ctrlVars>>
PadFair(A)   == part = "pad" /\ A /\ UNCHANGED <<part, dlgVars, audioVars, sasVars>>

ServicesSpec ==
    /\ ServicesInit
    /\ [][ServicesNext]_svcVars
    /\ WF_svcVars(DialogsGoOn) /\ WF_svcVars(VoicesMix)
    /\ WF_svcVars(AudioFair(Feed)) /\ WF_svcVars(AudioFair(Played))
    /\ \A ch \in Channels : WF_svcVars(AudioFair(Resume(ch)))
    /\ WF_svcVars(PadFair(VblankLatch))
    /\ \A t \in Readers : WF_svcVars(PadFair(ResumeRead(t)))

-----------------------------------------------------------------------------
(* Whoever waits for a service of the game's own making stops waiting: a   *)
(* game polling a dialog, a thread in a blocking output, a guest watching  *)
(* the end flag of a voice that does not loop, a thread in a blocking read *)
(* of the pad.                                                             *)
WaitsEnd == DialogEnds /\ OutputReturns /\ OneShotEnds /\ ReadReturns
=============================================================================
