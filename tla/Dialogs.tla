------------------------------ MODULE Dialogs -------------------------------
(***************************************************************************)
(* The utility dialogs (hle.c 572-715): one status machine for the save    *)
(* and message dialogs and one for the on-screen keyboard, both driven by  *)
(* the game's own polling.  The work of a save dialog is done when it is   *)
(* started; its result reaches the game's parameter block when the dialog  *)
(* finishes.                                                               *)
(*                                                                         *)
(* The game has one dialog at a time, as the console requires, but polls   *)
(* both machines whenever it likes.  `game' is where it is: with no dialog *)
(* ("idle"), looping until it reads FINISHED ("wait", "oskWait"), with a   *)
(* finished dialog ("done", "oskDone"), looping until it reads NONE        *)
(* ("closing", "oskClosing").                                              *)
(***************************************************************************)
EXTENDS Savedata

CONSTANTS Params,     \* parameter blocks of the game
          Polls,      \* polls a dialog runs for before it finishes (3)
          SaveLists   \* the lists of names in its requests

ASSUME DialogAssumption ==
    /\ Polls \in Nat
    /\ SaveLists \subseteq Seq(Saves \cup {Wild})

NONE       == 0
INITIALIZE == 1
RUNNING    == 2
FINISHED   == 3
SHUTDOWN   == 4
WRONG_TYPE == -1
NoParam    == "no block"

VARIABLES
    dlg,     \* s_dlg_status, s_dlg_tick, s_dlg_param, s_dlg_result
    osk,     \* s_osk_status, s_osk_current
    block,   \* the result field of each parameter block
    game,    \* see above
    goal     \* for the properties only: the result of the dialog started last

dlgVars == <<saveVars, dlg, osk, block, game, goal>>

DialogTypeOK ==
    /\ SaveTypeOK
    /\ dlg.status \in NONE..SHUTDOWN /\ dlg.tick \in 0..Polls + 1
    /\ dlg.param \in Params \cup {NoParam}
    /\ osk.status \in NONE..SHUTDOWN /\ osk.current \in BOOLEAN
    /\ game \in {"idle", "wait", "done", "closing", "oskWait", "oskDone", "oskClosing"}

Unset == [p \in Params |-> "unset"]

DialogInit ==
    /\ SaveInit
    /\ dlg = [status |-> NONE, tick |-> 0, param |-> NoParam, result |-> "ok"]
    /\ osk = [status |-> NONE, current |-> FALSE]
    /\ block = Unset
    /\ game = "idle"
    /\ goal = "ok"

Start(p, r) ==
    /\ game = "idle"
    /\ dlg' = [status |-> INITIALIZE, tick |-> 0, param |-> p, result |-> r]
    /\ osk' = [osk EXCEPT !.current = FALSE]
    /\ block' = Unset
    /\ game' = "wait"
    /\ goal' = r

(* h_SavedataInitStart.                                                    *)
SavedataInitStart(p, r, fate) == Start(p, Result(r, fate)) /\ Execute(r, fate)

\* variant: the result of the save dialog before it is kept
MsgInitKeepsResult(p) ==
    /\ game = "idle"
    /\ dlg' = [dlg EXCEPT !.status = INITIALIZE, !.tick = 0, !.param = p]
    /\ osk' = [osk EXCEPT !.current = FALSE]
    /\ block' = Unset
    /\ game' = "wait"
    /\ goal' = "ok"
    /\ UNCHANGED saveVars

(* h_MsgDialogInitStart.                                                   *)
MsgDialogInitStart(p) == Start(p, "ok") /\ UNCHANGED saveVars

(* The block gets the result as the dialog becomes FINISHED.               *)
Finish == [block EXCEPT ![dlg.param] = dlg.result]

\* variant: a poll that finds the dialog running does not count
DlgNeverTicks ==
    CASE dlg.status = INITIALIZE -> [dlg EXCEPT !.status = RUNNING, !.tick = 0]
      [] dlg.status = SHUTDOWN -> [dlg EXCEPT !.status = NONE]
      [] OTHER -> dlg

\* h_DlgGetStatus answers dlg.status and then advances it.
DlgAdvanced ==
    CASE dlg.status = INITIALIZE -> [dlg EXCEPT !.status = RUNNING, !.tick = 0]
      [] dlg.status = RUNNING -> [dlg EXCEPT !.tick = dlg.tick + 1,
                                     !.status = IF dlg.tick + 1 > Polls THEN FINISHED ELSE RUNNING]
      [] dlg.status = SHUTDOWN -> [dlg EXCEPT !.status = NONE]
      [] OTHER -> dlg

(* h_DlgGetStatus and what a looping game makes of the answer.             *)
DlgGetStatus ==
    /\ dlg' = DlgAdvanced
    /\ game' = IF game = "wait" /\ dlg.status = FINISHED THEN "done"
               ELSE IF game = "closing" /\ dlg.status = NONE THEN "idle" ELSE game
    /\ block' = IF game' = "idle" THEN Unset      \* the game is done with it
                ELSE IF dlg.status = RUNNING /\ DlgAdvanced.status = FINISHED THEN Finish
                ELSE block
    /\ goal' = IF game' = "idle" THEN "ok" ELSE goal
    /\ last' = IF game' = "idle" THEN NoLast ELSE last
    /\ UNCHANGED <<exists, disk, saves, osk>>

(* h_SavedataUpdate finishes a running dialog at once.                     *)
SavedataUpdate ==
    /\ dlg.status = RUNNING
    /\ dlg' = [dlg EXCEPT !.status = FINISHED]
    /\ block' = Finish
    /\ UNCHANGED <<saveVars, osk, game, goal>>

(* h_DlgShutdown, called by a game whose dialog finished or that gives it  *)
(* up.                                                                     *)
DlgShutdown ==
    /\ game \in {"wait", "done"}
    /\ dlg' = [dlg EXCEPT !.status = SHUTDOWN]
    /\ game' = "closing"
    /\ UNCHANGED <<saveVars, osk, block, goal>>

-----------------------------------------------------------------------------
(* h_OskInitStart.                                                         *)
OskInitStart ==
    /\ game = "idle"
    /\ osk' = [status |-> INITIALIZE, current |-> TRUE]
    /\ game' = "oskWait"
    /\ UNCHANGED <<saveVars, dlg, block, goal>>

OskAnswer == IF osk.current THEN osk.status ELSE WRONG_TYPE

(* h_OskGetStatus.  The input box collects the text in the poll that finds *)
(* the keyboard running.                                                   *)
OskGetStatus ==
    /\ osk' = IF ~osk.current THEN osk
              ELSE [osk EXCEPT !.status = CASE osk.status = INITIALIZE -> RUNNING
                                            [] osk.status = RUNNING -> FINISHED
                                            [] osk.status = SHUTDOWN -> NONE
                                            [] OTHER -> osk.status]
    /\ game' = IF game = "oskWait" /\ OskAnswer = FINISHED THEN "oskDone"
               ELSE IF game = "oskClosing" /\ OskAnswer = NONE THEN "idle" ELSE game
    /\ UNCHANGED <<saveVars, dlg, block, goal>>

(* h_OskShutdown.                                                          *)
OskShutdown ==
    /\ game \in {"oskWait", "oskDone"}
    /\ osk' = IF osk.status # NONE THEN [osk EXCEPT !.status = SHUTDOWN] ELSE osk
    /\ game' = "oskClosing"
    /\ UNCHANGED <<saveVars, dlg, block, goal>>

DialogNext ==
    \/ game = "idle" /\ \E p \in Params, r \in Requests(SaveLists) :
                            \E fate \in Fates(r) : SavedataInitStart(p, r, fate)
    \/ \E p \in Params : MsgDialogInitStart(p)
    \/ DlgGetStatus \/ SavedataUpdate \/ DlgShutdown
    \/ OskInitStart \/ OskGetStatus \/ OskShutdown

(* A game in a loop goes on: it polls once a frame and shuts down a dialog *)
(* that finished.                                                          *)
GameGoesOn ==
    \/ game \in {"wait", "closing"} /\ DlgGetStatus
    \/ game = "done" /\ DlgShutdown
    \/ game \in {"oskWait", "oskClosing"} /\ OskGetStatus
    \/ game = "oskDone" /\ OskShutdown

DialogSpec == DialogInit /\ [][DialogNext]_dlgVars /\ WF_dlgVars(GameGoesOn)

-----------------------------------------------------------------------------
(* A game that has read FINISHED finds in its block the result of its own  *)
(* dialog, whichever of the poll and the update finished it and whatever   *)
(* dialog ran before (hle.c 585-632).                                      *)
FinishedMeansOwnResult == game = "done" => block[dlg.param] = goal

(* No game waits for ever for a status: a dialog or keyboard that is       *)
(* polled finishes, and one that is shut down is gone (hle.c 573-577,      *)
(* "which a game that waits to observe those states would hang on", and    *)
(* 641-644).                                                               *)
DialogEnds == game # "idle" ~> game = "idle"
=============================================================================
