------------------------------- MODULE MCTaskFiles -------------------------------
(***************************************************************************)
(* What is kept in files through failures, for TLC: tasks of images        *)
(* (ImageTask) and of editable files (EditableTasks), the file they are    *)
(* kept in (JsonFile); and the turn of an upstream conversation that makes *)
(* an image (ImageTurn).  The parts share no state: a behaviour is one of  *)
(* one part.                                                               *)
(***************************************************************************)
EXTENDS ImageTask, EditableTasks, JsonFile, ImageTurn

VARIABLE part

\* Two owners, and ids with a colon or without: only one of the tasks has a folder for itself.
EditableSample == {<<"o1", "i1">>, <<"o2", "a:i1">>, <<"o2", "i2">>}
SampleLastPart(id) == IF id = "a:i1" THEN "i1" ELSE id

TaskFilesInit ==
  /\ part \in {"images", "editable", "file", "turn"}
  /\ Init /\ EditableInit /\ JsonInit /\ TurnInit
  /\ part = "turn" \/ ~(checkFirst \/ settling \/ imageTurn)

TaskFilesNext ==
  \/ part = "images" /\ Next /\ UNCHANGED <<part, edVars, jsonVars, turnVars>>
  \/ part = "editable" /\ EditableNext /\ UNCHANGED <<part, vars, jsonVars, turnVars>>
  \/ part = "file" /\ JsonNext /\ UNCHANGED <<part, vars, edVars, turnVars>>
  \/ part = "turn" /\ TurnNext /\ UNCHANGED <<part, vars, edVars, jsonVars>>

\* The fairness of ImageTask and EditableTasks, each for its part.
TaskFilesSpec ==
  /\ TaskFilesInit
  /\ [][TaskFilesNext]_<<part, vars, edVars, jsonVars, turnVars>>
  /\ WF_vars(part = "images" /\ Write) /\ WF_vars(part = "images" /\ Restart)
  /\ \A k \in Task : SF_vars(part = "images" /\ ThreadStep(k))
  /\ \A k \in EdTask : WF_edVars(part = "editable" /\ EdWork(k))
  /\ WF_edVars(part = "editable" /\ Revive)
=============================================================================
