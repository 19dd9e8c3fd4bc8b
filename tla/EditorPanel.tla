----------------------------- MODULE EditorPanel ----------------------------
(***************************************************************************)
(* The save dialog over the editor of a query or AI tab:                   *)
(* frontend/src/components/tabs/TabPanel.tsx and                           *)
(* saved-queries/SaveQueryDialog.tsx.                                      *)
(*                                                                         *)
(* One panel and at most one dialog serve whatever tab is active.  The     *)
(* dialog keeps the title it was opened with, and gets the id and the SQL  *)
(* of the tab that is in front now.  QueryPanel has the calls of the       *)
(* panel, TabStore what happens to a tab's SQL, AiPanel the answers of the *)
(* model.                                                                  *)
(***************************************************************************)

CONSTANTS
  EditorTabs,  \* the tabs with an editor that are open
  SavedTabs,   \* those that were opened from a saved query
  NoDialog,    \* no dialog, nothing saved yet
  NewQuery     \* in place of a saved query's id: a new one

ASSUME EditorConstants == SavedTabs \subseteq EditorTabs /\ NewQuery \notin EditorTabs

VARIABLES
  front,   \* the tab the panel is rendered for
  dialog,  \* showSaveDialog, with the state of the dialog
  stored   \* history: what the last save that was sent put together

editorVars == <<front, dialog, stored>>

\* The query of useUpdateSavedQuery, or a new one.
SavedIdOf(t) == IF t \in SavedTabs THEN t ELSE NewQuery

DialogOpen == dialog # NoDialog

\* The dialog as it is first rendered for a tab: the title field starts with the
\* tab's title if the tab is of a saved query.
DialogFor(t) == [of |-> t, title |-> SavedIdOf(t), pending |-> FALSE]

(***************************************************************************)
(* A faulty variant: one plausible slip, not part of the specification.    *)
(***************************************************************************)
\* The dialog remembers the saved query that it was opened for.
SaveRemembersId ==
  /\ DialogOpen
  /\ stored' = [id |-> SavedIdOf(dialog.of), title |-> dialog.title, from |-> front,
                moved |-> dialog.of # front]
  /\ dialog' = [dialog EXCEPT !.pending = TRUE]
  /\ UNCHANGED front

(***************************************************************************)
(* The panel.                                                              *)
(***************************************************************************)
EditorInit ==
  /\ front \in EditorTabs
  /\ dialog = NoDialog /\ stored = NoDialog

\* Another tab comes to the front; with the dialog open too, when the late answer
\* of initFromServer puts the server's tabs in place of those on the screen, or
\* the keyboard reaches a tab behind the dialog, which does not trap the focus.
\* From a query tab to an AI tab, or by way of a tab without an editor, the dialog
\* is rendered anew.
ShowTab(t) ==
  /\ front' = t
  /\ \/ t # front /\ UNCHANGED dialog
     \/ DialogOpen /\ dialog' = DialogFor(t)
  /\ UNCHANGED stored

\* The Save button and Ctrl+S.
OpenSave ==
  /\ ~DialogOpen
  /\ dialog' = DialogFor(front)
  /\ UNCHANGED <<front, stored>>

TypeTitle ==
  /\ DialogOpen /\ dialog.title # NewQuery
  /\ dialog' = [dialog EXCEPT !.title = NewQuery]
  /\ UNCHANGED <<front, stored>>

\* The button, once; Enter in the title, as often as it is pressed.  The props
\* are those of the tab that is in front now.
SaveIt ==
  /\ DialogOpen
  /\ stored' = [id |-> SavedIdOf(front), title |-> dialog.title, from |-> front,
                moved |-> dialog.of # front]
  /\ dialog' = [dialog EXCEPT !.pending = TRUE]
  /\ UNCHANGED front

\* onSuccess closes the dialog, an error leaves it; Cancel and a press beside it
\* close it at any time.
SaveAnswered ==
  /\ DialogOpen /\ dialog.pending
  /\ dialog' \in {NoDialog, [dialog EXCEPT !.pending = FALSE]}
  /\ UNCHANGED <<front, stored>>

CloseSave ==
  /\ DialogOpen
  /\ dialog' = NoDialog
  /\ UNCHANGED <<front, stored>>

EditorNext ==
  \/ \E t \in EditorTabs : ShowTab(t)
  \/ OpenSave \/ TypeTitle \/ SaveIt \/ SaveAnswered \/ CloseSave

EditorSpec == EditorInit /\ [][EditorNext]_editorVars

(***************************************************************************)
(* Properties.                                                             *)
(***************************************************************************)
\* Types.
EditorTypeOK ==
  /\ front \in EditorTabs
  /\ dialog \in {NoDialog} \cup
       [of : EditorTabs, title : EditorTabs \cup {NewQuery}, pending : BOOLEAN]

\* The dialog's title is new, or that of the tab it was opened for.
TitleIsOfTab == DialogOpen => dialog.title \in {NewQuery, SavedIdOf(dialog.of)}

\* A save takes its title from the dialog, its id and its SQL from the panel.
\* Whichever tab comes up behind the open dialog, no saved query gets the SQL of
\* another tab; its title is of the same tab unless one did come up
\* (TabPanel.tsx:337-349, 478-490; SaveQueryDialog.tsx:14-45).
SaveIsOfOneTab ==
  stored # NoDialog =>
    /\ stored.id # NewQuery => stored.id = stored.from
    /\ ~stored.moved /\ stored.title # NewQuery => stored.title = stored.id
=============================================================================
