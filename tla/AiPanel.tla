------------------------------ MODULE AiPanel -------------------------------
(***************************************************************************)
(* Asking the model for SQL: handleAiSubmit of                             *)
(* frontend/src/components/tabs/TabPanel.tsx, ai/AiChatPanel.tsx and       *)
(* ai/PromptInput.tsx, over appendAiTurn and setAiTurnIndex of             *)
(* stores/tabs.ts.                                                         *)
(*                                                                         *)
(* One useAiGenerate serves every tab: while a question of one AI tab is   *)
(* open, the chat of every AI tab shows the waiting animation.  The answer *)
(* comes back long after the question, when another tab may be active, the *)
(* asking tab closed, or its SQL edited by hand.                           *)
(***************************************************************************)
EXTENDS Integers, Sequences

CONSTANTS
  AiTabs,    \* AI tabs
  NoTab,     \* a tab of another kind is active; no question is open
  Replies,   \* the SQL of an answer
  Typed,     \* SQL of the user's own, or none
  MaxTurns   \* bound: turns of one conversation

ASSUME AiConstants == NoTab \notin AiTabs /\ Typed \notin Replies /\ MaxTurns \in Nat

VARIABLES
  seen,       \* the active tab, if it is an AI tab
  opened,     \* the AI tabs that are not closed
  turnsOf,    \* tab.aiTurns
  turnIndex,  \* tab.aiCurrentTurnIndex, from 1; 0 without turns
  editorSql,  \* tab.sql
  draft,      \* tab.aiPrompt is not blank
  aiError,    \* tab.aiError is set
  asking      \* aiGenerate.isPending: the tab.id and the messages in its closure

chatVars == <<turnsOf, turnIndex, editorSql>>
aiVars   == <<seen, opened, turnsOf, turnIndex, editorSql, draft, aiError, asking>>

\* AiChatPanel renders one of three: the others' inputs are not on the screen.
ChatShows(t) == CASE asking # NoTab  -> "waiting"
                  [] turnsOf[t] = <<>> -> "welcome"
                  [] OTHER             -> "turn"

\* The messages that go along with a question: the turns so far.
Context(t) == Len(turnsOf[t])

\* A turn as handleAiSubmit's closure makes it.
Turn(sql) == [askedIn |-> asking.tab, after |-> asking.after, sql |-> sql]
Turns == [askedIn : AiTabs, after : Nat, sql : Replies]

\* Faulty: the new turn is appended, and the one before it stays on the screen.
AppendInBackground(t, sql) ==
  /\ turnsOf' = [turnsOf EXCEPT ![t] = Append(@, Turn(sql))]
  /\ editorSql' = [editorSql EXCEPT ![t] = sql]
  /\ turnIndex' = [turnIndex EXCEPT ![t] = IF @ = 0 THEN 1 ELSE @]

\* appendAiTurn: the new turn is the one shown, its SQL goes into the editor.
AppendAiTurn(t, sql) ==
  /\ turnsOf' = [turnsOf EXCEPT ![t] = Append(@, Turn(sql))]
  /\ turnIndex' = [turnIndex EXCEPT ![t] = Len(turnsOf[t]) + 1]
  /\ editorSql' = [editorSql EXCEPT ![t] = sql]

(***************************************************************************)
(* Faulty variants: one plausible slip each, not part of the specification.*)
(***************************************************************************)
\* The answer goes to the tab that is active when it comes.
ReplyToActive(sql) ==
  /\ asking # NoTab
  /\ asking' = NoTab
  /\ IF seen \in opened THEN AppendAiTurn(seen, sql) ELSE UNCHANGED chatVars
  /\ UNCHANGED <<seen, opened, draft, aiError>>

(***************************************************************************)
(* The panel.                                                              *)
(***************************************************************************)
AiInit ==
  /\ seen \in AiTabs \cup {NoTab} /\ opened = AiTabs
  /\ turnsOf = [t \in AiTabs |-> <<>>] /\ turnIndex = [t \in AiTabs |-> 0]
  /\ editorSql = [t \in AiTabs |-> Typed]
  /\ draft = [t \in AiTabs |-> FALSE] /\ aiError = [t \in AiTabs |-> FALSE]
  /\ asking = NoTab

\* onPromptChange, from the text field or from a suggestion; neither is on the
\* screen while an answer is awaited.
TypePrompt ==
  /\ seen # NoTab /\ ChatShows(seen) # "waiting"
  /\ draft' = [draft EXCEPT ![seen] = ~@]
  /\ UNCHANGED <<seen, opened, chatVars, aiError, asking>>

\* handleSubmit and handleAiSubmit.
Submit ==
  /\ seen # NoTab /\ draft[seen] /\ asking = NoTab
  /\ draft' = [draft EXCEPT ![seen] = FALSE]
  /\ aiError' = [aiError EXCEPT ![seen] = FALSE]
  /\ asking' = [tab |-> seen, after |-> Context(seen)]
  /\ UNCHANGED <<seen, opened, chatVars>>

\* onSuccess; for a tab that is gone, the store changes nothing.
ReplyArrives(sql) ==
  /\ asking # NoTab
  /\ asking' = NoTab
  /\ IF asking.tab \in opened THEN AppendAiTurn(asking.tab, sql) ELSE UNCHANGED chatVars
  /\ UNCHANGED <<seen, opened, draft, aiError>>

\* onError.
ReplyFails ==
  /\ asking # NoTab
  /\ asking' = NoTab
  /\ aiError' = [aiError EXCEPT ![asking.tab] = asking.tab \in opened]
  /\ UNCHANGED <<seen, opened, chatVars, draft>>

\* onNavigate, by the chevrons: setAiTurnIndex puts that turn's SQL back into
\* the editor, over whatever has been typed there.
Navigate(i) ==
  /\ seen # NoTab /\ ChatShows(seen) = "turn"
  /\ i \in 1 .. Len(turnsOf[seen]) /\ i - turnIndex[seen] \in {-1, 1}
  /\ turnIndex' = [turnIndex EXCEPT ![seen] = i]
  /\ editorSql' = [editorSql EXCEPT ![seen] = turnsOf[seen][i].sql]
  /\ UNCHANGED <<seen, opened, turnsOf, draft, aiError, asking>>

\* The editor beside the chat; the welcome screen lies over it.
TypeSql ==
  /\ seen # NoTab /\ turnsOf[seen] # <<>>
  /\ editorSql' = [editorSql EXCEPT ![seen] = Typed]
  /\ UNCHANGED <<seen, opened, turnsOf, turnIndex, draft, aiError, asking>>

Activate(t) ==
  /\ t # seen /\ t \in opened \cup {NoTab}
  /\ seen' = t
  /\ UNCHANGED <<opened, chatVars, draft, aiError, asking>>

\* closeTab; the state of the tab goes with it.
CloseAiTab(t) ==
  /\ t \in opened
  /\ opened' = opened \ {t}
  /\ seen' = IF seen = t THEN NoTab ELSE seen
  /\ turnsOf' = [turnsOf EXCEPT ![t] = <<>>] /\ turnIndex' = [turnIndex EXCEPT ![t] = 0]
  /\ editorSql' = [editorSql EXCEPT ![t] = Typed]
  /\ draft' = [draft EXCEPT ![t] = FALSE] /\ aiError' = [aiError EXCEPT ![t] = FALSE]
  /\ UNCHANGED asking

\* A reload: the callbacks are gone, serializeForSave has left out prompts and
\* errors.
ReloadPanel ==
  /\ asking' = NoTab
  /\ draft' = [t \in AiTabs |-> FALSE] /\ aiError' = [t \in AiTabs |-> FALSE]
  /\ UNCHANGED <<seen, opened, chatVars>>

AiNext ==
  \/ TypePrompt
  \/ (seen # NoTab => Context(seen) < MaxTurns) /\ Submit
  \/ \E sql \in Replies : ReplyArrives(sql)
  \/ ReplyFails
  \/ \E i \in 1 .. MaxTurns + 1 : Navigate(i)
  \/ TypeSql
  \/ \E t \in AiTabs \cup {NoTab} : Activate(t)
  \/ \E t \in AiTabs : CloseAiTab(t)
  \/ ReloadPanel

AiSpec == AiInit /\ [][AiNext]_aiVars

(***************************************************************************)
(* Properties.                                                             *)
(***************************************************************************)
\* Types; a turn is shown exactly if there is one.
AiTypeOK ==
  /\ seen \in opened \cup {NoTab} /\ opened \subseteq AiTabs
  /\ asking \in [tab : AiTabs, after : Nat] \cup {NoTab}
  /\ turnsOf \in [AiTabs -> Seq(Turns)] /\ turnIndex \in [AiTabs -> Nat]
  /\ \A t \in AiTabs : IF turnsOf[t] = <<>> THEN turnIndex[t] = 0
                       ELSE turnIndex[t] \in 1 .. Len(turnsOf[t])
  /\ editorSql \in [AiTabs -> Replies \cup {Typed}]
  /\ draft \in [AiTabs -> BOOLEAN] /\ aiError \in [AiTabs -> BOOLEAN]

\* A conversation is one: every turn is of the tab it is in, and was asked with
\* exactly the turns before it as its context (TabPanel.tsx:142-152), whichever
\* tabs were activated or closed while the model was thinking.
TurnsFollowEachOther ==
  \A t \in AiTabs : \A i \in 1 .. Len(turnsOf[t]) :
    turnsOf[t][i].askedIn = t /\ turnsOf[t][i].after = i - 1

\* Why they do: nothing is added to the conversation that a question is open
\* in, because the question is the only one.
ContextStays ==
  asking # NoTab /\ asking.tab \in opened => asking.after = Context(asking.tab)

\* The editor has the SQL of the turn that the chat shows, unless the user has
\* changed it since (tabs.ts:278-297).
EditorShowsTurn ==
  \A t \in AiTabs : editorSql[t] # Typed =>
    turnIndex[t] # 0 /\ editorSql[t] = turnsOf[t][turnIndex[t]].sql

\* An error belongs to the newest question of its tab (TabPanel.tsx:140, 155):
\* it is never there while a later question of the tab is open.
ErrorOfNewestQuestion == asking # NoTab => ~aiError[asking.tab]
=============================================================================
