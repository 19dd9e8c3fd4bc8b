----------------------------- MODULE QueryPanel -----------------------------
(***************************************************************************)
(* Running SQL from the browser: frontend/src/components/tabs/TabPanel.tsx *)
(* over the mutation hooks of api/queries.ts.                              *)
(*                                                                         *)
(* AppShell renders one TabPanel for whatever tab is active, so isRunning  *)
(* and result belong to the panel, not to a tab.  Every handler closes     *)
(* over the tab as it was rendered when the handler was created; the       *)
(* callbacks passed to mutate fire only for the latest call of that        *)
(* mutation (TanStack Query), and the name that the model gives a tab      *)
(* arrives whenever it likes.                                              *)
(***************************************************************************)
EXTENDS Naturals, FiniteSets

CONSTANTS
  Runs,  \* calls of handleRun and handleExplain, one name each
  Tabs,  \* the query tabs that are open
  NoRun  \* no call yet, no result shown

ASSUME NoRunDistinct == NoRun \notin Runs

VARIABLES
  active,       \* the tab the panel is rendered for
  title,        \* where each tab's title is from
  userRenamed,  \* tab.userRenamed
  aiRenamed,    \* tab.aiRenamed
  isRunning,    \* state of the panel
  result,       \* the call whose result the panel shows
  latest,       \* per mutation hook, its latest call
  call,         \* how far each call is
  tabOf,        \* the tab.id in the closure of each call
  mayName,      \* !tab.userRenamed && !tab.aiRenamed in that closure
  naming        \* the request for a name that follows a successful run

tabVars  == <<active, title, userRenamed, aiRenamed>>
callVars == <<isRunning, result, latest, call, tabOf, mayName, naming>>
vars == <<active, title, userRenamed, aiRenamed, isRunning, result, latest,
          call, tabOf, mayName, naming>>

Hooks == {"run", "explain"}

(***************************************************************************)
(* Faulty variants: one plausible slip each, not part of the specification.*)
(***************************************************************************)
\* onError forgets setIsRunning(false).
AnswerErrorKeepsSpinner(h, r, outcome) ==
  /\ call[r] = h
  /\ call' = [call EXCEPT ![r] = "answered"]
  /\ IF latest[h] = r
     THEN /\ result' = r
          /\ isRunning' = (isRunning /\ outcome = "failed")
          /\ IF h = "run" /\ outcome = "ok" /\ mayName[r]
             THEN /\ aiRenamed' = [aiRenamed EXCEPT ![tabOf[r]] = TRUE]
                  /\ naming' = [naming EXCEPT ![r] = "asked"]
             ELSE UNCHANGED <<aiRenamed, naming>>
     ELSE UNCHANGED <<result, isRunning, aiRenamed, naming>>
  /\ UNCHANGED <<active, title, userRenamed, latest, tabOf, mayName>>

\* The tab is marked as named only when the name arrives.
AnswerMarksLater(h, r, outcome) ==
  /\ call[r] = h
  /\ call' = [call EXCEPT ![r] = "answered"]
  /\ IF latest[h] = r
     THEN /\ result' = r /\ isRunning' = FALSE
          /\ naming' = IF h = "run" /\ outcome = "ok" /\ mayName[r]
                       THEN [naming EXCEPT ![r] = "asked"] ELSE naming
     ELSE UNCHANGED <<result, isRunning, naming>>
  /\ UNCHANGED <<tabVars, latest, tabOf, mayName>>

(***************************************************************************)
(* The panel.                                                              *)
(***************************************************************************)
Init ==
  /\ active \in Tabs
  /\ title = [t \in Tabs |-> "generated"]
  /\ userRenamed = [t \in Tabs |-> FALSE]
  /\ aiRenamed = [t \in Tabs |-> FALSE]
  /\ isRunning = FALSE
  /\ result = NoRun
  /\ latest = [h \in Hooks |-> NoRun]
  /\ call = [r \in Runs |-> "new"]
  /\ tabOf \in {[r \in Runs |-> t] : t \in Tabs}
  /\ mayName = [r \in Runs |-> FALSE]
  /\ naming = [r \in Runs |-> "none"]

\* handleRun, handleExplain: the buttons are disabled while isRunning, the
\* editor's key bindings are not.
Mutate(h, r) ==
  /\ call[r] = "new"
  /\ call' = [call EXCEPT ![r] = h]
  /\ isRunning' = TRUE
  /\ latest' = [latest EXCEPT ![h] = r]
  /\ tabOf' = [tabOf EXCEPT ![r] = active]
  /\ mayName' = [mayName EXCEPT ![r] = ~userRenamed[active] /\ ~aiRenamed[active]]
  /\ UNCHANGED <<tabVars, result, naming>>

\* onSuccess (ok, or an SQL error inside a result) and onError (failed).
Answer(h, r, outcome) ==
  /\ call[r] = h
  /\ call' = [call EXCEPT ![r] = "answered"]
  /\ IF latest[h] = r
     THEN /\ result' = r
          /\ isRunning' = FALSE
          /\ IF h = "run" /\ outcome = "ok" /\ mayName[r]
             THEN /\ aiRenamed' = [aiRenamed EXCEPT ![tabOf[r]] = TRUE]
                  /\ naming' = [naming EXCEPT ![r] = "asked"]
             ELSE UNCHANGED <<aiRenamed, naming>>
     ELSE UNCHANGED <<result, isRunning, aiRenamed, naming>>
  /\ UNCHANGED <<active, title, userRenamed, latest, tabOf, mayName>>

\* autoNameTab resolves to a name, or to null.
NameArrives(r) ==
  /\ naming[r] = "asked"
  /\ naming' = [naming EXCEPT ![r] = "answered"]
  /\ \/ /\ title' = [title EXCEPT ![tabOf[r]] = "model"]
        /\ aiRenamed' = [aiRenamed EXCEPT ![tabOf[r]] = TRUE]
     \/ UNCHANGED <<title, aiRenamed>>
  /\ UNCHANGED <<active, userRenamed, isRunning, result, latest, call, tabOf, mayName>>

\* renameTab, from a double click on the tab.
RenameTab(t) ==
  /\ title' = [title EXCEPT ![t] = "user"]
  /\ userRenamed' = [userRenamed EXCEPT ![t] = TRUE]
  /\ UNCHANGED <<active, aiRenamed, callVars>>

\* setActiveTab: the panel is rendered for another tab and keeps its state.
SetActiveTab(t) ==
  /\ active' = t
  /\ UNCHANGED <<title, userRenamed, aiRenamed, callVars>>

CallStep(r) ==
  \/ \E h \in Hooks : Mutate(h, r)
  \/ \E h \in Hooks, outcome \in {"ok", "sqlError", "failed"} : Answer(h, r, outcome)
  \/ NameArrives(r)

Next ==
  \/ \E r \in Runs : CallStep(r)
  \/ \E t \in Tabs : RenameTab(t) \/ SetActiveTab(t)

Spec == Init /\ [][Next]_vars

(***************************************************************************)
(* Properties.                                                             *)
(***************************************************************************)
\* Types; and the panel shows the result of a call that was answered.
TypeOK ==
  /\ active \in Tabs /\ isRunning \in BOOLEAN
  /\ title \in [Tabs -> {"generated", "model", "user"}]
  /\ userRenamed \in [Tabs -> BOOLEAN] /\ aiRenamed \in [Tabs -> BOOLEAN]
  /\ result \in Runs \cup {NoRun}
  /\ latest \in [Hooks -> Runs \cup {NoRun}]
  /\ call \in [Runs -> {"new", "run", "explain", "answered"}]
  /\ tabOf \in [Runs -> Tabs]
  /\ mayName \in [Runs -> BOOLEAN]
  /\ naming \in [Runs -> {"none", "asked", "answered"}]
  /\ result # NoRun => call[result] = "answered"

\* The panel is never stuck with a Cancel button and nothing to wait for: while
\* it says that something is running, the latest run or the latest explain is
\* still unanswered, and its answer will reset the panel (TabPanel.tsx:62-87),
\* although the answers of all earlier calls are ignored.
SpinnerHasCall ==
  isRunning => \E h \in Hooks : latest[h] \in Runs /\ call[latest[h]] = h

\* "Set to true after AI has auto-named this tab (prevents running again)"
\* (tabs.ts:34): the model is asked for a tab's name at most once, however many
\* runs of the tab overlap.
NamedOnce ==
  \A q, r \in Runs : naming[q] # "none" /\ naming[r] # "none" /\ tabOf[q] = tabOf[r]
    => q = r

\* Why at most one: the tab of a name request is marked, and of the runs that
\* were started before it was marked only the latest is still listened to.
NamingLife ==
  /\ \A q \in Runs : naming[q] # "none" => call[q] = "answered" /\ aiRenamed[tabOf[q]]
  /\ \A r \in Runs : latest["run"] = r /\ call[r] = "run" /\ mayName[r] =>
       \A q \in Runs : naming[q] # "none" => tabOf[q] # tabOf[r]

\* The inductive invariant behind the theorems about this module.
IndInv == TypeOK /\ SpinnerHasCall /\ NamedOnce /\ NamingLife

\* "if not manually renamed" (TabPanel.tsx:69): the model's name never replaces
\* one that the user gave.  It does not hold: see run panel_user_title.
UserTitleStays == \A t \in Tabs : userRenamed[t] => title[t] = "user"
=============================================================================
