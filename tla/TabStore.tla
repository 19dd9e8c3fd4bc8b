------------------------------ MODULE TabStore ------------------------------
(***************************************************************************)
(* The tab store of the browser, frontend/src/stores/tabs.ts, with the     *)
(* handlers of the components that call it (TabBar, Sidebar, HistoryPanel, *)
(* SavedQueryList, AiChatPanel) and the document it saves to the server.   *)
(*                                                                         *)
(* JavaScript runs each handler to its end, so an action is a whole        *)
(* handler.  The code saves one second after the last change, and a save   *)
(* may fail or be overtaken, so a page load may find the document of any   *)
(* earlier moment, or none.  Here it finds the document of this moment, or *)
(* none: restoring an older one leads to a state that the load at the      *)
(* older moment leads to (opening and closing tabs there brings the        *)
(* counters of a running page up), so the reachable states are the same,   *)
(* and the properties of steps say nothing of loads.  Which save a load    *)
(* finds, and what is lost with it, is the subject of TabSync.             *)
(*                                                                         *)
(* A title is a number n for "Query n" or "AI Query n", or the name of a   *)
(* table or function, or Renamed for any other text.  userRenamed and      *)
(* aiRenamed only steer the automatic naming, which is QueryPanel's.       *)
(***************************************************************************)
EXTENDS Integers, SequencesExt, Filters

CONSTANTS
  TabIds,      \* values of crypto.randomUUID()
  Tables,      \* qualified names of tables
  Functions,   \* qualified names of functions
  Renamed,     \* a title that no counter gives
  None,        \* undefined
  MaxTabs,     \* bound: tabs open at once
  MaxCounter,  \* bound: the counters, from 2 and 1, each hand out MaxCounter - 1 numbers
  MaxTurns     \* bound: turns of an AI conversation

ASSUME BoundsPositive == {MaxTabs, MaxCounter, MaxTurns} \subseteq Nat \ {0}
ASSUME NamesDistinct ==
  /\ None \notin Tables \cup Functions \cup {Renamed}
  /\ (Tables \cup Functions \cup {Renamed, None}) \cap Nat = {}

VARIABLES
  tabs,          \* state.tabs, left to right
  activeTabId,   \* state.activeTabId
  queryCounter,  \* the module's queryCounter
  aiCounter      \* the module's aiCounter

vars == <<tabs, activeTabId, queryCounter, aiCounter>>

Titles == (1 .. MaxCounter + 1) \cup Tables \cup Functions \cup {Renamed}

Tab == [id : TabIds, type : {"query", "table", "function", "ai"}, title : Titles,
        tableName : Tables \cup {None}, functionName : Functions \cup {None},
        preview : BOOLEAN, sql : {"blank", "typed", "opened"},
        numbered : BOOLEAN,  \* ghost: the title is the one that a counter gave
        aiTurns : 0 .. MaxTurns, aiCurrentTurnIndex : 0 .. MaxTurns]

NewTab(id, type, title) ==
  [id |-> id, type |-> type, title |-> title, tableName |-> None,
   functionName |-> None, preview |-> FALSE, sql |-> "blank", numbered |-> TRUE,
   aiTurns |-> 0, aiCurrentTurnIndex |-> 0]

\* The titles that a tab is given later, by its user, by the model or by the
\* author of a saved query: any text, also one that a counter gives.
Texts == (1 .. MaxCounter) \cup {Renamed}

OpenTabs == ToSet(tabs)
OpenIds  == {tabs[i].id : i \in DOMAIN tabs}
TabOf(id) == CHOOSE t \in OpenTabs : t.id = id
FreshIds == TabIds \ OpenIds

\* s.tabs.map((t) => t.id === id ? {...t, ...updates} : t)
Updated(ts, id, Update(_)) ==
  [i \in DOMAIN ts |-> IF ts[i].id = id THEN Update(ts[i]) ELSE ts[i]]

\* The tab opens at the right end and becomes the active one.
Append1(tab) == tabs' = Append(tabs, tab) /\ activeTabId' = tab.id

Counters == <<queryCounter, aiCounter>>

(***************************************************************************)
(* Faulty variants of definitions below, one plausible slip each, that     *)
(* show what the properties guard against.  Not part of the specification. *)
(***************************************************************************)
\* A table that is open as a preview does not count as open.
PermanentTableTab(t, name) == t.type = "table" /\ t.tableName = name /\ ~t.preview

\* The body of addFunctionTab's replacement leaves the name of the table.
FunctionFieldsKeepTable(t, name) ==
  [t EXCEPT !.type = "function", !.title = name, !.functionName = name]

\* Any query tab counts as blank.
ActiveIsQuery == TabOf(activeTabId).type = "query"

\* Closing a tab does not look at whether it was the active one.
CloseTabKeepsActive(id) ==
  LET rest == Kept(tabs, {t \in OpenTabs : t.id # id}) IN
  /\ rest # << >>
  /\ tabs' = rest
  /\ UNCHANGED <<activeTabId, Counters>>

\* Switching tabs closes every object tab but the chosen one.
SetActiveTabClosesObjects(id) ==
  /\ tabs' = Kept(tabs, {t \in OpenTabs : t.type \in {"query", "ai"} \/ t.id = id})
  /\ activeTabId' = id
  /\ UNCHANGED Counters

(***************************************************************************)
(* Initial state: a first visit, nothing stored.                           *)
(***************************************************************************)
Init ==
  /\ \E id \in TabIds : tabs = <<NewTab(id, "query", 1)>> /\ activeTabId = id
  /\ queryCounter = 2
  /\ aiCounter = 1

(***************************************************************************)
(* Opening.                                                                *)
(***************************************************************************)
AddQueryTab ==
  /\ Len(tabs) < MaxTabs /\ queryCounter <= MaxCounter
  /\ \E id \in FreshIds : Append1(NewTab(id, "query", queryCounter))
  /\ queryCounter' = queryCounter + 1
  /\ UNCHANGED aiCounter

AddAiTab ==
  /\ Len(tabs) < MaxTabs /\ aiCounter < MaxCounter
  /\ \E id \in FreshIds : Append1(NewTab(id, "ai", aiCounter))
  /\ aiCounter' = aiCounter + 1
  /\ UNCHANGED queryCounter

PreviewTabs == Kept(tabs, {t \in OpenTabs : t.preview})

TableTab(t, name)    == t.type = "table" /\ t.tableName = name
FunctionTab(t, name) == t.type = "function" /\ t.functionName = name

\* A tab that shows the object is open: activate it, and pin it unless the
\* object was opened as a preview.
ActivateExisting(Shows(_), preview) ==
  LET existing == Kept(tabs, {t \in OpenTabs : Shows(t)})[1] IN
  /\ activeTabId' = existing.id
  /\ tabs' = Updated(tabs, existing.id,
                     LAMBDA t : [t EXCEPT !.preview = @ /\ preview])

\* Sidebar: a click previews a table, a double click opens it for good.
AddTableTab(name, preview) ==
  LET Shows(t) == TableTab(t, name)
      isOpen   == \E t \in OpenTabs : Shows(t) IN
  /\ \/ isOpen /\ ActivateExisting(Shows, preview)
     \/ /\ ~isOpen /\ preview /\ PreviewTabs # << >>
        /\ activeTabId' = PreviewTabs[1].id
        /\ tabs' = Updated(tabs, PreviewTabs[1].id,
                           LAMBDA t : [t EXCEPT !.title = name, !.tableName = name])
     \/ /\ ~isOpen /\ ~(preview /\ PreviewTabs # << >>)
        /\ Len(tabs) < MaxTabs
        /\ \E id \in FreshIds :
             Append1([NewTab(id, "table", name) EXCEPT !.tableName = name,
                                                       !.preview = preview])
  /\ UNCHANGED Counters

\* What addFunctionTab writes over a preview of either kind.
FunctionFields(t, name) ==
  [t EXCEPT !.type = "function", !.title = name,
            !.tableName = None, !.functionName = name]

AddFunctionTab(name, preview) ==
  LET Shows(t) == FunctionTab(t, name)
      isOpen   == \E t \in OpenTabs : Shows(t) IN
  /\ \/ isOpen /\ ActivateExisting(Shows, preview)
     \/ /\ ~isOpen /\ preview /\ PreviewTabs # << >>
        /\ activeTabId' = PreviewTabs[1].id
        /\ tabs' = Updated(tabs, PreviewTabs[1].id, LAMBDA t : FunctionFields(t, name))
     \/ /\ ~isOpen /\ ~(preview /\ PreviewTabs # << >>)
        /\ Len(tabs) < MaxTabs
        /\ \E id \in FreshIds :
             Append1([NewTab(id, "function", name) EXCEPT !.functionName = name,
                                                          !.preview = preview])
  /\ UNCHANGED Counters

\* The active tab is a query tab without SQL, which an opened query may use.
ActiveIsBlank == TabOf(activeTabId).type = "query" /\ TabOf(activeTabId).sql = "blank"

\* handleOpen of HistoryPanel, and of SavedQueryList, which also takes over the
\* query's title: use the active tab if it is blank, else a new one.
OpenQuery(title) ==
  LET Filled(t) == IF title = None THEN [t EXCEPT !.sql = "opened"]
                   ELSE [t EXCEPT !.sql = "opened", !.title = title,
                                  !.numbered = FALSE] IN
  \/ /\ ActiveIsBlank
     /\ tabs' = Updated(tabs, activeTabId, Filled)
     /\ UNCHANGED <<activeTabId, Counters>>
  \/ /\ ~ActiveIsBlank
     /\ Len(tabs) < MaxTabs /\ queryCounter <= MaxCounter
     /\ \E id \in FreshIds : Append1(Filled(NewTab(id, "query", queryCounter)))
     /\ queryCounter' = queryCounter + 1
     /\ UNCHANGED aiCounter

(***************************************************************************)
(* Working with open tabs.                                                 *)
(***************************************************************************)
PinTab(id) ==
  /\ tabs' = Updated(tabs, id, LAMBDA t : [t EXCEPT !.preview = FALSE])
  /\ UNCHANGED <<activeTabId, Counters>>

\* Closing the active tab activates the first of those that remain; closing the
\* last one opens a blank query tab.
CloseTab(id) ==
  LET rest == Kept(tabs, {t \in OpenTabs : t.id # id}) IN
  \/ /\ rest # << >>
     /\ tabs' = rest
     /\ activeTabId' = IF activeTabId = id THEN rest[1].id ELSE activeTabId
     /\ UNCHANGED Counters
  \/ /\ rest = << >> /\ queryCounter <= MaxCounter
     /\ \E new \in FreshIds : tabs' = <<NewTab(new, "query", queryCounter)>>
                              /\ activeTabId' = new
     /\ queryCounter' = queryCounter + 1
     /\ UNCHANGED aiCounter

\* A click on a tab: previews other than it are closed.
SetActiveTab(id) ==
  /\ tabs' = Kept(tabs, {t \in OpenTabs : ~(t.preview /\ t.id # id)})
  /\ activeTabId' = id
  /\ UNCHANGED Counters

\* TabBar offers renaming for query and AI tabs, and TabPanel puts in the name
\* that the model found for the first query of a tab.
RenameTab(id, title) ==
  /\ TabOf(id).type \in {"query", "ai"}
  /\ tabs' = Updated(tabs, id, LAMBDA t : [t EXCEPT !.title = title,
                                                    !.numbered = FALSE])
  /\ UNCHANGED <<activeTabId, Counters>>

\* splice(from, 1), then splice(to, 0, moved).
ReorderTabs(from, to) ==
  /\ from # to
  /\ tabs' = InsertAt(RemoveAt(tabs, from), to, tabs[from])
  /\ UNCHANGED <<activeTabId, Counters>>

\* The user types into the editor of a query or AI tab.
EditSql(id) ==
  /\ TabOf(id).type \in {"query", "ai"}
  /\ \E sql \in {"blank", "typed"} :
       tabs' = Updated(tabs, id, LAMBDA t : [t EXCEPT !.sql = sql])
  /\ UNCHANGED <<activeTabId, Counters>>

\* An answer of the model becomes the last turn and is shown.
AppendAiTurn(id) ==
  /\ TabOf(id).type = "ai" /\ TabOf(id).aiTurns < MaxTurns
  /\ tabs' = Updated(tabs, id, LAMBDA t : [t EXCEPT !.aiTurns = @ + 1,
                                                    !.aiCurrentTurnIndex = t.aiTurns,
                                                    !.sql = "opened"])
  /\ UNCHANGED <<activeTabId, Counters>>

\* Math.max(0, Math.min(index, turns.length - 1))
Clamp(index, turns) ==
  IF index > turns - 1 THEN (IF turns = 0 THEN 0 ELSE turns - 1)
  ELSE IF index < 0 THEN 0 ELSE index

\* The arrows of the AI panel: one turn back or forth.
SetAiTurnIndex(id, index) ==
  LET shown == Clamp(index, TabOf(id).aiTurns) IN
  /\ TabOf(id).type = "ai"
  /\ tabs' = Updated(tabs, id, LAMBDA t :
                [t EXCEPT !.aiCurrentTurnIndex = shown,
                          !.sql = IF t.aiTurns = 0 THEN "blank" ELSE "opened"])
  /\ UNCHANGED <<activeTabId, Counters>>

(***************************************************************************)
(* The saved document.                                                     *)
(***************************************************************************)
\* serializeForSave: previews are not persisted; activeTabId is, even when it
\* names one of them.
SerializeForSave ==
  [tabs |-> Kept(tabs, {t \in OpenTabs : ~t.preview}), activeTabId |-> activeTabId]

\* One more than every number that a restored tab of the type has in its title.
NextNumber(ts, type, counter) ==
  LET used == {t.title : t \in {u \in ToSet(ts) : u.type = type}}
              \cap (1 .. MaxCounter + 1) IN
  CHOOSE n \in 1 .. MaxCounter + 2 :
    /\ n >= counter /\ \A u \in used : u < n
    /\ n = counter \/ n - 1 \in used

\* initFromServer has its answer, in a page whose counters stand at query and ai.
Restore(saved, query, ai) ==
  /\ saved.tabs # << >>
  /\ tabs' = saved.tabs
  /\ activeTabId' = IF \E t \in ToSet(saved.tabs) : t.id = saved.activeTabId
                    THEN saved.activeTabId ELSE saved.tabs[1].id
  /\ queryCounter' = NextNumber(saved.tabs, "query", query)
  /\ aiCounter' = NextNumber(saved.tabs, "ai", ai)

\* The page is loaded: the module starts afresh with "Query 1", and stays so
\* unless the server knows of tabs and answers.
Reload ==
  \/ Restore(SerializeForSave, 2, 1)
  \/ /\ \E id \in TabIds : tabs' = <<NewTab(id, "query", 1)>> /\ activeTabId' = id
     /\ queryCounter' = 2
     /\ aiCounter' = 1

\* The user has connected in the dialog (again, after a disconnect, or while the
\* tabs are in use already): the tabs of the running page are replaced.
InitFromServer == Restore(SerializeForSave, queryCounter, aiCounter)

(***************************************************************************)
(* The specification.                                                      *)
(***************************************************************************)
UserStep(id) ==
  \/ PinTab(id) \/ CloseTab(id) \/ SetActiveTab(id) \/ EditSql(id)
  \/ \E title \in Texts : RenameTab(id, title)
  \/ AppendAiTurn(id)
  \/ \E step \in {-1, 1} : SetAiTurnIndex(id, TabOf(id).aiCurrentTurnIndex + step)

Next ==
  \/ AddQueryTab \/ AddAiTab \/ \E title \in Texts \cup {None} : OpenQuery(title)
  \/ \E T \in Tables, preview \in BOOLEAN : AddTableTab(T, preview)
  \/ \E F \in Functions, preview \in BOOLEAN : AddFunctionTab(F, preview)
  \/ \E id \in OpenIds : UserStep(id)
  \/ \E from, to \in DOMAIN tabs : ReorderTabs(from, to)
  \/ Reload \/ InitFromServer

Spec == Init /\ [][Next]_vars

(***************************************************************************)
(* Properties.                                                             *)
(***************************************************************************)
\* Types; there is always a tab, and no two have the same id.
TypeOK ==
  /\ tabs \in Seq(Tab) /\ tabs # << >>
  /\ \A i, j \in DOMAIN tabs : tabs[i].id = tabs[j].id => i = j
  /\ activeTabId \in TabIds
  /\ queryCounter \in 1 .. MaxCounter + 2
  /\ aiCounter \in 1 .. MaxCounter + 2

\* AppShell always finds the active tab, whatever is closed, replaced, dropped
\* as a preview, or restored from a document whose active tab was a preview.
ActiveTabOpen == activeTabId \in OpenIds

\* At most one tab is a preview (tabs.ts:30), and it is a tab of the sidebar.
OnePreview ==
  \A i, j \in DOMAIN tabs : tabs[i].preview /\ tabs[j].preview =>
    i = j /\ tabs[i].type \in {"table", "function"}

\* An object of the database is open in at most one tab of its kind, however its
\* previews are opened, replaced, pinned, stored and restored.
ObjectOpenOnce ==
  \A i, j \in DOMAIN tabs :
    /\ tabs[i].type = tabs[j].type
    /\ \/ tabs[i].type = "table" /\ tabs[i].tableName = tabs[j].tableName
       \/ tabs[i].type = "function" /\ tabs[i].functionName = tabs[j].functionName
    => i = j

\* A tab of the sidebar bears the name of the object it shows, however previews
\* of the two kinds replace each other, but for one case: a table previewed over
\* a function leaves the type (tabs.ts:155), so the tab bears the table's name and
\* goes on showing the function.  That, and no other mix of names, can be told
\* from the two names of such a tab.
TitleNamesObject ==
  \A t \in OpenTabs :
    /\ t.type = "table" => t.title = t.tableName
    /\ t.type = "function" =>
         /\ t.functionName # None
         /\ t.title = IF t.tableName = None THEN t.functionName ELSE t.tableName

\* "so new tabs don't collide with restored names" (tabs.ts:93): the counters
\* are ahead of every title they gave to a tab that is open, in this page or in
\* an earlier one, so no two tabs are given the same; a text that the user typed,
\* that was saved with a query or that the model found may be any, also the next.
CountersAhead ==
  \A t \in OpenTabs : t.numbered /\ t.title \in Nat =>
    /\ t.type = "query" => t.title < queryCounter
    /\ t.type = "ai" => t.title < aiCounter

\* The AI panel points at a turn that exists.
AiTurnExists ==
  \A t \in OpenTabs : t.aiTurns > 0 => t.aiCurrentTurnIndex < t.aiTurns

\* What the bar of tabs takes for granted after any sequence of operations.
TabsInv == TypeOK /\ ActiveTabOpen /\ OnePreview /\ CountersAhead /\ AiTurnExists

\* The tabs are replaced by those of a document, with the page or within it.
LoadsTabs == Reload \/ InitFromServer

\* As long as no document is loaded, a tab that is not a preview disappears only
\* when the user closes it: no preview replaces it, no switch of tabs drops it,
\* and no reordering loses it (tabs.ts:132-300).  What a load brings back depends
\* on which save arrived last (tabs.ts:306, 321-324).
PermanentTabsStay ==
  [][\A i \in DOMAIN tabs : ~tabs[i].preview /\ tabs[i].id \notin OpenIds' =>
       CloseTab(tabs[i].id) \/ LoadsTabs]_vars

\* As long as no document is loaded, SQL that the user typed into a query tab is
\* changed by his typing only: a query opened from the history or from the list of
\* saved queries never lands on top of it (SavedQueryList.tsx:29), and no
\* answer of the model goes to his tab.
TypedSqlStays ==
  [][\A i \in DOMAIN tabs : tabs[i].type = "query" /\ tabs[i].sql = "typed" =>
       \/ \E j \in DOMAIN tabs' : tabs'[j].id = tabs[i].id /\ tabs'[j].sql = "typed"
       \/ EditSql(tabs[i].id) \/ CloseTab(tabs[i].id) \/ LoadsTabs]_vars
=============================================================================
