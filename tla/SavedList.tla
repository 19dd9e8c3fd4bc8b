------------------------------ MODULE SavedList ------------------------------
(***************************************************************************)
(* The saved queries as the sidebar lists, edits and deletes them, in one  *)
(* browser window: components/saved-queries/SavedQueryList.tsx and         *)
(* SaveQueryDialog.tsx as Sidebar.tsx opens it, the four hooks of          *)
(* api/queries.ts under the key ['saved-queries', database], and the       *)
(* handlers of pkg/api/handlers_saved.go.  SavedQueries has the bucket and *)
(* the shared files, EditorPanel the dialog as a tab opens it.             *)
(*                                                                         *)
(* The list is of the database that the connection store names when it is  *)
(* drawn; a switch moves it to another key.  The dialog keeps the row as   *)
(* it was when Edit was clicked, and writes all of it, with the database   *)
(* of the time when Save is clicked.  Title, description and tags, and the *)
(* search over them, tell no rows apart here.  Bounds: one call at a time  *)
(* about a query, MaxCalls calls and MaxSwitches switches in a behaviour.  *)
(***************************************************************************)
EXTENDS Naturals

CONSTANTS
  SavedIds,  \* the ids of queries; newID never makes one again
  ListDbs,   \* the databases
  Global,    \* the database '' of a query that is listed everywhere
  SqlTexts,  \* the SQL of queries
  Unborn,    \* a query that was not created yet
  Gone,      \* one that was deleted
  Nothing,   \* no list, no answer, no call, no dialog, no confirmation
  MaxCalls,  \* bound on the calls sent
  MaxSwitches \* bound on the switches asked for

VARIABLES
  stored,    \* the bucket saved_queries
  listDb,    \* info.database of the connection store
  moving,    \* the database that a switch on its way goes to
  savedOpen, \* the section Saved of the sidebar is open
  lists,     \* the cache, per database
  confirm,   \* confirmDelete: the row that offers Delete and No
  newest,    \* the query that the newest mutate of the list's delete is about
  calls,     \* per query, the call on its way
  editing,   \* the sidebar's dialog, with the row it was opened on
  sent       \* the calls and the switches sent so far

listUi   == <<savedOpen, confirm, newest>>
listVars == <<stored, listDb, moving, savedOpen, lists, confirm, newest, calls, editing,
              sent>>

Row == [database : ListDbs \cup {Global}, sql : SqlTexts]
Exists(i) == stored[i] \notin {Unborn, Gone}

Calls == [kind : {"delete"}, written : BOOLEAN]
         \cup [kind : {"create", "update"}, written : BOOLEAN, steady : BOOLEAN, row : Row]

ASSUME NothingDistinct == Nothing \notin ListDbs \cup SavedIds \cup Calls
ASSUME NotStoredDistinct == {Unborn, Gone} \cap Row = {} /\ Unborn # Gone

\* One entry of the cache.  behind is not in the code: the "data", or what the
\* "fetch" will bring, may miss a change that was not followed by a new fetch.
NoEntry == [data |-> Nothing, outdated |-> FALSE, fetching |-> FALSE, answer |-> Nothing,
            behind |-> {}]

\* ListSavedQueries: the queries of the database, and the global ones.
Listing(d) ==
  [i \in {j \in SavedIds : Exists(j) /\ stored[j].database \in {d, Global}} |-> stored[i]]

OnScreenDb(d) == savedOpen /\ listDb = d
Listings == UNION {[S -> Row] : S \in SUBSET SavedIds}

Rows(d) == IF OnScreenDb(d) /\ lists[d].data # Nothing THEN DOMAIN lists[d].data ELSE {}

(***************************************************************************)
(* The cache.  The onSuccess of the hooks invalidates the lists of all     *)
(* databases, and fetches the one on the screen.                           *)
(***************************************************************************)
\* Faulty: only the list on the screen is invalidated, by its whole key.
InvalidatedIfShown(d) ==
  IF OnScreenDb(d) /\ lists[d].data # Nothing
  THEN [lists[d] EXCEPT !.outdated = TRUE, !.fetching = TRUE, !.answer = Nothing,
                        !.behind = @ \ {"fetch"}]
  ELSE lists[d]

Invalidated(d) ==
  LET c == lists[d]
      again == OnScreenDb(d) /\ (~c.fetching \/ c.data # Nothing)
  IN [c EXCEPT
       !.outdated = @ \/ c.data # Nothing,
       !.fetching = @ \/ again,
       !.answer = IF again THEN Nothing ELSE @,
       !.behind = IF again THEN @ \ {"fetch"}
                  ELSE IF c.fetching THEN @ \cup {"fetch"} ELSE @]

\* What a change that the page does not hear of leaves behind.
Unheard(d) == [lists[d] EXCEPT !.behind = {"data", "fetch"}]

\* useSavedQueries is mounted, or its key changes: staleTime is 0.
Observed(d) == [lists EXCEPT ![d].fetching = TRUE,
                             ![d].behind = IF lists[d].fetching THEN @ ELSE @ \ {"fetch"}]

ListInit ==
  /\ stored \in [SavedIds -> {Unborn} \cup Row]
  /\ listDb \in ListDbs /\ moving = Nothing
  /\ savedOpen = FALSE
  /\ lists = [d \in ListDbs |-> NoEntry]
  /\ confirm = Nothing /\ newest = Nothing
  /\ calls = [i \in SavedIds |-> Nothing]
  /\ editing = Nothing
  /\ sent = [calls |-> 0, switches |-> 0]

OpenSaved ==
  /\ ~savedOpen /\ editing = Nothing
  /\ savedOpen' = TRUE
  /\ lists' = Observed(listDb)
  /\ UNCHANGED <<stored, listDb, moving, confirm, newest, calls, editing, sent>>

\* The list is unmounted, and with it its confirmation and its callbacks.
LeaveSaved ==
  /\ savedOpen /\ editing = Nothing
  /\ savedOpen' = FALSE /\ confirm' = Nothing /\ newest' = Nothing
  /\ UNCHANGED <<stored, listDb, moving, lists, calls, editing, sent>>

\* Unobserved data is dropped after gcTime.
CollectList(d) ==
  /\ ~OnScreenDb(d) /\ ~lists[d].fetching /\ lists[d].data # Nothing
  /\ lists' = [lists EXCEPT ![d] = NoEntry]
  /\ UNCHANGED <<stored, listDb, moving, listUi, calls, editing, sent>>

ServerListsSaved(d) ==
  /\ lists[d].fetching /\ lists[d].answer = Nothing
  /\ lists' = [lists EXCEPT ![d].answer = Listing(d)]
  /\ UNCHANGED <<stored, listDb, moving, listUi, calls, editing, sent>>

ListArrives(d) ==
  /\ lists[d].answer # Nothing
  /\ lists' = [lists EXCEPT ![d] =
       [NoEntry EXCEPT !.data = lists[d].answer,
                       !.behind = IF "fetch" \in lists[d].behind THEN {"data"} ELSE {}]]
  /\ UNCHANGED <<stored, listDb, moving, listUi, calls, editing, sent>>

\* The retry, while the list is on the screen, asks anew; that there is one only
\* makes no difference here.
ListFails(d) ==
  /\ lists[d].fetching
  /\ \E again \in {FALSE, OnScreenDb(d)} :
       lists' = [lists EXCEPT ![d].fetching = again, ![d].answer = Nothing,
                              ![d].behind = @ \ {"fetch"}]
  /\ UNCHANGED <<stored, listDb, moving, listUi, calls, editing, sent>>

(***************************************************************************)
(* The switch of databases.  The dialog covers the page, so that none can  *)
(* be asked for while it is open; one may be answered then.                *)
(***************************************************************************)
AskSwitch(d) ==
  /\ editing = Nothing /\ moving = Nothing /\ d # listDb
  /\ sent.switches < MaxSwitches
  /\ moving' = d
  /\ sent' = [sent EXCEPT !.switches = @ + 1]
  /\ UNCHANGED <<stored, listDb, listUi, lists, calls, editing>>

SwitchAnswered ==
  /\ moving # Nothing
  /\ moving' = Nothing
  /\ \/ UNCHANGED <<listDb, lists, editing>>
     \/ /\ listDb' = moving
        /\ lists' = IF savedOpen THEN Observed(moving) ELSE lists
        /\ editing' = IF editing = Nothing THEN Nothing
                      ELSE [editing EXCEPT !.steady = FALSE]
  /\ UNCHANGED <<stored, listUi, calls, sent>>

\* A call about a query is sent, within the bound.
Send(i, call) ==
  /\ calls[i] = Nothing /\ sent.calls < MaxCalls
  /\ calls' = [calls EXCEPT ![i] = call]
  /\ sent' = [sent EXCEPT !.calls = @ + 1]

(***************************************************************************)
(* Deleting: the bin, then Delete or No.                                   *)
(***************************************************************************)
AskDelete(i) ==
  /\ i \in Rows(listDb) /\ editing = Nothing /\ confirm # i
  /\ confirm' = i
  /\ UNCHANGED <<stored, listDb, moving, savedOpen, newest, lists, calls, editing, sent>>

SayNo ==
  /\ confirm \in Rows(listDb) /\ editing = Nothing
  /\ confirm' = Nothing
  /\ UNCHANGED <<stored, listDb, moving, savedOpen, newest, lists, calls, editing, sent>>

PressDelete(i) ==
  /\ confirm = i /\ i \in Rows(listDb) /\ editing = Nothing
  /\ Send(i, [kind |-> "delete", written |-> FALSE])
  /\ newest' = i
  /\ UNCHANGED <<stored, listDb, moving, savedOpen, confirm, lists, editing>>

(***************************************************************************)
(* Saving, from the dialog of the sidebar and from that of a tab.          *)
(***************************************************************************)
\* The open list at rest: it is as the server has it.
AtRest(d) ==
  /\ OnScreenDb(d)
  /\ lists[d].data # Nothing /\ ~lists[d].fetching
  /\ ~lists[d].outdated /\ "data" \notin lists[d].behind

\* steady is not in the code: the row was that of the server, nothing is under
\* way that will change it, and no switch was answered since.
Edit(i) ==
  /\ i \in Rows(listDb) /\ editing = Nothing
  /\ editing' = [id |-> i, row |-> lists[listDb].data[i], sent |-> FALSE,
                 steady |-> AtRest(listDb) /\ calls[i] = Nothing]
  /\ UNCHANGED <<stored, listDb, moving, listUi, lists, calls, sent>>

CloseEdit ==
  /\ editing # Nothing
  /\ editing' = Nothing
  /\ UNCHANGED <<stored, listDb, moving, listUi, lists, calls, sent>>

\* Faulty: the dialog is not given the database, which defaults to ''.
SaveEditEverywhere ==
  /\ editing # Nothing /\ ~editing.sent
  /\ Send(editing.id, [kind |-> "update", written |-> FALSE, steady |-> editing.steady,
                       row |-> [database |-> Global, sql |-> editing.row.sql]])
  /\ editing' = [editing EXCEPT !.sent = TRUE]
  /\ UNCHANGED <<stored, listDb, moving, listUi, lists>>

SaveEdit ==
  /\ editing # Nothing /\ ~editing.sent
  /\ Send(editing.id, [kind |-> "update", written |-> FALSE, steady |-> editing.steady,
                       row |-> [database |-> listDb, sql |-> editing.row.sql]])
  /\ editing' = [editing EXCEPT !.sent = TRUE]
  /\ UNCHANGED <<stored, listDb, moving, listUi, lists>>

\* A tab creates a query, or updates the one it was opened from.
SaveFromTab(i, sql) ==
  /\ editing = Nothing
  /\ Send(i, [kind |-> IF stored[i] = Unborn THEN "create" ELSE "update",
              written |-> FALSE, steady |-> FALSE, row |-> [database |-> listDb, sql |-> sql]])
  /\ UNCHANGED <<stored, listDb, moving, listUi, lists, editing>>

\* UpdateSavedQuery refuses an id that is not there; deleting one is no error.
ServerWrites(i) ==
  /\ calls[i] # Nothing /\ ~calls[i].written
  /\ calls[i].kind = "update" => Exists(i)
  /\ stored' = [stored EXCEPT ![i] = IF calls[i].kind = "delete" THEN Gone ELSE calls[i].row]
  /\ calls' = [calls EXCEPT ![i].written = TRUE]
  /\ UNCHANGED <<listDb, moving, listUi, lists, editing, sent>>

\* The hook's onSuccess, then that of the mutate call: the list's newest one
\* resets confirmDelete, whichever row that is by now, and the dialog closes.
CallAnswered(i) ==
  /\ calls[i] # Nothing /\ calls[i].written
  /\ calls' = [calls EXCEPT ![i] = Nothing]
  /\ lists' = [d \in ListDbs |-> Invalidated(d)]
  /\ LET reset == calls[i].kind = "delete" /\ newest = i IN
       /\ confirm' = IF reset THEN Nothing ELSE confirm
       /\ newest' = IF reset THEN Nothing ELSE newest
  /\ editing' = IF editing # Nothing /\ editing.id = i /\ editing.sent THEN Nothing
                ELSE editing
  /\ UNCHANGED <<stored, listDb, moving, savedOpen, sent>>

\* The call fails, or its answer is lost: onError, and the dialog stays.
CallFails(i) ==
  /\ calls[i] # Nothing
  /\ calls' = [calls EXCEPT ![i] = Nothing]
  /\ lists' = IF calls[i].written THEN [d \in ListDbs |-> Unheard(d)] ELSE lists
  /\ newest' = IF newest = i THEN Nothing ELSE newest
  /\ editing' = IF editing # Nothing /\ editing.id = i THEN [editing EXCEPT !.sent = FALSE]
                ELSE editing
  /\ UNCHANGED <<stored, listDb, moving, savedOpen, confirm, sent>>

ListNext ==
  \/ OpenSaved \/ LeaveSaved \/ SwitchAnswered \/ SayNo \/ CloseEdit \/ SaveEdit
  \/ \E d \in ListDbs : CollectList(d) \/ ServerListsSaved(d) \/ ListArrives(d)
                        \/ ListFails(d) \/ AskSwitch(d)
  \/ \E i \in SavedIds : AskDelete(i) \/ PressDelete(i) \/ Edit(i) \/ ServerWrites(i)
                         \/ CallAnswered(i) \/ CallFails(i)
  \/ \E i \in SavedIds, sql \in SqlTexts : SaveFromTab(i, sql)

ListSpec == ListInit /\ [][ListNext]_listVars

(***************************************************************************)
(* Properties.                                                             *)
(***************************************************************************)
\* Types, and the dialog that waits waits for a call.
ListTypeOK ==
  /\ stored \in [SavedIds -> {Unborn, Gone} \cup Row]
  /\ listDb \in ListDbs /\ moving \in ListDbs \cup {Nothing} /\ savedOpen \in BOOLEAN
  /\ {confirm, newest} \subseteq SavedIds \cup {Nothing}
  /\ lists \in [ListDbs -> [data : Listings \cup {Nothing}, answer : Listings \cup {Nothing},
                            outdated : BOOLEAN, fetching : BOOLEAN,
                            behind : SUBSET {"data", "fetch"}]]
  /\ calls \in [SavedIds -> Calls \cup {Nothing}]
  /\ editing \in [id : SavedIds, row : Row, sent : BOOLEAN, steady : BOOLEAN] \cup {Nothing}
  /\ \A d \in ListDbs : ~lists[d].fetching => lists[d].answer = Nothing
  /\ editing # Nothing /\ editing.sent => calls[editing.id] # Nothing

\* A listing for database d has the row of query i, if there is one to have.
Agrees(listing, i, d) ==
  /\ i \in DOMAIN listing <=> (Exists(i) /\ stored[i].database \in {d, Global})
  /\ i \in DOMAIN listing => listing[i] = stored[i]

\* Row by row, what is cached or on its way is what is stored, unless it is known
\* to be old or the row was written by a call that is not answered yet.
ListsAgree ==
  \A d \in ListDbs, i \in SavedIds :
    (calls[i] # Nothing => ~calls[i].written) =>
      /\ lists[d].data # Nothing /\ ~lists[d].outdated /\ "data" \notin lists[d].behind
           => Agrees(lists[d].data, i, d)
      /\ lists[d].answer # Nothing /\ "fetch" \notin lists[d].behind
           => Agrees(lists[d].answer, i, d)

\* Only queries of its database are in a list.
ListsOfDatabase ==
  \A d \in ListDbs : \A listing \in {lists[d].data, lists[d].answer} \ {Nothing} :
    \A i \in DOMAIN listing : listing[i].database \in {d, Global}

\* What is saved for a row that was up to date keeps the query.
Keeps(i, row) ==
  /\ stored[i] \in Row /\ row.sql = stored[i].sql
  /\ row.database = stored[i].database \/ stored[i].database = Global

SteadyKeeps ==
  /\ \A i \in SavedIds :
       calls[i] # Nothing /\ calls[i].kind = "update" /\ calls[i].steady /\ ~calls[i].written
         => Keeps(i, calls[i].row)
  /\ editing # Nothing /\ editing.steady =>
       LET row == [database |-> listDb, sql |-> editing.row.sql] IN
       /\ Keeps(editing.id, row)
       /\ calls[editing.id] # Nothing =>
            calls[editing.id].kind = "update" /\ calls[editing.id].row = row

\* The open list, at rest and with no written change unanswered, has exactly the
\* queries of the connected database and the global ones, as they are stored
\* (SavedQueryList.tsx:12, queries.ts:205-235); unless it was listed for the first
\* time, or out of sight, while a change was answered, or the answer to a change
\* was lost: what is behind then stays so until it is fetched again.
ListFollowsStore ==
  AtRest(listDb) /\ (\A i \in SavedIds : calls[i] # Nothing => ~calls[i].written)
    => lists[listDb].data = Listing(listDb)

\* At any moment, also right after a switch, no row of another database is on the
\* screen, to be opened or deleted in this one (queries.ts:207).
RowsOfDatabase ==
  \A i \in Rows(listDb) : lists[listDb].data[i].database \in {listDb, Global}

\* Editing the title of a query in the sidebar changes neither its SQL nor the
\* database it is of, except that a global one is bound to the database that
\* is connected; provided that the row was up to date when Edit was clicked, and
\* that no switch was answered before Save was (Sidebar.tsx:236-241).
EditsKeepTheQuery ==
  [][\A i \in SavedIds :
       /\ calls[i] # Nothing /\ calls'[i] # Nothing
       /\ ~calls[i].written /\ calls'[i].written
       /\ calls[i].kind = "update" /\ calls[i].steady
       => /\ stored'[i].sql = stored[i].sql
          /\ stored'[i].database = stored[i].database \/ stored[i].database = Global]_listVars
=============================================================================
