# pglet in TLA+

pglet is a PostgreSQL browser: one Go binary (`main.go`, `pkg/`) that serves a
React application (`frontend/src/`) and keeps what must outlive it in a bbolt
file. These modules model the parts of it in which order, failure and stale
state decide whether it is right. TLC checks them on small instances, and TLAPS
proves for every size what the runs show of safety: each invariant, each action
property, and a refinement. Liveness is model-checked.
Paths below are relative to `src/`.

## The system

| Component | State | Operations | Talks to |
|---|---|---|---|
| Query service `pkg/service` | `client` (under `mu`), `running`: tab id → cancel function (under `queryMu`) | RunQuery, Explain, Analyze, Export, CancelQuery, Connect, SwitchDatabase, Disconnect | PostgreSQL client, repository |
| PostgreSQL client `pkg/client` | a `*sql.DB`: a pool of 5 connections | New, Close, queries | PostgreSQL |
| Repository `pkg/repository` | bbolt buckets `saved_queries`, `history`, `tabs` | transactions for each; import of `.pglet/queries/*.sql` | the file, the team's files |
| Process `main.go` | main goroutine, signal goroutine, file lock | start, import, connect, serve, shut down | all of the above |
| HTTP API `pkg/api` | none | JSON in and out of the service | service |
| AI client `pkg/ai`, `pkg/service/ai.go` | none | generate SQL, suggestions, tab names, with fallbacks | Anthropic API |
| Tab store `frontend/src/stores/tabs.ts` | `tabs`, `activeTabId`, two counters, `initialized` | open, preview, pin, close, rename, reorder, AI turns; load, debounced save | API, components |
| Query panel `components/tabs/TabPanel.tsx`, `SqlEditor.tsx`, `SaveQueryDialog.tsx` | `isRunning`, `result` of the one panel, the dialog's title | edit, run, explain, cancel, export, save, auto-name | API, tab store |
| AI chat `components/ai/` | the open question; turns, index and error in the tab | ask, answer, walk through turns | API, tab store |
| Result views `components/results/` | page, kept rows, cell dialog, menu, copied mark; folded nodes | page, resize, change view, copy; fold | query cache |
| Connection screen `App.tsx`, `ConnectionDialog.tsx`, `stores/connection.ts` | what is connected, the pending connect, saved connections | check, connect, save, remove | API, tab store |
| Sidebar `layout/Sidebar.tsx`, completion `editor/autocomplete.ts` | section, schema, search, folded groups | list, filter, open | query cache, tab store |
| Saved queries and history `saved-queries/`, `history/` | confirmations, the dialog's row | list, edit, delete, clear | query cache, repository |
| Query cache `api/queries.ts`, `DatabaseSwitcher.tsx` | TanStack Query's cache, `info` of the connection store | fetch, retry, invalidate, switch database | API |

Every HTTP request is a goroutine; requests share `client`, `running` and the
repository and nothing else. The browser runs each handler to its end, but what
a handler has asked for arrives when it likes, and the state that a closure
captured is as old as the render that made it. Requests of the browser are
neither ordered nor, for saves, awaited.

What is hard, and what makes each part right:

* **Query service.** A handler reads `s.client` once and uses it to the end
  while others close and replace it; it visits `running` twice, in two critical
  sections. Right means: no nil client, no closed client that is current, no
  leaked pool, a map that names only live queries of their tab, a true history,
  and cancelled requests that wait for nothing but PostgreSQL's answer to a
  statement they have sent.
* **Tab store.** Long sequences of legal operations, and documents that are
  saved without what is a preview. Right means: the active tab exists, one
  preview, one tab per object, titles that do not collide, and, until a document
  is loaded in their place, no tab lost that the user did not close.
* **Tab persistence.** Loading, editing, the debounce timer, page loads and
  saves that are lost or overtake each other.
* **Query panel.** Overlapping calls, dropped callbacks, late names, and one
  panel for all tabs: the spinner must end, and a save must not mix two tabs.
* **AI chat.** One open question for all tabs, answered when another tab or turn
  is in front.
* **Result views.** Components that outlive the table they were rendered for:
  page numbers, kept rows, dialogs and timers of another table.
* **Connection screen.** Several connects under way, another window, and tabs
  that are restored while the user works in them.
* **Sidebar and completion.** Schema and name as one text with a dot in it.
* **Lists of saved queries and history.** Cached pages against writes that are
  answered while a listing is on its way; a dialog that writes back an old row.
* **Query cache.** Cache keys do not name the database, so a switch leaves
  answers of the old one, and late answers arrive after it.
* **Saved queries.** The import has one transaction per file and matches by
  title, which users can change; it is interrupted and repeated.
* **Process.** `main` returns while handlers run; a second process waits for
  the file.

`PROJECT.json` lists these hazards line by line with the properties about them.

## Modules

Each `MC*` module instantiates specifications for TLC; the `*Proofs` modules
hold the theorems: one about a module, or about all those of an `MC*` module.
`Filters` has what `Array.prototype.filter` does, and `FilterTheorems` what is
needed to reason about it and about other loops. `MCPanel`, `MCSides` and `MCStored` hold several
that share no variable: a variable `part` says which of them moves in a
behaviour, the others stay in an initial state, so that one run is the union of
their behaviours. That is no composition; where components do interact, one
module has both sides (page and server, cache and switch, dialog and list).
Definitions whose comment begins with "Faulty", or that follow the heading
"Faulty variants", are not part of any specification: each is one operation with
a plausible slip, which is put in the operation's place to see that a property
notices.

### QueryService: `pkg/service/{service,query,connection}.go` over `pkg/client/client.go`

One action per stretch of a handler between two points where another goroutine
can observe or disturb it. `RunQuery` is requireClient and the derived context,
`Register` the first critical section, `Acquire`, `Finish`, `Abort` and
`FailClosed` what `database/sql` does with `queryContext`, `AddHistory` the
history transaction (whose error the code drops, so it may also write nothing),
`Deregister` the deferred delete. `RunPlain` and `Respond` are Explain, Analyze
and Export, which do not register. Connect and SwitchDatabase are handlers with
the steps dial, swap, info; `Disconnect` is one critical section. `clientState`
is the life of each `*sql.DB`; an operation dials at most one client, which
therefore bears its name. `InUse` is the pool. Abstracted: SQL texts, rows,
durations; the rewritten URL is its database. HTTP requests are finite in
number, each handled once.

Two explanations. A query that is neither cancelled nor reachable in `running`
exists only where a cancelled query of the same tab has ended
(`LostOnlyAfterCancel`): the deferred `delete(s.running, tabID)` does not look
at what it deletes. That it can happen at all is finding 1.

### QueryContract: what the query service promises

The abstract specification: one database or none, which may change at any time;
a request is refused, or accepted for the database of that moment, answered
once, and logged at most once with that database. `QueryService!Contract` maps
the service to it (`INSTANCE ... WITH`): `current` is the database of the
current client, `onDb` that of the captured one, `status` the outcome the
handler has reached. Every step of the service is a step of the contract or
none (`ImplementsContract`).

### TabStore: `frontend/src/stores/tabs.ts` and its callers

One action per operation of the store, with the guards that its callers have
(renaming is offered for query and AI tabs only, an opened query goes to a blank
active tab only). `Reload` and `InitFromServer` put a document in the place of
the tabs; here it is what would be saved at that moment, or none. Which document
the server really has is the matter of TabSync (it is saved a second after the last
change, if the save arrives), so that no property says what a load brings back,
only what holds of the bar after it. A title is a number for "Query n"/"AI Query n", an
object's name, or any other text; that of a saved query may be any of them, and
does not count as the user's own. `FunctionFields` are the
fields that a preview takes over, or keeps, when it is replaced by an object of
the other kind. Tabs are filtered with `Kept` of the module Filters.

### TabSync: loading and saving the tabs

The same store seen as one document, a set of edits: load (`initFromServer`,
answered, empty or failed), `Touch` (every change restarts the debounce timer,
which captures the state), `TimerFires`, save requests in a set (so they arrive
in any order, or not at all), page loads at any time. `server` is the `tabs`
bucket and `applied` the number of the save that wrote it.

### QueryPanel: `frontend/src/components/tabs/TabPanel.tsx`

Calls of `handleRun` and `handleExplain` with what their closures captured
(`tabOf`, `mayName`), `latest` per mutation hook (TanStack Query calls the
callbacks given to `mutate` for the latest call only), one `isRunning` and one
`result` for whatever tab is active, and the name that arrives after an await.
Closing tabs is left out; cancelling changes nothing in the panel. The rest of
the panel is in the next three modules.

### EditorPanel: the save dialog of `TabPanel.tsx`, `SaveQueryDialog.tsx`

The dialog keeps the title it was opened with, while the id and the SQL that it
saves are those of the tab in front, which may change behind it: when
`initFromServer` is answered late, or by the keyboard. `stored` remembers what the
last save put together. What a tab's result, its export and its cancel are about
is not in the module: the panel relates them to nothing but the tab in front and
its SQL of that moment, which typing, answers of the model and tab switches
change, so that there is nothing to hold them to (see Findings).

### AiPanel: `handleAiSubmit`, `ai/AiChatPanel.tsx`, `ai/PromptInput.tsx`

One pending question with its tab and the number of turns sent as context; the
answer or error that comes when it likes; walking through turns, typing over the
SQL, closing tabs. A conversation is a sequence of turns, each with the tab and
context it was asked in.

### TableView: `components/results/{TableBrowser,Pagination,DataGrid,CellDetail,FunctionBrowser}.tsx`

The page and the page size (computed from pixels as in `calcPageSize`), rows
wanted, on their way, cached and kept as a placeholder, the other views, and
the grid's dialog, menu and copy timer. `asked` and `cached` name table, page
and size, so that stale answers are visible. Tables, views and pages can change
behind the dialog of a cell, which does not trap the focus.

### TreeViews: `ExplainPlan.tsx`, `JsonbViewer.tsx`

`parsePlanLines` as a loop over lines, which keeps the stack, the parent of each
node and the place it is rendered at, and which nodes are unfolded, by place.
`PlanIsOutline` compares the stack with a definition that has none (the nearest
line above with less indent). A document is the set of the paths of its parts.

### ConnectScreen: `App.tsx`, `ConnectionDialog.tsx`, `stores/connection.ts`

The page's check for a connection, the dialog with several connects under way
(Enter is not disabled), the callbacks that only the newest gets, swaps at the
server in any order and by another window, saved connections with their name
editor, and the tabs that are restored awaited or not.

### SideLists: `layout/Sidebar.tsx`, `editor/autocomplete.ts`, `splitTableName`

A name is a sequence of its parts between dots. The list by schema, group and
search, the highlighted row, what the server reads for a clicked one, and the
columns that completion finds for a reference in the SQL, over catalogues with
dots and equal names. Two assumptions say what a catalogue is. A table or view
has no dot in its schema or name (`ObjectsTyped`): `client.go:210` casts
`schema.name` to `regclass`, so that one with a dot fails the whole listing;
materialized views and functions are not cast. And every schema that has listed
objects is offered (`SchemasListed`), which holds for a role that has the
privilege to use them: `information_schema.schemata` hides the others.

### QueryCache: `frontend/src/api/queries.ts`, `DatabaseSwitcher.tsx`

One cache entry per kind of answer, as the database that its data is about. What
TanStack Query does (fetch on mount if stale, one retry, invalidation that
restarts a fetch if there is data and joins it if there is none) is external and
modelled from how the hooks configure it. One page; a switch request that fails
was either refused or completed.

### HistoryLog: `pkg/repository/history.go`, `history/HistoryPanel.tsx`

Runs that are logged before they are answered, `ListHistory` as a loop over the
bucket from its end, clearing, and the one cached page: invalidated by answers,
fetched again only while the panel is open. A clear may fail, and its answer may be
lost. `raced` marks a listing that an invalidation found on its way and let go on,
and a page that a clear emptied without the page's learning of it.

### SavedList: `saved-queries/SavedQueryList.tsx`, `handlers_saved.go`

The list per database with the same cache, deleting after a confirmation,
the sidebar's dialog that keeps the row of the time of Edit and writes the
database of the time of Save, saves from tabs, and switches of the database.
`behind` and `steady` only remember what the properties make exceptions for.

### SavedQueries: `pkg/repository/{saved_queries,shared_files}.go`

The bucket, the directory of shared files, the import loop with one transaction
per file, the handlers, stops and crashes, and files that change at any time.
Ids are numbers in key order because `UpsertSharedQuery` overwrites the last
match in that order. `retitled` and `clean` only remember what happened, for
the properties. Files are what `parseSharedQueryFile` makes of them; whatever
the loop skips is one value. `ExportSharedQueries` has no caller and is left
out.

### Shutdown: `main.go`, `pkg/repository/store.go`

Processes that are started on one file, their main and signal goroutines,
handlers that write one transaction and answer, the file lock, kills. What
happens between opening and listening is in SavedQueries (import) and
QueryService (automatic connection).

## Runs

| Run | Instance | Shows |
|---|---|---|
| `service_safety` | 2 requests, 2 tabs, 2 operations, 2 databases, pool of 1; 1.3M states | `CurrentClientOpen`, `NoLeakedClient`, `RegistryLive`, `LostOnlyAfterCancel`, `HistoryFaithful`, `ImplementsContract` |
| `service_liveness` | 2 requests, 1 operation, pool of 1 | `CancelledEnds`, `ReplacedClientReleasesWaiters` |
| `service_cancel_reaches` | 3 requests in 1 tab | violates `CancelReachesRunning` (finding 1) |
| `tabs_store` | 3 tabs, 2 tables, 1 function, 1 AI turn; 0.8M | `TabsInv` (types, `ActiveTabOpen`, `OnePreview`, `CountersAhead`, `AiTurnExists`), `ObjectOpenOnce`, `PermanentTabsStay`, `TypedSqlStays`, `TitleNamesObject` |
| `tabs_sync` | 3 edits, 3 page loads, 4 saves; 0.9M | `NoSaveBeforeAnswer`, `NewestSaveIsCurrent` |
| `tabs_blind_save` | 1 page, 1 save | violates `OnlyLoadedPagesSave` (finding 2) |
| `panel_calls` | `MCPanel`, 1.3M: 3 calls, 2 tabs | `SpinnerHasCall`, `NamedOnce`; in `PanelInv`: `IndInv` |
| | save dialog: 2 tabs, 1 of a saved query | `SaveIsOfOneTab`; in `PanelInv`: types, `TitleIsOfTab` |
| | AI: 2 tabs, 2 turns | `TurnsFollowEachOther`, `EditorShowsTurn`; in `PanelInv`: types, `ContextStays`, `ErrorOfNewestQuestion` |
| | table: 21 and 8 rows, 2 heights, 1 function | `RowsAreNumberedRight`, `PastEndOnlyAfterChange`; in `PanelInv`: types, `CachedUnderItsKey`, `GridFits`, `OneOverlay`, `FailedIsUnsettled`, `CopiedMarkLasts` |
| | trees: 86 plans of up to 4 lines, 2 documents | `PlanIsOutline`; in `PanelInv`: `PlacesAreDistinct`, `OnlyVisibleFlipped` |
| `panel_user_title` | 1 call, 1 tab | violates `UserTitleStays` (finding 3) |
| `cache_switch` | `MCSides`, 2.8M: objects, table-columns, table-info, suggestions; 2 databases | `SidebarFollowsSwitch`, `SidebarStaysCurrent`; in `SidesInv`: `CacheInv` |
| | connection: 2 URLs, one without a host, 2 connects | `ShownIsServers`, `EditsSurviveCheck`; in `SidesInv`: `ConnectInv`, `DialogOnlyIfUnconnected`, `EditingUnsaved` |
| | lists: 2 catalogues with dots | `ColumnsAreOfReference`; in `SidesInv`: types, `CachedUnderItsName`, `ReadsWhatWasClicked`, `HighlightNamesTab`, `ListIsOfShownSchema` |
| `saved_import` | `MCStored`, 1.8M: 3 ids, 2 files, 2 titles, 2 contents | `FilesImported`, `DuplicatesAreRenamed`, `OwnQueriesStay`; in `StoredInv`: types, `ImportSoFar` |
| | history: 3 runs, pages of 2 | `PanelFollowsLog`; in `StoredInv`: types, `PagesTile`, `PagesFollow` |
| | list: 1 query, 2 databases, 2 texts, 2 calls, 1 switch | `ListFollowsStore`, `EditsKeepTheQuery`; in `StoredInv`: types, `ListsAgree`, `ListsOfDatabase`, `SteadyKeeps`, `RowsOfDatabase` |
| `shutdown_handlers` | 2 processes, 3 requests | `WriterHasFile`, `AnswersAreTrue`, `SignalStops` |
| `shutdown_graceful` | 1 process, 1 request | violates `GracefulShutdown` (finding 4) |

`PanelInv`, `SidesInv`, `StoredInv` and `TabsInv` conjoin the types with the
smaller facts of their parts, each of which is a named definition with its own
comment; for each of the four, a slip of the code is shown to break it.

The long runs take one to three minutes on two cores, the others seconds.

### Bounds

* QueryService: a query is lost from the map by two queries of a tab (one
  cancelled, its successor, the end of the first); three show that a later one
  does not reach the lost one. Two tabs show that tabs do not disturb each
  other. Two operations are two clients that can replace each other and the boot
  client. A pool of one makes requests queue (the code has five).
* TabStore: three tabs are a preview, a permanent tab and a blank one; two
  tables let a preview replace one of its kind, the function one of the other.
  `MaxCounter` bounds the numbers handed out, `MaxTabs` and `MaxTurns` the rest;
  the operations that would exceed them are disabled, all others go on. At most
  `MaxTabs` ids are in use when a tab opens, so three suffice and an id may
  return after its tab is closed.
* TabSync: three pages are one that loses its answers, one that saves, one that
  loads; four saves overtake each other in any order.
* QueryPanel: three calls give a latest and two earlier ones, and both hooks.
* EditorPanel: a tab of a saved query and one that is none.
* AiPanel: two tabs tell the tab in front from the one that asked; two answers;
  `MaxTurns` bounds a conversation, so that a question in the last turn's context
  still comes.
* TableView: the heights give pages of 10 and 20; one table fits either, one
  takes three of the smaller and two of the larger, so that a page may lie past
  the end of the one and inside the other. `MaxAsked` requests overtake each
  other, and `MaxKept` is the answer that the cache keeps beside the newest: the
  rows on the screen stay in it when the answer for another page arrives. `FewAtOnce`,
  a constraint of the run, leaves out the dialog, the menu, the copied mark and the
  views of facts where more than two requests and answers are about; up to two,
  all of them are there together. The theorems have none of
  these bounds on sizes, tables, requests and what is kept.
* TreeViews: every sequence of up to three lines with three indents below a root;
  a stack of four shows all its pops. The documents are a leaf and one nested
  past the depth to which nodes are unfolded at first.
* ConnectScreen: two connects overtake each other; a third is another window's.
* SideLists: each way a dot can come into a qualified name, and names that two
  schemas or a table and a function share.
* HistoryLog: three runs over pages of two (the code has fifty) leave one out.
* SavedList: one query, as the properties are about single rows: that the answer
  to one row's delete takes back another row's confirmation does not happen in
  the instance. Two calls are a save that makes a listed row old and an edit of it.
* QueryCache: two databases tell right from wrong; `schemas` is treated like
  `objects` without the refresh button, `table-columns` and `table-info` stand
  for the hooks with the same options, `ai-suggestions` for what no switch renews.
* SavedQueries: two files with the same or different titles and three ids allow
  two shared queries that were given one title, with a third imported. `Contents`
  says which texts are written for which databases: one text for one database, another
  for all of them, so that an older text or database in place of a file's shows.
* Shutdown: two processes for one file; three requests are one with a
  transaction, one before and one after it.

Deadlock is checked except where the system may rest: TabSync when all pages and
saves are spent, Shutdown when all processes have ended.

### Fairness

QueryService assumes weak fairness of what the back end does by itself: a
runnable goroutine runs, a mutex is granted, a goroutine queued in
`database/sql`'s pool notices a cancelled context or a closed pool. Nothing is
assumed of PostgreSQL, which may never answer, not even to a statement that was
cancelled (`lib/pq` asks it to cancel on a second connection and keeps waiting
on the first), of the pool, or of the user; that is why the liveness properties
are about replaced clients and about cancelled requests, and why `CancelledEnds`
lets a request that has sent its statement wait for the answer. Shutdown assumes that main runs
on, that a transaction that was begun ends (it writes a few pages), and strong
fairness of the writer lock (a Go mutex starves nobody); a handler may take
forever before its transaction and after it.

## Proofs

Every invariant and every action property of a passing run is stated by a theorem,
for every value of the constants. The constants are assumed to be what the modules
name, nothing else: marks for "nothing" differ from the values they stand beside
(`SentinelsDistinct`, `NamesDistinct`, `NothingDistinct`, `NotStoredDistinct`,
...), bounds are natural numbers, pages and the pool are not empty, plans are
lines with indents (`PlansAreLines`), documents have their roots and are closed
under taking the part around a part (`DocumentsHaveRoots`), and catalogues are as
`SideLists` says. TLC evaluates each of them on its instance.

Every proof has the same shape: an inductive invariant, `Init => Inv`, `Inv /\
[Next]_vars => Inv'` with one step per action, the theorem `Spec => []Inv`, and
the properties as its consequences. TLC checks the inductive invariants too: those
of the parts of `MCPanel`, `MCSides` and `MCStored` are conjuncts of `PanelInv`,
`SidesInv` and `StoredInv`, that of TabStore are the three invariants of its run,
and for the others (QueryService, TabSync, Shutdown) add `INVARIANT IndInv` to the cfg.

* `QueryServiceProofs`: `CurrentClientOpen`, `NoLeakedClient`, `RegistryLive`,
  `LostOnlyAfterCancel`, `HistoryFaithful`. The client properties are not
  inductive alone: `ClientLife` says what an operation's progress means for its
  client (never installed before it is dialled, open while dialled), and
  `RequestLife` what a request carries; the registry needs both `RegistryLive` and
  the tab of a registered request. `ContractKept` is the refinement: the initial
  states map to initial states of QueryContract, each action of a request to one
  of the contract or to none (`RequestStepMaps`), each of a connect, switch or
  disconnect to a change of `current` or to none (`OpStepMaps`).
* `TabSyncProofs`: `NoSaveBeforeAnswer`, `NewestSaveIsCurrent`. What makes them
  inductive: saves are numbered up to `sent` and belong to pages up to the current
  one, and a pending timer has captured the current state.
* `TabStoreProofs`: `TabsInv`, `ObjectOpenOnce`, `TitleNamesObject`, and from them
  `PermanentTabsStay` and `TypedSqlStays`. Together the three invariants are
  inductive, once they are said tab by tab and pair by pair (`Bar`, `ByTab`): an
  operation then changes one tab, appends one, or filters the bar, and there is
  one lemma for each way. Loading a document is the hardest: filtering out the
  preview, a new active tab and counters above the numbers of all titles, at once.
* `PanelProofs`: five invariants and `PanelKept`, their conjunction.
  - QueryPanel: `NamingLife`, a tab for which a name was asked is marked, and the
    one run that is still listened to may ask only if nobody has.
  - EditorPanel: a dialog's title is new or of its tab (`TitleIsOfTab`).
  - AiPanel: while its tab is open, the conversation that a question is open in is
    as long as it was when it was asked (`ContextStays`).
  - TableView: what is cached is under the key of what it is
    (`CachedUnderItsKey`), and rows that have been given up are not there
    (`FailedIsUnsettled`); with the arithmetic of pages and heights
    (`PagesCounted`, `PageFits`).
  - TreeViews: `PlanIsOutline` and `PlacesAreDistinct` are about every plan, not
    about steps: a loop invariant `ParseOK` of `parsePlanLines` says that the
    stack has every node that no later one with as little indent covers, that
    parents and owners so far are the nearest ones, and that a node came last
    among the children of its parent. `OnlyVisibleFlipped` is inductive with the
    types.
* `SidesProofs`: three invariants and `SidesKept`. QueryCache: while the server is
  where the page takes it to be, also before a switch is carried out, what is
  cached or on its way is of that database, but for a first load that a switch
  joined (`SidebarIsOfServer`), and a switch goes elsewhere. ConnectScreen: what
  the page goes by is where the server is, until another moves it
  (`PageFollowsServer`), and how a page came to its screen (`HowItCameThere`);
  `EditingUnsaved` keeps the saved connections apart. SideLists: the open tab has
  the name of a row (`TabOfRow`); the rest is about two texts with dots,
  `SplitQualified` and `SplitAlike`.
* `StoredProofs`: three invariants and `StoredKept`. SavedQueries: what the import
  has done so far (`ImportSoFar`). SavedList: row by row, what is cached for each
  database or on its way is what is stored, unless it is known to be old or a call
  has written the row and is not answered (`ListsAgree`), and what was remembered
  of an edit is still so (`SteadyKeeps`). HistoryLog: the page that is kept, or on
  its way, has the newest successes and nothing that was cleared, unless it is
  marked (`PagesFollow`). `PagesTile` is again about a loop: after k rounds
  `ListHistory` has skipped and taken a slice.
* `ShutdownProofs`: `WriterHasFile`, `AnswersAreTrue`. `RequestLife` ties a
  request's progress to its transaction and to what is stored; `TypeOK` says that
  a process has the file exactly from opening to closing it.

`PanelKept`, `SidesKept` and `StoredKept` follow from the theorems about the
parts, as a behaviour of the union is one of each part (`PanelParts`,
`SidesParts`, `StoredParts`).

Loops are recursive functions, and their induction is by hand: the library's
induction theorems take an operator as a parameter, which the provers cannot
instantiate. `FilterTheorems` gets from the well-foundedness of `<` a least and a
greatest element for a set of numbers, from these induction for sets of numbers
(`Induction`), and then that a loop exists and keeps what its rounds keep
(`LoopRuns`, `LoopKeeps`).

Model-checked only: `CancelledEnds`, `ReplacedClientReleasesWaiters` and
`SignalStops`, as liveness under fairness is beyond the prover, and the four
violations of the findings, which are behaviours.

## Findings

1. `pkg/service/query.go:27` deletes whatever is registered for the tab. Run a
   query, run another (the first is cancelled), let the first end: the second
   runs on without a cancel function. `openapi.yaml:356`: "Cancel a running
   query".
2. `frontend/src/stores/tabs.ts:114`: a failed load sets `initialized`, which
   starts the debounced save that overwrites the stored tabs. `tabs.ts:46`:
   "Whether tabs have been loaded from the server".
3. `frontend/src/components/tabs/TabPanel.tsx:73`: the model's name arrives late
   and replaces the user's. `TabPanel.tsx:69`: "if not manually renamed".
4. `main.go:307`: main does not wait for `Shutdown`. `main.go:293`: "Graceful
   shutdown on SIGINT/SIGTERM".

Seen on the way, and stated as the exception of a property, listed as a hazard,
or only noted here: a table previewed over a function preview changes the title and leaves
the kind (`tabs.ts:155`, `TitleNamesObject`); suggestions survive a database
switch (`api/queries.ts:262`); a first load of the sidebar that a switch
overtakes is joined and not repeated (`SidebarFollowsSwitch`; the same for the
lists of history and saved queries: `PanelFollowsLog`, `ListFollowsStore`);
edits made while `initFromServer` is under way are overwritten, if the page came
through the dialog (`EditsSurviveCheck`); the panel keeps one tab's result when
another is activated, Cancel names the tab in front, whose call need not be the
one that runs (`TabPanel.tsx:119`), and Export runs the SQL of now, where
`README.md:12` says "download query results" (`TabPanel.tsx:282`); tables can change
behind the dialog of a cell, which then shows the old value under a column of the
new table (`DataGrid.tsx:208`); a clear of the history whose answer is lost stays
unnoticed (`PanelFollowsLog`); the page number of one table is used
for the next, where Previous may not lead back inside at once
(`PastEndOnlyAfterChange`); a table or view with a dot in its name empties the
whole sidebar (`client.go:210`); a connection over a socket is asked for
again (`DialogOnlyIfUnconnected`); saving an opened query erases its description
and tags; editing a saved query from the sidebar while a switch is answered
moves it to the other database, and editing a global one binds it to the
connected one (`EditsKeepTheQuery`); a name with a dot in it is read as schema
and name (`ReadsWhatWasClicked`); saving a tab again after its first save makes a
second query of the same title (`TabPanel.tsx:343`); `limit=0` divides by zero in
`handlers_schema.go:100`.

## Not modelled

The JSON that HTTP handlers read and write, generated code, stories, layout and
wording, settings and theme, configuration, static files. The catalogue queries
of `pkg/client` are text that PostgreSQL interprets. The language model is a
choice of its answers; `pkg/ai` prepares its prompts. `AiQueryDialog.tsx`,
`ExportSharedQueries`, `setDisconnected`, and the hooks `useDisconnect`,
`useConnectionInfo` and `useAnalyzeQuery` have no caller.

The parts of `MCPanel`, `MCSides` and `MCStored` are not composed with each
other: the tab store, for instance, is reduced in each of them to the tabs that
it needs. Other windows change the server only in ConnectScreen; in HistoryLog
and SavedList they would only add exceptions to what a page can know.

## Plan

What is left, in this order:

1. A contract for TabSync: a register of documents whose writes may be lost or
   reordered, and the refinement with its proof.
2. `selectTables` and `extractTableName` of `pkg/ai` as pure operators.
3. Another window in SavedList and HistoryLog, with what a page can still know.
