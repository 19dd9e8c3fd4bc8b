----------------------------- MODULE TableView ------------------------------
(***************************************************************************)
(* Browsing a table or a function: frontend/src/components/results/        *)
(* (TableBrowser, Pagination, DataGrid, CellDetail, FunctionBrowser) and   *)
(* shared/ContextMenu, over the hooks of api/queries.ts.                   *)
(*                                                                         *)
(* Neither TabPanel nor TableBrowser has a key, so going from one table's  *)
(* tab to another's keeps the component and with it the page number, the   *)
(* column widths and the rows on the screen (keepPreviousData), while the  *)
(* height of the window decides how many rows a page has.                  *)
(***************************************************************************)
EXTENDS Integers, FiniteSets

CONSTANTS
  Tables,     \* tables with an open tab
  Functions,  \* functions with an open tab
  Nothing,    \* no object, no rows, no choice
  RowCount,   \* the number of rows of each table
  Heights,    \* heights of the content area, in pixels
  FactViews,  \* the views that are not rows: structure, indexes, constraints
  MaxAsked,   \* bound: requests for rows in flight
  MaxKept     \* bound: answers in the cache beside the newest

ASSUME ObjectsDistinct == Tables \cap Functions = {} /\ Nothing \notin Tables \cup Functions
ASSUME RowCountNatural == RowCount \in [Tables -> Nat]
ASSUME HeightsNatural == Heights \subseteq Nat /\ Heights # {}

VARIABLES
  browsed,   \* the table or function of the active tab
  view,      \* tab.activeView, per table
  height,    \* contentRef.current.clientHeight
  page,      \* state of TableBrowser, as the four that follow
  previous,  \* the last rows its query had, kept as a placeholder
  failed,    \* the query for the wanted rows has given up
  asked,     \* requests for rows that are under way
  cached,    \* answers to them in the query cache
  facts,     \* the newest answer about structure, ..., or a definition
  detail,    \* DataGrid: selectedCell, the dialog of a cell is open
  menu,      \* DataGrid: the context menu is open
  copied,    \* DataGrid: a cell is marked as copied
  timers,    \* DataGrid: timers that will remove the mark
  chosenOn   \* history: the table and page size that Next was last pressed on

gridVars  == <<detail, menu, copied, timers>>
fetchVars == <<asked, cached, facts>>
tableVars == <<browsed, view, height, page, previous, failed, asked, cached,
               facts, detail, menu, copied, timers, chosenOn>>

BaseRowHeight == 26
MinPageSize   == 10

\* calcPageSize: whole fives of rows, never fewer than ten.
PageSizeOf(h) == LET fives == ((h - BaseRowHeight) \div (5 * BaseRowHeight)) * 5
                 IN IF fives > MinPageSize THEN fives ELSE MinPageSize

\* The header takes a row's height too.
RowHeightOf(h) == h \div (PageSizeOf(h) + 1)

PageSizes == {PageSizeOf(h) : h \in Heights}
LastPage(n, size) == IF n = 0 THEN 0 ELSE (n - 1) \div size
Content == [table : Tables, size : PageSizes, page : Nat]

(***************************************************************************)
(* What is asked for and what is on the screen.                            *)
(***************************************************************************)
WantedAt(o, h, p) == [table |-> o, size |-> PageSizeOf(h), page |-> p]
Wanted == WantedAt(browsed, height, page)

\* The query keys of useTableRows and of the hooks about one object.
RowsKeyWithoutPage(c) == <<c.table, c.size>>
RowsKey(c) == <<c.table, c.size, c.page>>
FactsKeyOfView(v, o) == <<v>>
FactsKey(v, o) == <<v, o>>

Hits(c) == {e \in cached : e.key = RowsKey(c)}
Settled == browsed \in Tables /\ Hits(Wanted) # {}
CachedAnswer == CHOOSE e \in Hits(Wanted) : TRUE

\* rowsQuery.data: the answer for the wanted key, or the previous rows while it
\* is awaited, or nothing once it has failed.
ShownRows ==
  CASE Settled                                     -> CachedAnswer.content
    [] browsed \in Tables /\ ~Settled /\ ~failed -> previous
    [] OTHER                                       -> Nothing

GridMounted == browsed \in Tables /\ view[browsed] = "rows" /\ ShownRows # Nothing

\* The number in front of the i-th row of the grid.
RowNumber(i) == page * PageSizeOf(height) + i

\* A view of facts, or the definition of a function, for the object in the tab.
ShownFacts(v) == {f.about : f \in {g \in facts : g.key = FactsKey(v, browsed)}}

\* Pagination: hidden when the rows fit on one page, counting the rows shown in
\* pages of the current size.
TotalPages == IF ShownRows = Nothing THEN 0
              ELSE (RowCount[ShownRows.table] + PageSizeOf(height) - 1) \div PageSizeOf(height)
PagerShown == GridMounted /\ TotalPages > 1

(***************************************************************************)
(* Faulty variants: one plausible slip each, not part of the specification.*)
(***************************************************************************)
\* Next is enabled on the last page too.
NextPageUnchecked ==
  /\ PagerShown /\ page < TotalPages
  /\ page' = page + 1
  /\ chosenOn' = [table |-> ShownRows.table, size |-> PageSizeOf(height)]
  /\ asked' = asked \cup {WantedAt(browsed, height, page')}
  /\ menu' = FALSE /\ failed' = FALSE
  /\ UNCHANGED <<browsed, view, height, previous, cached, facts, detail, copied, timers>>

(***************************************************************************)
(* The components.                                                         *)
(***************************************************************************)
TableInit ==
  /\ browsed = Nothing
  /\ view = [t \in Tables |-> "rows"]
  /\ height \in Heights
  /\ page = 0 /\ previous = Nothing /\ failed = FALSE
  /\ asked = {} /\ cached = {} /\ facts = {}
  /\ detail = FALSE /\ menu = FALSE /\ copied = FALSE /\ timers = 0
  /\ chosenOn = Nothing

\* The dialog of a cell lies over everything that the mouse could press, but does
\* not trap the focus: the keyboard reaches the tabs, the views and the pager
\* behind it, though not the cells of the grid, and initFromServer can put other
\* tabs on the screen.  A press of the mouse outside the menu closes the menu.
ByMouseOrNot == menu' \in {menu, FALSE}

\* The state of a DataGrid that is no longer rendered is gone.
GridLost == detail' = FALSE /\ menu' = FALSE /\ copied' = FALSE /\ timers' = 0

\* The component asks for other rows: the rows it has become the placeholder,
\* and a request goes out unless the cache has the answer.
Want(c) ==
  /\ previous' = IF Settled THEN ShownRows ELSE previous
  /\ failed' = FALSE
  /\ asked' = IF Hits(c) = {} THEN asked \cup {c} ELSE asked
  /\ Cardinality(asked') <= MaxAsked
  /\ UNCHANGED <<cached, facts>>

\* From a table's tab to another table's: the page number stays as it is, and if
\* the grid does, then also the dialog over it.
SwitchTable(t) ==
  /\ browsed \in Tables /\ t # browsed
  /\ browsed' = t
  /\ Want(WantedAt(t, height, page))
  /\ IF view[t] = "rows" /\ ShownRows # Nothing
     THEN ByMouseOrNot /\ UNCHANGED <<detail, copied, timers>>
     ELSE GridLost
  /\ UNCHANGED <<view, height, page, chosenOn>>

\* From a tab of another kind: a new TableBrowser.
OpenTable(t) ==
  /\ browsed \notin Tables
  /\ browsed' = t
  /\ Want(WantedAt(t, height, 0))
  /\ UNCHANGED <<view, height, page, gridVars, chosenOn>>

\* To a tab of another kind; a function's tab renders FunctionBrowser.
LeaveTable(o) ==
  /\ browsed \in Tables
  /\ browsed' = o
  /\ page' = 0 /\ previous' = Nothing /\ failed' = FALSE /\ chosenOn' = Nothing
  /\ GridLost
  /\ UNCHANGED <<view, height, fetchVars>>

OpenFunction(o) ==
  /\ browsed \notin Tables /\ o # browsed
  /\ browsed' = o
  /\ UNCHANGED <<view, height, page, previous, failed, fetchVars, gridVars, chosenOn>>

\* The ResizeObserver: another page size, the same page number.
Resize(h) ==
  /\ h # height
  /\ height' = h
  /\ IF browsed \in Tables /\ PageSizeOf(h) # PageSizeOf(height)
     THEN Want(WantedAt(browsed, h, page))
     ELSE UNCHANGED <<previous, failed, fetchVars>>
  /\ UNCHANGED <<browsed, view, page, gridVars, chosenOn>>

TurnTo(p) ==
  /\ PagerShown
  /\ page' = p
  /\ ByMouseOrNot
  /\ Want(WantedAt(browsed, height, p))
  /\ UNCHANGED <<browsed, view, height, detail, copied, timers>>

PrevPage == page # 0 /\ TurnTo(page - 1) /\ UNCHANGED chosenOn

NextPage ==
  /\ page < TotalPages - 1
  /\ TurnTo(page + 1)
  /\ chosenOn' = [table |-> ShownRows.table, size |-> PageSizeOf(height)]

SelectView(v) ==
  /\ browsed \in Tables /\ view[browsed] # v
  /\ view' = [view EXCEPT ![browsed] = v]
  /\ GridLost
  /\ UNCHANGED <<browsed, height, page, previous, failed, fetchVars, chosenOn>>

\* useTableRows: the answer, under the key of the request that asked for it; the
\* cache drops what nobody looks at.
RowsArrive(c) ==
  /\ c \in asked
  /\ asked' = asked \ {c}
  /\ \E kept \in SUBSET {e \in cached : e.key # RowsKey(c)} :
       /\ Cardinality(kept) <= MaxKept /\ (Settled => Hits(Wanted) \subseteq kept \/ c = Wanted)
       /\ cached' = kept \cup {[key |-> RowsKey(c), content |-> c]}
  /\ failed' = (failed /\ c # Wanted)
  /\ UNCHANGED <<browsed, view, height, page, previous, facts, gridVars, chosenOn>>

\* Two failures in a row: the rows and with them the grid disappear.
RowsFail(c) ==
  /\ c \in asked
  /\ asked' = asked \ {c}
  /\ failed' = (failed \/ (browsed \in Tables /\ c = Wanted))
  /\ IF browsed \in Tables /\ c = Wanted THEN GridLost ELSE UNCHANGED gridVars
  /\ UNCHANGED <<browsed, view, height, page, previous, cached, facts, chosenOn>>

\* useTableColumns and its like, useFunctionDefinition.
FactsArrive(v) ==
  /\ \/ browsed \in Tables /\ v \in FactViews
     \/ browsed \in Functions /\ v = "definition"
  /\ ShownFacts(v) = {}
  /\ facts' = {[key |-> FactsKey(v, browsed), about |-> browsed]}
  /\ UNCHANGED <<browsed, view, height, page, previous, failed, asked, cached, gridVars, chosenOn>>

\* A click on a cell; a press outside the menu has closed it.
ClickCell ==
  /\ GridMounted /\ ~detail
  /\ detail' = TRUE
  /\ menu' = FALSE
  /\ UNCHANGED <<browsed, view, height, page, previous, failed, fetchVars, copied, timers, chosenOn>>

\* Escape, the button, or a press beside the dialog.
CloseCell ==
  /\ detail
  /\ detail' = FALSE
  /\ UNCHANGED <<browsed, view, height, page, previous, failed, fetchVars, menu, copied, timers,
                 chosenOn>>

OpenMenu ==
  /\ GridMounted /\ ~detail
  /\ menu' = TRUE
  /\ UNCHANGED <<browsed, view, height, page, previous, failed, fetchVars, detail, copied, timers,
                 chosenOn>>

\* An item, Escape, or a press outside.
CloseMenu ==
  /\ menu
  /\ menu' = FALSE
  /\ UNCHANGED <<browsed, view, height, page, previous, failed, fetchVars, detail, copied, timers,
                 chosenOn>>

CopyCell ==
  /\ GridMounted /\ ~detail
  /\ copied' = TRUE /\ timers' = 1 /\ menu' = FALSE
  /\ UNCHANGED <<browsed, view, height, page, previous, failed, fetchVars, detail, chosenOn>>

CopyTimer ==
  /\ timers > 0
  /\ timers' = timers - 1 /\ copied' = FALSE
  /\ UNCHANGED <<browsed, view, height, page, previous, failed, fetchVars, detail, menu, chosenOn>>

TableNext ==
  \/ \E t \in Tables : SwitchTable(t) \/ OpenTable(t)
  \/ \E o \in Functions \cup {Nothing} : LeaveTable(o) \/ OpenFunction(o)
  \/ \E h \in Heights : Resize(h)
  \/ PrevPage \/ NextPage
  \/ \E v \in FactViews \cup {"rows"} : SelectView(v)
  \/ \E c \in asked : RowsArrive(c) \/ RowsFail(c)
  \/ \E v \in FactViews \cup {"definition"} : FactsArrive(v)
  \/ ClickCell \/ CloseCell \/ OpenMenu \/ CloseMenu
  \/ CopyCell \/ CopyTimer

TableSpec == TableInit /\ [][TableNext]_tableVars

(***************************************************************************)
(* Properties.                                                             *)
(***************************************************************************)
\* Types; the mark of a copied cell has at most one timer at a time.
TableTypeOK ==
  /\ browsed \in Tables \cup Functions \cup {Nothing}
  /\ view \in [Tables -> FactViews \cup {"rows"}]
  /\ height \in Heights /\ page \in Nat
  /\ previous \in Content \cup {Nothing} /\ failed \in BOOLEAN
  /\ asked \subseteq Content /\ \A e \in cached : e.content \in Content
  /\ \A f \in facts : f.about \in Tables \cup Functions
  /\ detail \in BOOLEAN /\ menu \in BOOLEAN /\ copied \in BOOLEAN /\ timers \in 0 .. 1

\* What is cached is under the key of what it is, and is not asked for again.
CachedUnderItsKey ==
  /\ \A e \in cached : e.key = RowsKey(e.content)
  /\ \A f \in facts : \E v \in FactViews \cup {"definition"} : f.key = FactsKey(v, f.about)
  /\ \A c \in asked : Hits(c) = {}

\* Unless the placeholder is on the screen, what the tab of an object shows is
\* about that object, and the number in front of a row is the row's place in
\* its table (TableBrowser.tsx:43-48, 100; queries.ts:112, 125): tab switches,
\* page turns, resizes and answers that overtake each other never mix rows.
RowsAreNumberedRight ==
  /\ Settled => /\ ShownRows.table = browsed
                /\ RowNumber(1) = ShownRows.page * ShownRows.size + 1
  /\ \A v \in FactViews \cup {"definition"} : ShownFacts(v) \subseteq {browsed}

\* A page past the end of its table is only ever asked for when the table or
\* the page size is not the one that Next was last pressed on
\* (TableBrowser.tsx:18): the pager itself never leads there, not even while
\* another table's rows are on the screen, though Previous may not lead out.
PastEndOnlyAfterChange ==
  \A t \in Tables, size \in PageSizes :
    page > LastPage(RowCount[t], size) => chosenOn # [table |-> t, size |-> size]

\* The rows of a full page and the header fit into the content area, and are
\* no lower than designed once the area has room for ten (TableBrowser.tsx:22-32).
GridFits ==
  /\ (PageSizeOf(height) + 1) * RowHeightOf(height) <= height
  /\ height >= (MinPageSize + 1) * BaseRowHeight => RowHeightOf(height) >= BaseRowHeight

\* The dialog and the menu exclude each other, also when tabs, views and pages
\* change behind them (ContextMenu.tsx:79-87, CellDetail.tsx:118-124).
OneOverlay == ~(detail /\ menu)

\* Rows are given up only as long as they are not there: a late answer ends the
\* error that an earlier one left (queries.ts:108-127).
FailedIsUnsettled == failed => browsed \in Tables /\ ~Settled

\* A cell is marked as copied exactly as long as the timer of the last copy
\* runs (DataGrid.tsx:183-187).
CopiedMarkLasts == copied <=> timers > 0
=============================================================================
