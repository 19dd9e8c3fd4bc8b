------------------------------ MODULE TabSync -------------------------------
(***************************************************************************)
(* How the tab store and the server's copy of it stay together: loading    *)
(* once per page (initFromServer, App.tsx, ConnectionDialog.tsx), saving   *)
(* after a second of quiet (saveToServer in tabs.ts), the bucket tabs of   *)
(* the repository, and the requests between them, which are not awaited,   *)
(* may fail, and may overtake each other.                                  *)
(*                                                                         *)
(* A document is the set of the user's edits that it contains; the state   *)
(* of a fresh page, one blank tab, contains none.                          *)
(***************************************************************************)
EXTENDS Naturals

CONSTANTS
  Edits,     \* things the user does to his tabs
  NoTimer,   \* no debounced save is pending
  Nothing,   \* the tabs bucket before the first save
  MaxPages,  \* bound: page loads
  MaxSaves   \* bound: save requests

ASSUME NothingDistinct == \A d \in SUBSET Edits : d # Nothing
ASSUME NoTimerDistinct ==
  \A d \in SUBSET Edits, b \in BOOLEAN : [doc |-> d, initialized |-> b] # NoTimer
ASSUME BoundsNat == MaxPages \in Nat /\ MaxSaves \in Nat

VARIABLES
  page,         \* which load of the page the browser shows
  ui,           \* whether the tabs are on the screen
  doc,          \* tabs and activeTabId of the store
  initialized,  \* state.initialized
  load,         \* initFromServer: how far it got
  reply,        \* the document on its way to the page
  timer,        \* the state that the pending debounced save captured
  sent,         \* number of the last save request sent
  saves,        \* save requests on their way to the server
  server,       \* the document in the tabs bucket
  applied       \* number of the save that wrote it

pageVars == <<page, ui, doc, initialized, load, reply, timer>>
vars == <<page, ui, doc, initialized, load, reply, timer, sent, saves, server, applied>>

Doc  == SUBSET Edits
Snap == [doc : Doc, initialized : BOOLEAN]
Save == [n : Nat, page : Nat, doc : Doc]

\* useTabStore.subscribe: any change restarts the timer with the new state.
Touch(d, init) == timer' = [doc |-> d, initialized |-> init]

(***************************************************************************)
(* Faulty variants: one plausible slip each, not part of the specification.*)
(***************************************************************************)
\* The timer saves without asking whether the tabs were loaded.
TimerFiresAnyway ==
  /\ timer # NoTimer /\ sent < MaxSaves
  /\ sent' = sent + 1
  /\ saves' = saves \cup {[n |-> sent + 1, page |-> page, doc |-> timer.doc]}
  /\ timer' = NoTimer
  /\ UNCHANGED <<page, ui, doc, initialized, load, reply, server, applied>>

\* A pending timer keeps the state it was started with.
EditKeepsTimer(e) ==
  /\ ui = "shown" /\ e \notin doc
  /\ doc' = doc \cup {e}
  /\ IF timer = NoTimer THEN Touch(doc', initialized) ELSE UNCHANGED timer
  /\ UNCHANGED <<page, ui, initialized, load, reply, sent, saves, server, applied>>

(***************************************************************************)
(* Initial state: the first page; an earlier session may have left tabs.   *)
(***************************************************************************)
Init ==
  /\ page = 1 /\ ui = "hidden" /\ doc = {} /\ initialized = FALSE
  /\ load = "none" /\ reply = {} /\ timer = NoTimer
  /\ sent = 0 /\ saves = {} /\ applied = 0
  /\ server \in {Nothing} \cup Doc

(***************************************************************************)
(* The page.                                                               *)
(***************************************************************************)
\* The server is connected to a database when the page starts: App.tsx waits
\* for initFromServer before it shows the tabs.
StartConnected ==
  /\ load = "none"
  /\ load' = "asked"
  /\ UNCHANGED <<page, ui, doc, initialized, reply, timer, sent, saves, server, applied>>

\* The user connects in the dialog: the tabs appear while initFromServer runs.
StartByDialog ==
  /\ load = "none"
  /\ load' = "asked"
  /\ ui' = "shown"
  /\ UNCHANGED <<page, doc, initialized, reply, timer, sent, saves, server, applied>>

\* getTabState arrives and the tabs replace the page's own.
LoadFound ==
  /\ load = "found"
  /\ load' = "loaded"
  /\ doc' = reply /\ initialized' = TRUE /\ ui' = "shown"
  /\ Touch(reply, TRUE)
  /\ UNCHANGED <<page, reply, sent, saves, server, applied>>

\* Nothing was stored, or the request failed: the page keeps its own tabs and
\* counts as initialized in either case.
LoadNothing ==
  /\ load \in {"empty", "failed"}
  /\ ~initialized
  /\ initialized' = TRUE /\ ui' = "shown"
  /\ Touch(doc, TRUE)
  /\ UNCHANGED <<page, doc, load, reply, sent, saves, server, applied>>

\* The user does something to his tabs.
Edit(e) ==
  /\ ui = "shown" /\ e \notin doc
  /\ doc' = doc \cup {e}
  /\ Touch(doc', initialized)
  /\ UNCHANGED <<page, ui, initialized, load, reply, sent, saves, server, applied>>

\* A second of quiet has passed.
TimerFires ==
  /\ timer # NoTimer
  /\ \/ /\ timer.initialized /\ sent < MaxSaves
        /\ sent' = sent + 1
        /\ saves' = saves \cup {[n |-> sent + 1, page |-> page, doc |-> timer.doc]}
     \/ ~timer.initialized /\ UNCHANGED <<sent, saves>>
  /\ timer' = NoTimer
  /\ UNCHANGED <<page, ui, doc, initialized, load, reply, server, applied>>

\* The page is closed or reloaded: its timer and its answers die with it, its
\* requests do not.
NewPage ==
  /\ page < MaxPages
  /\ page' = page + 1
  /\ ui' = "hidden" /\ doc' = {} /\ initialized' = FALSE
  /\ load' = "none" /\ reply' = {} /\ timer' = NoTimer
  /\ UNCHANGED <<sent, saves, server, applied>>

(***************************************************************************)
(* The server and the network.                                             *)
(***************************************************************************)
\* GET /api/tabs is answered; with no tabs stored, data is "".
ServerReads ==
  /\ load = "asked"
  /\ \/ server = Nothing /\ load' = "empty" /\ UNCHANGED reply
     \/ server # Nothing /\ load' = "found" /\ reply' = server
  /\ UNCHANGED <<page, ui, doc, initialized, timer, sent, saves, server, applied>>

\* The request fails, or the answer is an error: res.data is undefined.
LoadFails ==
  /\ load = "asked"
  /\ load' = "failed"
  /\ UNCHANGED <<page, ui, doc, initialized, reply, timer, sent, saves, server, applied>>

\* A save arrives; the last to arrive wins.
SaveArrives(s) ==
  /\ server' = s.doc
  /\ applied' = s.n
  /\ saves' = saves \ {s}
  /\ UNCHANGED <<pageVars, sent>>

\* A save fails; nobody looks at the outcome.
SaveFails(s) ==
  /\ saves' = saves \ {s}
  /\ UNCHANGED <<pageVars, sent, server, applied>>

Next ==
  \/ StartConnected \/ StartByDialog \/ LoadFound \/ LoadNothing
  \/ \E e \in Edits : Edit(e)
  \/ TimerFires \/ NewPage \/ ServerReads \/ LoadFails
  \/ \E s \in saves : SaveArrives(s) \/ SaveFails(s)

Spec == Init /\ [][Next]_vars

(***************************************************************************)
(* Properties.                                                             *)
(***************************************************************************)
\* Types; and a page counts as initialized only once its load was answered and
\* its tabs are on the screen.
TypeOK ==
  /\ page \in Nat /\ ui \in {"hidden", "shown"} /\ doc \in Doc
  /\ initialized \in BOOLEAN /\ reply \in Doc
  /\ load \in {"none", "asked", "found", "loaded", "empty", "failed"}
  /\ timer \in {NoTimer} \cup Snap
  /\ sent \in Nat /\ applied \in Nat /\ server \in {Nothing} \cup Doc
  /\ saves \subseteq Save
  /\ initialized => ui = "shown" /\ load \in {"loaded", "empty", "failed"}

\* A page sends no save before its load was answered, so that a page that is
\* still loading, or is reloaded early, cannot wipe out the stored tabs with its
\* blank one (tabs.ts:322).
NoSaveBeforeAnswer ==
  \A s \in saves : s.page = page => load \in {"loaded", "empty", "failed"}

\* The newest save carries what is on the screen: when no save is pending and
\* the save that reached the server last is the last one sent, the server has
\* exactly the user's tabs.  The debounce drops no final edit and saves no
\* intermediate state last; only loss and overtaking can leave the server
\* behind.
NewestSaveIsCurrent ==
  initialized /\ timer = NoTimer =>
    /\ applied = sent => server = doc
    /\ \A s \in saves : s.n = sent => s.doc = doc

\* The inductive invariant: what the numbers of the saves and the state that
\* the timer captured have to do with the page.
IndInv ==
  /\ TypeOK
  /\ \A s \in saves : s.n <= sent /\ s.page <= page
  /\ applied <= sent
  /\ timer # NoTimer => timer.doc = doc /\ timer.initialized = initialized
  /\ NoSaveBeforeAnswer
  /\ NewestSaveIsCurrent

\* "Whether tabs have been loaded from the server" (tabs.ts:46): only a page
\* that has seen the stored tabs overwrites them.  It does not hold: see run
\* tabs_blind_save.
OnlyLoadedPagesSave == \A s \in saves : s.page = page => load # "failed"
=============================================================================
