----------------------------- MODULE HistoryLog -----------------------------
(***************************************************************************)
(* The history of queries and the panel that lists it: pkg/repository/     *)
(* history.go, components/history/HistoryPanel.tsx, and the hooks          *)
(* useHistory, useClearHistory and useRunQuery of api/queries.ts over the  *)
(* cache of TanStack Query (QueryCache has the cache for other keys).      *)
(*                                                                         *)
(* A run is written to the log by the server before it is answered; the    *)
(* page lists the log again when a successful answer arrives.  Clearing    *)
(* replaces the bucket, so numbering starts again.                         *)
(***************************************************************************)
EXTENDS Integers, Sequences, SequencesExt

CONSTANTS
  LoggedRuns,  \* calls of useRunQuery
  PageSize,    \* the panel's limit: 50
  NoList       \* nothing cached, nothing on the way

ASSUME PageSizePositive == PageSize \in Nat \ {0}

VARIABLES
  log,       \* the bucket query_history, by key
  sequence,  \* the bucket's sequence
  progress,  \* per run: new, then written and not yet answered, then answered
  clearing,  \* the panel's clear: no, asked, confirmed and sent, done by the server
  onScreen,  \* the section History of the sidebar is open
  panel,     \* the cached page: entries and total
  outdated,  \* isInvalidated
  listing,   \* the fetch: idle, first attempt, retry
  page,      \* the answer to it that is on its way
  raced      \* history: "fetch", the page on its way was overtaken by a change of the
             \* log, by one whose invalidation let it go on or by a clear that was
             \* never answered; "panel", so was the page that is cached

serverVars == <<log, sequence>>
panelVars  == <<panel, outdated, listing, page, raced>>
logVars    == <<log, sequence, progress, clearing, onScreen, panel, outdated, listing,
                page, raced>>

RunStates == {"new", "succeeding", "failing", "succeeded", "failed"}
Entry == [id : Nat, run : LoggedRuns]

(***************************************************************************)
(* The bucket.                                                             *)
(***************************************************************************)
\* The cursor passes over the newest entries up to the offset.
Skips(skipped, offset) == skipped < offset

\* ListHistory: from the last key to the first, skipping and taking.
ListHistory(limit, offset) ==
  LET loop[k \in 0 .. Len(log)] ==
        IF k = 0 THEN [skipped |-> 0, entries |-> << >>]
        ELSE LET s == loop[k - 1]
             IN IF Skips(s.skipped, offset) THEN [s EXCEPT !.skipped = @ + 1]
                ELSE IF Len(s.entries) >= limit THEN s
                ELSE [s EXCEPT !.entries = Append(@, log[Len(log) + 1 - k])]
  IN [entries |-> loop[Len(log)].entries, total |-> Len(log)]

(***************************************************************************)
(* The cache: invalidateQueries(['history']) marks the page, and fetches it*)
(* anew if the panel is on the screen.  A fetch that is in progress goes on*)
(* if it is the first load, or if the panel is not on the screen.          *)
(***************************************************************************)
\* Faulty: the hook has no onSuccess.
InvalidateNothing == UNCHANGED panelVars

Invalidate ==
  LET again == onScreen /\ (listing = "idle" \/ panel # NoList) IN
  /\ outdated' = (outdated \/ panel # NoList)
  /\ listing' = IF again THEN "first" ELSE listing
  /\ page' = IF again THEN NoList ELSE page
  /\ raced' = IF again THEN raced \ {"fetch"}
              ELSE IF listing # "idle" THEN raced \cup {"fetch"} ELSE raced
  /\ UNCHANGED panel

LogInit ==
  /\ log = <<>> /\ sequence = 0
  /\ progress = [r \in LoggedRuns |-> "new"]
  /\ clearing = "no" /\ onScreen = FALSE
  /\ panel = NoList /\ outdated = FALSE /\ listing = "idle" /\ page = NoList /\ raced = {}

\* The server runs the query and writes the entry; a write that fails is
\* dropped without a word.
RunIsLogged(r) ==
  /\ progress[r] = "new"
  /\ \E p \in {"succeeding", "failing"} : progress' = [progress EXCEPT ![r] = p]
  /\ \/ /\ log' = Append(log, [id |-> sequence + 1, run |-> r])
        /\ sequence' = sequence + 1
     \/ UNCHANGED serverVars
  /\ UNCHANGED <<clearing, onScreen, panelVars>>

\* onSuccess of useRunQuery; a failed run, or an answer that is lost, has none.
RunSucceeds(r) ==
  /\ progress[r] = "succeeding"
  /\ progress' = [progress EXCEPT ![r] = "succeeded"]
  /\ Invalidate
  /\ UNCHANGED <<serverVars, clearing, onScreen>>

RunFails(r) ==
  /\ progress[r] \in {"succeeding", "failing"}
  /\ progress' = [progress EXCEPT ![r] = "failed"]
  /\ UNCHANGED <<serverVars, clearing, onScreen, panelVars>>

(***************************************************************************)
(* The panel.                                                              *)
(***************************************************************************)
\* Whatever is cached is fetched again (staleTime 0); a fetch is joined.
OpenPanel ==
  /\ ~onScreen
  /\ onScreen' = TRUE
  /\ listing' = IF listing = "idle" THEN "first" ELSE listing
  /\ UNCHANGED <<serverVars, progress, clearing, panel, outdated, page, raced>>

\* confirmClear goes with the panel, a clear that was sent does not.
LeavePanel ==
  /\ onScreen
  /\ onScreen' = FALSE
  /\ clearing' = IF clearing = "asked" THEN "no" ELSE clearing
  /\ UNCHANGED <<serverVars, progress, panelVars>>

\* Unobserved data is dropped after gcTime.
CollectPanel ==
  /\ ~onScreen /\ listing = "idle" /\ panel # NoList
  /\ panel' = NoList /\ outdated' = FALSE /\ raced' = {}
  /\ UNCHANGED <<serverVars, progress, clearing, onScreen, listing, page>>

ServerLists ==
  /\ listing # "idle" /\ page = NoList
  /\ page' = ListHistory(PageSize, 0)
  /\ UNCHANGED <<serverVars, progress, clearing, onScreen, panel, outdated, listing, raced>>

PageArrives ==
  /\ page # NoList
  /\ panel' = page /\ outdated' = FALSE /\ listing' = "idle" /\ page' = NoList
  /\ raced' = IF "fetch" \in raced THEN {"panel"} ELSE {}
  /\ UNCHANGED <<serverVars, progress, clearing, onScreen>>

\* retry: 1, while the panel is there; the second attempt reads the log of then.
ListingFails ==
  /\ listing # "idle"
  /\ listing' = IF listing = "first" /\ onScreen THEN "retry" ELSE "idle"
  /\ page' = NoList
  /\ raced' = raced \ {"fetch"}
  /\ UNCHANGED <<serverVars, progress, clearing, onScreen, panel, outdated>>

\* Clear, then Clear all or No; Clear all can be pressed again while it is sent.
AskClear ==
  /\ onScreen /\ clearing = "no"
  /\ clearing' = "asked"
  /\ UNCHANGED <<serverVars, progress, onScreen, panelVars>>

AnswerAsk ==
  /\ onScreen /\ clearing = "asked"
  /\ clearing' \in {"no", "sent"}
  /\ UNCHANGED <<serverVars, progress, onScreen, panelVars>>

\* ClearHistory: the bucket is deleted and made anew in one transaction.
ServerClears ==
  /\ clearing = "sent"
  /\ clearing' = "done"
  /\ log' = <<>> /\ sequence' = 0
  /\ UNCHANGED <<progress, onScreen, panelVars>>

ClearDone ==
  /\ clearing = "done"
  /\ clearing' = "no"
  /\ Invalidate
  /\ UNCHANGED <<serverVars, progress, onScreen>>

\* The clear fails, or is carried out and its answer lost: no onSuccess, and the
\* question stays unless No or another section of the sidebar has been pressed.
ClearFails ==
  /\ clearing \in {"sent", "done"}
  /\ clearing' \in {"no"} \cup (IF onScreen THEN {"asked"} ELSE {})
  /\ raced' = IF clearing = "sent" THEN raced
              ELSE raced \cup (IF page # NoList THEN {"fetch"} ELSE {})
                         \cup (IF panel # NoList THEN {"panel"} ELSE {})
  /\ UNCHANGED <<serverVars, progress, onScreen, panel, outdated, listing, page>>

LogNext ==
  \/ \E r \in LoggedRuns : RunIsLogged(r) \/ RunSucceeds(r) \/ RunFails(r)
  \/ OpenPanel \/ LeavePanel \/ CollectPanel
  \/ ServerLists \/ PageArrives \/ ListingFails
  \/ AskClear \/ AnswerAsk \/ ServerClears \/ ClearDone \/ ClearFails

LogSpec == LogInit /\ [][LogNext]_logVars

(***************************************************************************)
(* Properties.                                                             *)
(***************************************************************************)
\* Types; entries have ascending numbers, as bolt's keys are, and one run each,
\* which has been executed.
LogTypeOK ==
  /\ log \in Seq(Entry) /\ sequence \in Nat
  /\ \A i, j \in DOMAIN log : i < j => log[i].id < log[j].id /\ log[i].run # log[j].run
  /\ \A i \in DOMAIN log : log[i].id <= sequence /\ progress[log[i].run] # "new"
  /\ progress \in [LoggedRuns -> RunStates]
  /\ clearing \in {"no", "asked", "sent", "done"}
  /\ {onScreen, outdated} \subseteq BOOLEAN /\ raced \subseteq {"fetch", "panel"}
  /\ \A p \in {panel, page} : p = NoList \/ (p.entries \in Seq(Entry) /\ p.total \in Nat)
  /\ listing \in {"idle", "first", "retry"}

\* A page is the part of the log, newest first, that begins after the offset and
\* ends at the limit or with the log: a client that asks for page after page gets
\* every entry once, whatever the size of its pages (history.go:44-78).
PagesTile ==
  \A limit \in 1 .. Len(log) + 1, offset \in 0 .. Len(log) :
    LET end == IF offset + limit <= Len(log) THEN offset + limit ELSE Len(log)
    IN ListHistory(limit, offset).entries = SubSeq(Reverse(log), offset + 1, end)

\* At rest: no clear is under way, nothing is being fetched, and the last fetch
\* did not fail.
PanelAtRest ==
  onScreen /\ panel # NoList /\ listing = "idle" /\ ~outdated /\ clearing \in {"no", "asked"}

\* A page has the runs among the newest of the log that were answered with
\* success, and nothing else than the log has.
HasNewest(p) ==
  \A i \in DOMAIN log :
    progress[log[i].run] = "succeeded" /\ Len(log) - i < PageSize =>
      \E k \in DOMAIN p.entries : p.entries[k] = log[i]
IsOfLog(p) == \A k \in DOMAIN p.entries : \E i \in DOMAIN log : log[i] = p.entries[k]

\* So it is with the page on its way and with the one in the cache, unless an
\* invalidation has marked them, a change of the log has overtaken them, or the
\* answer to a clear is still to come.
PagesFollow ==
  /\ page # NoList => listing # "idle"
  /\ page # NoList /\ "fetch" \notin raced =>
       HasNewest(page) /\ (clearing # "done" => IsOfLog(page))
  /\ panel # NoList /\ ~outdated /\ "panel" \notin raced =>
       HasNewest(panel) /\ (clearing # "done" => IsOfLog(panel))

\* The open panel, at rest, has every run among the newest of the log that was
\* answered with success, and nothing that was cleared, with two exceptions: its
\* page was on the way, for the first time or with the panel closed, when the log
\* was changed; and a clear was carried out whose answer was lost, after which it
\* goes on listing what is gone until it is fetched again.  Of runs that failed,
\* and of those whose answer was lost, it says nothing (HistoryPanel.tsx:6, 37;
\* queries.ts:177, 246-251).
PanelFollowsLog ==
  PanelAtRest /\ "panel" \notin raced => HasNewest(panel) /\ IsOfLog(panel)
=============================================================================
