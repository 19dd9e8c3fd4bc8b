----------------------------- MODULE QueryCache -----------------------------
(***************************************************************************)
(* What the browser shows of the connected database: the query hooks of    *)
(* frontend/src/api/queries.ts over the cache of TanStack Query, while     *)
(* DatabaseSwitcher.tsx moves the server's single connection to another    *)
(* database.                                                               *)
(*                                                                         *)
(* A cache key names a kind of answer, and a table or a function, but not  *)
(* the database; two databases may well have tables of one name.  A fetch  *)
(* is answered from the database that the server is connected to when it   *)
(* reads, and the answer arrives when it likes.  Modelled is one page and  *)
(* one object name per kind.                                               *)
(***************************************************************************)
EXTENDS Naturals, FiniteSets

CONSTANTS
  Keys,       \* the kinds of answers looked at
  Databases,  \* the databases of the server
  None        \* no data, no answer, no switch

\* The hooks that differ in what they do around a switch; table-info stands for
\* table-rows, table-indexes and table-constraints too, table-columns for
\* function-definition.
Hooks == {"objects", "schemas", "table-columns", "table-info", "ai-suggestions"}

ASSUME KeysAreHooks == Keys \subseteq Hooks
ASSUME NoneDistinct == None \notin Databases

\* staleTime: Infinity
NeverStale == {"objects", "table-columns", "ai-suggestions"}
\* useSwitchDatabase invalidates these.
InvalidatedBySwitch == {"objects", "schemas"}
\* Sidebar and TabPanel are on the screen as long as AppShell is.
AlwaysMounted == {"objects", "schemas", "ai-suggestions"}

VARIABLES
  serverDb,   \* the database of the server's current client
  database,   \* info.database of the connection store
  switching,  \* the switch in progress: None, or where it goes and how far it got
  mounted,    \* keys that some component on the screen observes
  data,       \* per key, the database the cached answer is about
  stale,      \* isInvalidated
  fetch,      \* the fetch of each key: idle, first (attempt), retry
  answer,     \* the answer on its way to the page
  joined      \* keys whose first load was under way when a switch was answered

cacheVars == <<mounted, data, stale, fetch, answer, joined>>
connVars  == <<serverDb, database, switching>>
vars == <<serverDb, database, switching, mounted, data, stale, fetch, answer, joined>>

Phases == [to : Databases, phase : {"sent", "done"}]

(***************************************************************************)
(* Faulty variants: one plausible slip each, not part of the specification.*)
(***************************************************************************)
\* A fetch that is in progress is joined in any case (cancelRefetch: false).
RestartedIfIdle(S) == {k \in S : fetch[k] = "idle"}

\* The switch is answered without invalidating anything.
SwitchDoneOnly ==
  /\ switching # None /\ switching.phase = "done"
  /\ database' = switching.to
  /\ switching' = None
  /\ UNCHANGED <<serverDb, cacheVars>>

(***************************************************************************)
(* TanStack Query: fetch with cancelRefetch drops and restarts a fetch that*)
(* is in progress if there is data, and joins it if it is the first load.  *)
(***************************************************************************)
Restarted(S) == {k \in S : fetch[k] = "idle" \/ data[k] # None}

Refetch(S) ==
  /\ fetch' = [k \in Keys |-> IF k \in Restarted(S) THEN "first" ELSE fetch[k]]
  /\ answer' = [k \in Keys |-> IF k \in Restarted(S) THEN None ELSE answer[k]]

(***************************************************************************)
(* Initial state: the user has just connected.                             *)
(***************************************************************************)
Init ==
  /\ serverDb \in Databases /\ database = serverDb /\ switching = None
  /\ mounted = AlwaysMounted \cap Keys
  /\ data = [k \in Keys |-> None]
  /\ stale = [k \in Keys |-> FALSE]
  /\ fetch = [k \in Keys |-> IF k \in AlwaysMounted THEN "first" ELSE "idle"]
  /\ answer = [k \in Keys |-> None]
  /\ joined = {}

(***************************************************************************)
(* Queries.                                                                *)
(***************************************************************************)
\* A tab shows a table or a function: fetch unless fresh data is cached.
Mount(k) ==
  /\ k \notin mounted
  /\ mounted' = mounted \cup {k}
  /\ fetch' = [fetch EXCEPT ![k] =
       IF @ = "idle" /\ (data[k] = None \/ stale[k] \/ k \notin NeverStale)
       THEN "first" ELSE @]
  /\ UNCHANGED <<data, stale, answer, joined, connVars>>

Unmount(k) ==
  /\ k \in mounted \ AlwaysMounted
  /\ mounted' = mounted \ {k}
  /\ UNCHANGED <<data, stale, fetch, answer, joined, connVars>>

\* Unobserved data is dropped after gcTime.
Collect(k) ==
  /\ k \notin mounted /\ fetch[k] = "idle" /\ data[k] # None
  /\ data' = [data EXCEPT ![k] = None]
  /\ stale' = [stale EXCEPT ![k] = FALSE]
  /\ joined' = joined \ {k}
  /\ UNCHANGED <<mounted, fetch, answer, connVars>>

\* The refresh button of the sidebar.
RefreshObjects ==
  /\ "objects" \in Keys
  /\ Refetch({"objects"})
  /\ UNCHANGED <<mounted, data, stale, joined, connVars>>

\* The server reads from the client it finds, and the answer is on its way.
ServerAnswers(k) ==
  /\ fetch[k] # "idle" /\ answer[k] = None
  /\ answer' = [answer EXCEPT ![k] = serverDb]
  /\ UNCHANGED <<mounted, data, stale, fetch, joined, connVars>>

AnswerArrives(k) ==
  /\ answer[k] # None
  /\ data' = [data EXCEPT ![k] = answer[k]]
  /\ stale' = [stale EXCEPT ![k] = FALSE]
  /\ fetch' = [fetch EXCEPT ![k] = "idle"]
  /\ answer' = [answer EXCEPT ![k] = None]
  /\ joined' = IF data[k] = None THEN joined ELSE joined \ {k}
  /\ UNCHANGED <<mounted, connVars>>

\* The request fails, or its answer is lost; retry: 1.
FetchFails(k) ==
  /\ fetch[k] = "first"
  /\ fetch' = [fetch EXCEPT ![k] = "retry"]
  /\ answer' = [answer EXCEPT ![k] = None]
  /\ UNCHANGED <<mounted, data, stale, joined, connVars>>

\* The retry fails too: the data of before stays, and so does isInvalidated.
GiveUp(k) ==
  /\ fetch[k] = "retry"
  /\ fetch' = [fetch EXCEPT ![k] = "idle"]
  /\ answer' = [answer EXCEPT ![k] = None]
  /\ joined' = IF data[k] = None THEN joined \ {k} ELSE joined
  /\ UNCHANGED <<mounted, data, stale, connVars>>

(***************************************************************************)
(* The switch.                                                             *)
(***************************************************************************)
\* handleSwitch; the selection is disabled while a switch is pending.
SwitchDatabase(d) ==
  /\ switching = None /\ d # database
  /\ switching' = [to |-> d, phase |-> "sent"]
  /\ UNCHANGED <<serverDb, database, cacheVars>>

\* The server has swapped its client.
ServerSwaps ==
  /\ switching # None /\ switching.phase = "sent"
  /\ serverDb' = switching.to
  /\ switching' = [switching EXCEPT !.phase = "done"]
  /\ UNCHANGED <<database, cacheVars>>

\* onSuccess of the hook, then onSuccess of the switcher.
SwitchDone ==
  /\ switching # None /\ switching.phase = "done"
  /\ stale' = [k \in Keys |-> stale[k] \/ (k \in InvalidatedBySwitch /\ data[k] # None)]
  /\ Refetch(InvalidatedBySwitch \cap mounted)
  /\ joined' = joined \cup ((InvalidatedBySwitch \cap mounted)
                           \ Restarted(InvalidatedBySwitch \cap mounted))
  /\ database' = switching.to
  /\ switching' = None
  /\ UNCHANGED <<serverDb, mounted, data>>

\* The server refuses, or its answer is lost.
SwitchFails ==
  /\ switching # None
  /\ switching' = None
  /\ UNCHANGED <<serverDb, database, cacheVars>>

Next ==
  \/ \E k \in Keys : \/ Mount(k) \/ Unmount(k) \/ Collect(k)
                     \/ ServerAnswers(k) \/ AnswerArrives(k) \/ FetchFails(k) \/ GiveUp(k)
  \/ RefreshObjects
  \/ \E d \in Databases : SwitchDatabase(d)
  \/ ServerSwaps \/ SwitchDone \/ SwitchFails

Spec == Init /\ [][Next]_vars

(***************************************************************************)
(* Properties.                                                             *)
(***************************************************************************)
\* Types; an answer is under way only while something waits for it.
TypeOK ==
  /\ serverDb \in Databases /\ database \in Databases
  /\ switching \in Phases \cup {None}
  /\ mounted \subseteq Keys /\ AlwaysMounted \cap Keys \subseteq mounted
  /\ data \in [Keys -> Databases \cup {None}]
  /\ stale \in [Keys -> BOOLEAN]
  /\ fetch \in [Keys -> {"idle", "first", "retry"}]
  /\ answer \in [Keys -> Databases \cup {None}]
  /\ \A k \in Keys : fetch[k] = "idle" => answer[k] = None
  /\ joined \subseteq Keys

\* The page's idea of the connection is the server's: no switch is pending and
\* none has been lost.
InSync == switching = None /\ database = serverDb

\* The sidebar lists the objects and schemas of the database that the status
\* bar names (queries.ts:68-71), once they are loaded and however fetches, the
\* refresh button, failures and the switch interleave, with one exception: the
\* switch was answered while the first load ever was under way, in which case
\* the invalidation joined that load instead of starting another.
SidebarFollowsSwitch ==
  \A k \in InvalidatedBySwitch \cap Keys :
    InSync /\ data[k] # None /\ ~stale[k] => data[k] = database \/ k \in joined

\* A switch moves the page to another database than it names, and once the
\* server is done that is where it is.
SwitchGoesElsewhere ==
  switching # None =>
    /\ switching.to # database
    /\ switching.phase = "done" => serverDb = switching.to

\* While the server is where the page takes it to be, also before a switch it has
\* not carried out yet, what is cached or on the way for the sidebar is about
\* that database, but for the first load of SidebarFollowsSwitch.
SidebarIsOfServer ==
  database = serverDb =>
    \A k \in InvalidatedBySwitch \cap Keys :
      /\ answer[k] \in {None, database} \/ (k \in joined /\ data[k] = None)
      /\ data[k] # None /\ ~stale[k] => data[k] = database \/ k \in joined

\* Inductive.
CacheInv == TypeOK /\ SwitchGoesElsewhere /\ SidebarIsOfServer

\* Once the sidebar shows the connected database, no late answer of an earlier
\* fetch replaces it by another one's.
SidebarStaysCurrent ==
  [][\A k \in InvalidatedBySwitch \cap Keys :
       InSync /\ InSync' /\ data[k] = database => data'[k] = database']_vars
=============================================================================
