---------------------------- MODULE QueryService ----------------------------
(***************************************************************************)
(* The Go back end that runs SQL for the browser: pkg/service (query.go,   *)
(* connection.go, service.go) over pkg/client/client.go.                   *)
(*                                                                         *)
(* Every HTTP request is a goroutine.  They share                          *)
(*   - client:  the current *client.Client, under s.mu                     *)
(*   - running: the map tab id -> cancel function, under s.queryMu         *)
(*   - history: the bolt bucket query_history                              *)
(* and nothing else.  A handler reads s.client once, keeps the pointer and *)
(* uses it to its end, while other handlers close and replace it; it       *)
(* touches running twice, before and after the query, in two separate      *)
(* critical sections.  One action below is what a handler does between two *)
(* points at which another goroutine can observe or disturb it.            *)
(***************************************************************************)
EXTENDS Naturals, Sequences, FiniteSets

CONSTANTS
  Requests,     \* HTTP requests that run SQL, each handled once
  Ops,          \* calls of /api/connect and /api/switchdb, each handled once
  Tabs,         \* values of tab_id
  Databases,    \* names of databases on the PostgreSQL server
  Boot,         \* the client main.go opens before it listens
  NoClient,     \* the nil *client.Client
  NoRequest,    \* no entry in the map running
  NoTab,        \* tab of a request that is not made by RunQuery
  NoDatabase,   \* database of a client that was never opened
  MaxOpenConns  \* db.SetMaxOpenConns: 5 in client.go:103

ASSUME ClientsDistinct == Boot \notin Ops /\ NoClient \notin Ops \cup {Boot}
ASSUME SentinelsDistinct == /\ NoRequest \notin Requests
                            /\ NoTab \notin Tabs
                            /\ NoDatabase \notin Databases
ASSUME MaxOpenConnsPositive == MaxOpenConns \in Nat \ {0}

\* An operation dials at most one client, which therefore bears its name.
Clients == Ops \cup {Boot}

VARIABLES
  client,       \* s.client
  clientState,  \* life of each *sql.DB: unopened, open, closed
  dbOf,         \* the database named in the client's connURL
  op,           \* how far each connect or switch handler has got
  pc,           \* how far each SQL request has got
  tabOf,        \* tab_id of a RunQuery request
  cl,           \* the client a request captured in requireClient
  cancelled,    \* whether the request's context is cancelled
  outcome,      \* what QueryWithContext returned
  running,      \* s.running: the request whose cancel function is registered
  history       \* query_history, oldest first

connVars == <<client, clientState, dbOf, op>>
reqVars  == <<pc, tabOf, cl, cancelled, outcome, running>>
vars     == <<client, clientState, dbOf, op, pc, tabOf, cl, cancelled,
              outcome, running, history>>

OpStates  == {"new", "dialling", "dialled", "info", "asking", "done", "failed"}
ReqStates == {"new", "captured", "waiting", "executing", "returned",
              "recorded", "done", "rejected"}

\* A request between requireClient and its response.
InFlight(r) == pc[r] \in {"captured", "waiting", "executing", "returned", "recorded"}

\* A RunQuery request between the two critical sections on s.running.
Registered(r) == /\ tabOf[r] \in Tabs
                 /\ pc[r] \in {"waiting", "executing", "returned", "recorded"}

HistoryEntry == [request : Requests, database : Databases, outcome : {"ok", "error"}]

(***************************************************************************)
(* The connection pool of database/sql.                                    *)
(***************************************************************************)
\* The connections of c that are checked out: a query holds one, and so does
\* the SHOW server_version of Info.
InUse(c) == {r \in Requests : cl[r] = c /\ pc[r] = "executing"}
            \cup {o \in Ops : o = c /\ op[o] = "asking"}

CanAcquire(c) == clientState[c] = "open" /\ Cardinality(InUse(c)) < MaxOpenConns

(***************************************************************************)
(* Faulty variants.  Each is one of the operations below with a plausible  *)
(* slip; put in the operation's place it must break a property, which      *)
(* shows that the property guards against the slip.  They are not part of  *)
(* the specification.                                                      *)
(***************************************************************************)
\* The previous query of the tab is replaced but not cancelled.
RegisterSilently(r) ==
  /\ pc[r] = "captured"
  /\ pc' = [pc EXCEPT ![r] = "waiting"]
  /\ running' = [running EXCEPT ![tabOf[r]] = r]
  /\ UNCHANGED <<tabOf, cl, cancelled, outcome, history, connVars>>

\* A return path without the deferred delete.
DeregisterForgotten(r) ==
  /\ pc[r] = "recorded"
  /\ pc' = [pc EXCEPT ![r] = "done"]
  /\ UNCHANGED <<tabOf, cl, cancelled, outcome, running, history, connVars>>

\* The history entry names the database of s.client at the time of writing.
AddHistoryOfCurrent(r) ==
  /\ pc[r] = "returned"
  /\ tabOf[r] \in Tabs
  /\ pc' = [pc EXCEPT ![r] = "recorded"]
  /\ client # NoClient
  /\ history' = Append(history, [request  |-> r,
                                 database |-> dbOf[client],
                                 outcome  |-> outcome[r]])
  /\ UNCHANGED <<tabOf, cl, cancelled, outcome, running, connVars>>

\* The wait for a connection looks at the context only when one is free.
AbortOnceFree(r) ==
  /\ pc[r] = "waiting"
  /\ cancelled[r] /\ CanAcquire(cl[r])
  /\ pc' = [pc EXCEPT ![r] = "returned"]
  /\ outcome' = [outcome EXCEPT ![r] = "error"]
  /\ UNCHANGED <<tabOf, cl, cancelled, running, history, connVars>>

\* The client is read again when the statement is about to be sent.
AcquireOfCurrent(r) ==
  /\ pc[r] = "waiting"
  /\ client # NoClient /\ CanAcquire(client)
  /\ pc' = [pc EXCEPT ![r] = "executing"]
  /\ cl' = [cl EXCEPT ![r] = client]
  /\ UNCHANGED <<tabOf, cancelled, outcome, running, history, connVars>>

\* SwapClient does not close the client it replaces.
CloseNothing == clientState' = clientState

\* Disconnect closes the client but leaves the pointer.
DisconnectKeepsPointer ==
  /\ clientState' = [c \in Clients |-> IF c = client THEN "closed" ELSE clientState[c]]
  /\ UNCHANGED <<client, dbOf, op, history, reqVars>>

(***************************************************************************)
(* Initial states: main.go has opened the repository and has or has not    *)
(* connected automatically.                                                *)
(***************************************************************************)
Init ==
  /\ client \in {NoClient, Boot}
  /\ clientState = [c \in Clients |-> IF c = client THEN "open" ELSE "unopened"]
  /\ \E d \in Databases :
       dbOf = [c \in Clients |-> IF c = client THEN d ELSE NoDatabase]
  /\ op = [o \in Ops |-> "new"]
  /\ pc = [r \in Requests |-> "new"]
  /\ tabOf = [r \in Requests |-> NoTab]
  /\ cl = [r \in Requests |-> NoClient]
  /\ cancelled = [r \in Requests |-> FALSE]
  /\ outcome = [r \in Requests |-> "none"]
  /\ running = [t \in Tabs |-> NoRequest]
  /\ history = << >>

(***************************************************************************)
(* Service.RunQuery and its neighbours.                                    *)
(***************************************************************************)
\* requireClient fails: ErrNotConnected, answered with 400.
Reject(r) ==
  /\ pc[r] = "new"
  /\ client = NoClient
  /\ pc' = [pc EXCEPT ![r] = "rejected"]
  /\ UNCHANGED <<tabOf, cl, cancelled, outcome, running, history, connVars>>

\* RunQuery up to the first critical section: capture the current client and
\* derive a cancellable context.
RunQuery(r, t) ==
  /\ pc[r] = "new"
  /\ client # NoClient
  /\ pc' = [pc EXCEPT ![r] = "captured"]
  /\ cl' = [cl EXCEPT ![r] = client]
  /\ tabOf' = [tabOf EXCEPT ![r] = t]
  /\ UNCHANGED <<cancelled, outcome, running, history, connVars>>

\* The first critical section: cancel the tab's previous query, take its place.
Register(r) ==
  LET t == tabOf[r] prev == running[t] IN
  /\ pc[r] = "captured"
  /\ pc' = [pc EXCEPT ![r] = "waiting"]
  /\ cancelled' = [q \in Requests |-> cancelled[q] \/ q = prev]
  /\ running' = [running EXCEPT ![t] = r]
  /\ UNCHANGED <<tabOf, cl, outcome, history, connVars>>

\* ExplainQuery, AnalyzeQuery, ExportQuery: the same capture, but neither
\* registered nor recorded.
RunPlain(r) ==
  /\ pc[r] = "new"
  /\ client # NoClient
  /\ pc' = [pc EXCEPT ![r] = "waiting"]
  /\ cl' = [cl EXCEPT ![r] = client]
  /\ UNCHANGED <<tabOf, cancelled, outcome, running, history, connVars>>

\* The pool hands out a connection and the statement is sent.
Acquire(r) ==
  /\ pc[r] = "waiting"
  /\ CanAcquire(cl[r])
  /\ pc' = [pc EXCEPT ![r] = "executing"]
  /\ UNCHANGED <<tabOf, cl, cancelled, outcome, running, history, connVars>>

\* PostgreSQL answers, with rows or with an error; closing the client
\* meanwhile does not stop a query that holds a connection.  Neither does
\* cancelling it: the driver asks the server to cancel, and goes on waiting for
\* the server's answer on the query's own connection.
Finish(r) ==
  /\ pc[r] = "executing"
  /\ pc' = [pc EXCEPT ![r] = "returned"]
  /\ \E res \in {"ok", "error"} : outcome' = [outcome EXCEPT ![r] = res]
  /\ UNCHANGED <<tabOf, cl, cancelled, running, history, connVars>>

\* database/sql: a cancelled context ends the wait for a connection.
Abort(r) ==
  /\ pc[r] = "waiting"
  /\ cancelled[r]
  /\ pc' = [pc EXCEPT ![r] = "returned"]
  /\ outcome' = [outcome EXCEPT ![r] = "error"]
  /\ UNCHANGED <<tabOf, cl, cancelled, running, history, connVars>>

\* The client was closed before the query got a connection.
FailClosed(r) ==
  /\ pc[r] = "waiting"
  /\ clientState[cl[r]] = "closed"
  /\ pc' = [pc EXCEPT ![r] = "returned"]
  /\ outcome' = [outcome EXCEPT ![r] = "error"]
  /\ UNCHANGED <<tabOf, cl, cancelled, running, history, connVars>>

\* AddHistoryEntry with the database of the captured client.  The error of a
\* failed write is dropped.
AddHistory(r) ==
  /\ pc[r] = "returned"
  /\ tabOf[r] \in Tabs
  /\ pc' = [pc EXCEPT ![r] = "recorded"]
  /\ \/ history' = Append(history, [request  |-> r,
                                    database |-> dbOf[cl[r]],
                                    outcome  |-> outcome[r]])
     \/ UNCHANGED history
  /\ UNCHANGED <<tabOf, cl, cancelled, outcome, running, connVars>>

\* The deferred function: delete(s.running, tabID), whoever is registered
\* there now.  The cancel() that follows ends a context nobody uses any more.
Deregister(r) ==
  /\ pc[r] = "recorded"
  /\ pc' = [pc EXCEPT ![r] = "done"]
  /\ running' = [running EXCEPT ![tabOf[r]] = NoRequest]
  /\ UNCHANGED <<tabOf, cl, cancelled, outcome, history, connVars>>

\* A plain request has its result and answers.
Respond(r) ==
  /\ pc[r] = "returned"
  /\ tabOf[r] = NoTab
  /\ pc' = [pc EXCEPT ![r] = "done"]
  /\ UNCHANGED <<tabOf, cl, cancelled, outcome, running, history, connVars>>

\* The browser drops the HTTP connection: net/http cancels r.Context().
ClientGone(r) ==
  /\ InFlight(r)
  /\ ~cancelled[r]
  /\ cancelled' = [cancelled EXCEPT ![r] = TRUE]
  /\ UNCHANGED <<pc, tabOf, cl, outcome, running, history, connVars>>

\* POST /api/query/cancel
CancelQuery(t) ==
  /\ cancelled' = [q \in Requests |-> cancelled[q] \/ q = running[t]]
  /\ UNCHANGED <<pc, tabOf, cl, outcome, running, history, connVars>>

(***************************************************************************)
(* Connect, SwitchDatabase and Disconnect.                                 *)
(***************************************************************************)
\* Connect(url): dial whatever the user typed.
Connect(o, d) ==
  /\ op[o] = "new"
  /\ op' = [op EXCEPT ![o] = "dialling"]
  /\ dbOf' = [dbOf EXCEPT ![o] = d]
  /\ UNCHANGED <<client, clientState, history, reqVars>>

\* SwitchDatabase(database): requires a client, whose URL it rewrites.
SwitchDatabase(o, d) ==
  /\ op[o] = "new"
  /\ client # NoClient
  /\ op' = [op EXCEPT ![o] = "dialling"]
  /\ dbOf' = [dbOf EXCEPT ![o] = d]
  /\ UNCHANGED <<client, clientState, history, reqVars>>

\* SwitchDatabase without a client: ErrNotConnected.
RejectSwitch(o) ==
  /\ op[o] = "new"
  /\ client = NoClient
  /\ op' = [op EXCEPT ![o] = "failed"]
  /\ UNCHANGED <<client, clientState, dbOf, history, reqVars>>

\* client.New: the ping succeeds.
Dial(o) ==
  /\ op[o] = "dialling"
  /\ op' = [op EXCEPT ![o] = "dialled"]
  /\ clientState' = [clientState EXCEPT ![o] = "open"]
  /\ UNCHANGED <<client, dbOf, history, reqVars>>

\* client.New: the ping fails and the *sql.DB is closed again.
DialFails(o) ==
  /\ op[o] = "dialling"
  /\ op' = [op EXCEPT ![o] = "failed"]
  /\ clientState' = [clientState EXCEPT ![o] = "closed"]
  /\ UNCHANGED <<client, dbOf, history, reqVars>>

\* What SwapClient does to the client it replaces.
CloseCurrent ==
  clientState' = [c \in Clients |-> IF c = client THEN "closed" ELSE clientState[c]]

\* SwapClient(cl), under s.mu.
Swap(o) ==
  /\ op[o] = "dialled"
  /\ op' = [op EXCEPT ![o] = "info"]
  /\ CloseCurrent
  /\ client' = o
  /\ UNCHANGED <<dbOf, history, reqVars>>

\* Disconnect: SwapClient(nil).
Disconnect ==
  /\ CloseCurrent
  /\ client' = NoClient
  /\ UNCHANGED <<dbOf, op, history, reqVars>>

\* cl.Info() on the handler's own client: it needs a connection of the pool.
AskInfo(o) ==
  /\ op[o] = "info"
  /\ CanAcquire(o)
  /\ op' = [op EXCEPT ![o] = "asking"]
  /\ UNCHANGED <<client, clientState, dbOf, history, reqVars>>

\* Info has its answer, or an error from the server that it swallows.
InfoDone(o) ==
  /\ op[o] = "asking"
  /\ op' = [op EXCEPT ![o] = "done"]
  /\ UNCHANGED <<client, clientState, dbOf, history, reqVars>>

\* Another handler has closed the client meanwhile: Info swallows that too.
InfoClosed(o) ==
  /\ op[o] = "info"
  /\ clientState[o] = "closed"
  /\ op' = [op EXCEPT ![o] = "done"]
  /\ UNCHANGED <<client, clientState, dbOf, history, reqVars>>

(***************************************************************************)
(* The specification.                                                      *)
(***************************************************************************)
RequestStep(r) ==
  \/ Reject(r) \/ \E t \in Tabs : RunQuery(r, t)
  \/ RunPlain(r) \/ Register(r) \/ Acquire(r) \/ Finish(r)
  \/ Abort(r) \/ FailClosed(r) \/ AddHistory(r) \/ Deregister(r)
  \/ Respond(r) \/ ClientGone(r)

OpStep(o) ==
  \/ \E d \in Databases : Connect(o, d) \/ SwitchDatabase(o, d)
  \/ RejectSwitch(o) \/ Dial(o) \/ DialFails(o)
  \/ Swap(o) \/ AskInfo(o) \/ InfoDone(o) \/ InfoClosed(o)

Next ==
  \/ \E r \in Requests : RequestStep(r)
  \/ \E o \in Ops : OpStep(o)
  \/ \E t \in Tabs : CancelQuery(t)
  \/ Disconnect

Spec == Init /\ [][Next]_vars

\* The back end keeps executing: a runnable goroutine is scheduled, a mutex is
\* granted, and a goroutine queued in database/sql's pool notices a cancelled
\* context and a closed pool.  Nothing is assumed of PostgreSQL (Finish, of a
\* cancelled query too; Dial, InfoDone), of the pool's generosity (Acquire,
\* AskInfo) or of the user.
Fairness ==
  /\ \A r \in Requests : /\ WF_vars(Register(r)) /\ WF_vars(Abort(r))
                         /\ WF_vars(FailClosed(r)) /\ WF_vars(AddHistory(r))
                         /\ WF_vars(Deregister(r)) /\ WF_vars(Respond(r))
  /\ \A o \in Ops : WF_vars(Swap(o)) /\ WF_vars(InfoClosed(o))

FairSpec == Spec /\ Fairness

(***************************************************************************)
(* Properties.                                                             *)
(***************************************************************************)
\* Types, and no handler past requireClient dereferences a nil client
\* (query.go:11-14): whatever happens to s.client later, a request in flight
\* holds a client that was opened.
TypeOK ==
  /\ client \in Clients \cup {NoClient}
  /\ clientState \in [Clients -> {"unopened", "open", "closed"}]
  /\ dbOf \in [Clients -> Databases \cup {NoDatabase}]
  /\ op \in [Ops -> OpStates]
  /\ pc \in [Requests -> ReqStates]
  /\ tabOf \in [Requests -> Tabs \cup {NoTab}]
  /\ cl \in [Requests -> Clients \cup {NoClient}]
  /\ cancelled \in [Requests -> BOOLEAN]
  /\ outcome \in [Requests -> {"none", "ok", "error"}]
  /\ running \in [Tabs -> Requests \cup {NoRequest}]
  /\ history \in Seq(HistoryEntry)
  /\ \A r \in Requests : InFlight(r) => /\ cl[r] \in Clients
                                        /\ clientState[cl[r]] # "unopened"

\* The current client can be used: however connects, switches and disconnects
\* interleave, s.client never points to a client that was closed or never
\* opened (service.go:50-57).
CurrentClientOpen == client # NoClient => clientState[client] = "open"

\* No connection pool leaks: an open client is the current one, or belongs to
\* a handler that has dialled it and is about to install it, so that every
\* client that was ever replaced is closed (service.go:53-55).
NoLeakedClient ==
  \A c \in Clients : clientState[c] = "open" =>
    c = client \/ (c \in Ops /\ op[c] = "dialled")

\* The map running holds no stale cancel function: an entry is a query of that
\* very tab, between its two critical sections (query.go:18-30).  So a cancel
\* or a new query never cancels a query of another tab, and no entry outlives
\* its query, although the deferred delete does not look at what it deletes.
RegistryLive ==
  \A t \in Tabs : running[t] # NoRequest =>
    tabOf[running[t]] = t /\ Registered(running[t])

\* What the unconditional delete costs, exactly: a query that is neither
\* cancelled nor reachable through the map exists only in a tab where a
\* cancelled query has already come to its end.  As long as no query of the tab
\* was cancelled, every live one is reachable and there is at most one.
LostOnlyAfterCancel ==
  \A r \in Requests :
    Registered(r) /\ ~cancelled[r] /\ running[tabOf[r]] # r =>
      \E q \in Requests : tabOf[q] = tabOf[r] /\ cancelled[q] /\ pc[q] = "done"

\* The history tells the truth (query.go:34-47): a query is in it at most once,
\* with its own outcome and with the database it ran on, even when the user has
\* switched to another one before it ended.
HistoryFaithful ==
  /\ \A i \in DOMAIN history :
       LET h == history[i] IN
       /\ tabOf[h.request] \in Tabs
       /\ pc[h.request] \in {"recorded", "done"}
       /\ h.outcome = outcome[h.request]
       /\ h.database = dbOf[cl[h.request]]
  /\ \A i, j \in DOMAIN history : history[i].request = history[j].request => i = j

\* How a client's life follows its operation's progress: the part of the
\* inductive invariant that makes CurrentClientOpen and NoLeakedClient inductive.
ClientLife ==
  /\ \A o \in Ops :
       /\ op[o] \in {"new", "dialling"} => clientState[o] = "unopened"
       /\ op[o] \in {"new", "dialling", "dialled", "failed"} => client # o
       /\ op[o] = "dialled" => clientState[o] = "open"
       /\ op[o] = "dialling" => dbOf[o] \in Databases
  /\ \A c \in Clients : clientState[c] # "unopened" => dbOf[c] \in Databases

\* What a request's progress says of the values it carries.
RequestLife ==
  \A r \in Requests :
    /\ pc[r] \notin {"new", "rejected"} =>
         cl[r] \in Clients /\ clientState[cl[r]] # "unopened"
    /\ pc[r] \in {"captured", "recorded"} => tabOf[r] \in Tabs
    /\ pc[r] \in {"new", "rejected"} => tabOf[r] = NoTab /\ cl[r] = NoClient
    /\ pc[r] \in {"returned", "recorded", "done"} => outcome[r] # "none"

\* The inductive invariant behind every safety theorem about this module: a
\* handler finds the shared state as its own progress and the other handlers'
\* progress say it must be.
IndInv ==
  /\ TypeOK
  /\ ClientLife
  /\ CurrentClientOpen
  /\ NoLeakedClient
  /\ RequestLife
  /\ RegistryLive
  /\ LostOnlyAfterCancel
  /\ HistoryFaithful

\* The promise the handlers keep, however they interleave: what they show of the
\* four things QueryContract speaks of behaves as it says.  A request is for one
\* database from requireClient to its history entry (query.go:10-48) although
\* connects and switches replace s.client at any moment in between.
DatabaseOf(c) == IF c = NoClient THEN NoDatabase ELSE dbOf[c]

StatusOf(r) ==
  CASE pc[r] = "new"                                -> "new"
    [] pc[r] = "rejected"                           -> "refused"
    [] pc[r] \in {"captured", "waiting", "executing"} -> "accepted"
    [] OTHER                                        -> outcome[r]

Contract == INSTANCE QueryContract WITH
  current <- DatabaseOf(client),
  status  <- [r \in Requests |-> StatusOf(r)],
  onDb    <- [r \in Requests |-> DatabaseOf(cl[r])],
  log     <- history

ImplementsContract == Contract!Spec

\* A cancelled request waits for nobody but PostgreSQL: wherever the cancellation
\* finds it (not yet registered, queued for a connection of a pool that never has
\* a free one, or returned), it comes to its end, unless it holds a connection
\* whose server still owes it an answer (client.go:600: the driver keeps waiting
\* for it).  With the answer it ends as well.
CancelledEnds ==
  \A r \in Requests : (InFlight(r) /\ cancelled[r]) ~> (pc[r] \in {"done", "executing"})

\* A request that still waits for a connection of a client that was replaced is
\* released, even when the connections of that client are taken forever: the
\* SQL requests (FailClosed) and the Info of a superseded connect (InfoClosed).
ReplacedClientReleasesWaiters ==
  /\ \A r \in Requests : (pc[r] = "waiting" /\ cl[r] # client) ~> (pc[r] # "waiting")
  /\ \A o \in Ops : (op[o] = "info" /\ client # o) ~> (op[o] # "info")

\* openapi.yaml:356, "Cancel a running query": a cancel of a tab finds the
\* query that runs in it.  It does not hold: see run service_cancel_reaches.
CancelReachesRunning ==
  \A r \in Requests : Registered(r) /\ ~cancelled[r] => running[tabOf[r]] = r
=============================================================================
