------------------------- MODULE QueryServiceProofs -------------------------
(***************************************************************************)
(* Safety of QueryService for every set of requests, tabs, databases and   *)
(* operations and every size of the connection pool; and that QueryService *)
(* implements QueryContract.                                               *)
(*                                                                         *)
(* The inductive invariant IndInv is preserved conjunct by conjunct: one   *)
(* lemma per conjunct, one step per action that can disturb it.            *)
(***************************************************************************)
EXTENDS QueryService, TLAPS, SequenceTheorems

USE ClientsDistinct, SentinelsDistinct

(***************************************************************************)
(* Types.                                                                  *)
(***************************************************************************)
\* The steps of a SQL request (query.go:10-82) keep the types.
LEMMA RequestStepType ==
  ASSUME IndInv, NEW r \in Requests, RequestStep(r)
  PROVE  TypeOK'
<1> USE DEF IndInv, TypeOK, InFlight, connVars, ReqStates, OpStates, Clients
<1>1. CASE Reject(r)
  BY <1>1 DEF Reject
<1>2. ASSUME NEW t \in Tabs, RunQuery(r, t) PROVE TypeOK'
  BY <1>2 DEF RunQuery, CurrentClientOpen
<1>3. CASE RunPlain(r)
  BY <1>3 DEF RunPlain, CurrentClientOpen
<1>4. CASE Register(r)
  BY <1>4 DEF Register
<1>5. CASE Acquire(r)
  BY <1>5 DEF Acquire
<1>6. CASE Finish(r)
  BY <1>6 DEF Finish
<1>7. CASE Abort(r)
  BY <1>7 DEF Abort
<1>8. CASE FailClosed(r)
  BY <1>8 DEF FailClosed
<1>9. CASE AddHistory(r)
  <2> DEFINE entry == [request |-> r, database |-> dbOf[cl[r]], outcome |-> outcome[r]]
  <2>1. history \in Seq(HistoryEntry)
    OBVIOUS
  <2>2. entry \in HistoryEntry
    BY <1>9 DEF AddHistory, HistoryEntry, RequestLife, ClientLife
  <2>3. history' = Append(history, entry) \/ history' = history
    BY <1>9 DEF AddHistory
  <2>4. history' \in Seq(HistoryEntry)
    <3> HIDE DEF entry, IndInv, TypeOK
    <3> QED
      BY <2>1, <2>2, <2>3, AppendProperties
  <2>5. QED
    BY <1>9, <2>4 DEF AddHistory
<1>10. CASE Deregister(r)
  BY <1>10 DEF Deregister
<1>11. CASE Respond(r)
  BY <1>11 DEF Respond
<1>12. CASE ClientGone(r)
  BY <1>12 DEF ClientGone
<1>13. QED
  BY <1>1, <1>2, <1>3, <1>4, <1>5, <1>6, <1>7, <1>8, <1>9, <1>10, <1>11, <1>12
  DEF RequestStep

\* The steps of a connect or switch handler (connection.go:5-37) keep the types.
LEMMA OpStepType ==
  ASSUME IndInv, NEW o \in Ops, OpStep(o)
  PROVE  TypeOK'
<1> USE DEF IndInv, TypeOK, InFlight, reqVars, ReqStates, OpStates, Clients
<1>1. ASSUME NEW d \in Databases, Connect(o, d) PROVE TypeOK'
  BY <1>1 DEF Connect
<1>2. ASSUME NEW d \in Databases, SwitchDatabase(o, d) PROVE TypeOK'
  BY <1>2 DEF SwitchDatabase
<1>3. CASE RejectSwitch(o)
  BY <1>3 DEF RejectSwitch
<1>4. CASE Dial(o)
  BY <1>4 DEF Dial
<1>5. CASE DialFails(o)
  BY <1>5 DEF DialFails
<1>6. CASE Swap(o)
  BY <1>6 DEF Swap, CloseCurrent
<1>7. CASE AskInfo(o)
  BY <1>7 DEF AskInfo
<1>8. CASE InfoDone(o)
  BY <1>8 DEF InfoDone
<1>9. CASE InfoClosed(o)
  BY <1>9 DEF InfoClosed
<1>10. QED
  BY <1>1, <1>2, <1>3, <1>4, <1>5, <1>6, <1>7, <1>8, <1>9 DEF OpStep

\* Every step keeps the types.
LEMMA NextType == IndInv /\ [Next]_vars => TypeOK'
<1> SUFFICES ASSUME IndInv, [Next]_vars PROVE TypeOK'
  OBVIOUS
<1>1. ASSUME NEW t \in Tabs, CancelQuery(t) PROVE TypeOK'
  BY <1>1 DEF CancelQuery, IndInv, TypeOK, InFlight, connVars
<1>2. CASE Disconnect
  BY <1>2 DEF Disconnect, CloseCurrent, IndInv, TypeOK, InFlight, reqVars, Clients
<1>3. CASE UNCHANGED vars
  BY <1>3 DEF vars, IndInv, TypeOK, InFlight
<1>4. QED
  BY <1>1, <1>2, <1>3, RequestStepType, OpStepType DEF Next

(***************************************************************************)
(* Clients.                                                                *)
(***************************************************************************)
ClientsInv == ClientLife /\ CurrentClientOpen /\ NoLeakedClient

\* Running SQL, and cancelling it, leaves the connections alone.
LEMMA RequestStepConn ==
  ASSUME NEW r \in Requests, RequestStep(r)
  PROVE  UNCHANGED connVars
BY DEF RequestStep, Reject, RunQuery, RunPlain, Register, Acquire, Finish, Abort,
       FailClosed, AddHistory, Deregister, Respond, ClientGone

\* What the clients' invariant says depends on connVars only.
LEMMA ConnUnchanged == IndInv /\ UNCHANGED connVars => ClientsInv'
BY DEF IndInv, ClientsInv, ClientLife, CurrentClientOpen, NoLeakedClient, connVars

\* SwapClient (service.go:50-57) closes what it replaces and nothing else, so a
\* dialled client of another handler stays open and owned.
LEMMA SwapClients ==
  ASSUME IndInv, NEW o \in Ops, Swap(o)
  PROVE  ClientsInv'
<1> USE DEF IndInv, TypeOK, Clients, OpStates
<1>1. /\ op[o] = "dialled" /\ client # o /\ clientState[o] = "open"
      /\ client' = o /\ dbOf' = dbOf
      /\ op' = [op EXCEPT ![o] = "info"]
      /\ clientState' = [c \in Clients |-> IF c = client THEN "closed" ELSE clientState[c]]
  BY DEF Swap, CloseCurrent, ClientLife
<1>2. ClientLife'
  BY <1>1 DEF ClientLife, CurrentClientOpen
<1>3. CurrentClientOpen'
  BY <1>1 DEF CurrentClientOpen
<1>4. NoLeakedClient'
  BY <1>1 DEF NoLeakedClient
<1>5. QED
  BY <1>2, <1>3, <1>4 DEF ClientsInv

\* The steps of a connect or switch handler keep the clients' invariant.
LEMMA OpStepClients ==
  ASSUME IndInv, NEW o \in Ops, OpStep(o)
  PROVE  ClientsInv'
<1> USE DEF IndInv, TypeOK, Clients, OpStates, ClientsInv, ClientLife,
            CurrentClientOpen, NoLeakedClient
<1>1. ASSUME NEW d \in Databases, Connect(o, d) PROVE ClientsInv'
  BY <1>1 DEF Connect
<1>2. ASSUME NEW d \in Databases, SwitchDatabase(o, d) PROVE ClientsInv'
  BY <1>2 DEF SwitchDatabase
<1>3. CASE RejectSwitch(o)
  BY <1>3 DEF RejectSwitch
<1>4. CASE Dial(o)
  BY <1>4 DEF Dial
<1>5. CASE DialFails(o)
  BY <1>5 DEF DialFails
<1>6. CASE Swap(o)
  BY <1>6, SwapClients
<1>7. CASE AskInfo(o)
  BY <1>7 DEF AskInfo
<1>8. CASE InfoDone(o)
  BY <1>8 DEF InfoDone
<1>9. CASE InfoClosed(o)
  BY <1>9 DEF InfoClosed
<1>10. QED
  BY <1>1, <1>2, <1>3, <1>4, <1>5, <1>6, <1>7, <1>8, <1>9 DEF OpStep

\* Every step keeps the clients' invariant.
LEMMA NextClients == IndInv /\ [Next]_vars => ClientsInv'
<1> SUFFICES ASSUME IndInv, [Next]_vars PROVE ClientsInv'
  OBVIOUS
<1>1. ASSUME NEW r \in Requests, RequestStep(r) PROVE ClientsInv'
  BY <1>1, RequestStepConn, ConnUnchanged
<1>2. ASSUME NEW t \in Tabs, CancelQuery(t) PROVE ClientsInv'
  BY <1>2, ConnUnchanged DEF CancelQuery
<1>3. CASE Disconnect
  BY <1>3 DEF Disconnect, CloseCurrent, IndInv, TypeOK, Clients, ClientsInv,
              ClientLife, CurrentClientOpen, NoLeakedClient
<1>4. CASE UNCHANGED vars
  BY <1>4, ConnUnchanged DEF vars, connVars
<1>5. QED
  BY <1>1, <1>2, <1>3, <1>4, OpStepClients DEF Next

(***************************************************************************)
(* Requests.                                                               *)
(***************************************************************************)
\* Connects, switches and disconnects leave the requests and the history
\* alone, never unmake a client, and never rename one that was opened.
LEMMA ConnStepKeeps ==
  ASSUME IndInv,
         (\E o \in Ops : OpStep(o)) \/ Disconnect
  PROVE  /\ UNCHANGED <<reqVars, history>>
         /\ \A c \in Clients : clientState[c] # "unopened" =>
              clientState'[c] # "unopened" /\ dbOf'[c] = dbOf[c]
<1> USE DEF IndInv, TypeOK, Clients, OpStates, ClientLife
<1>1. CASE Disconnect
  BY <1>1 DEF Disconnect, CloseCurrent
<1>2. ASSUME NEW o \in Ops, OpStep(o)
      PROVE  /\ UNCHANGED <<reqVars, history>>
             /\ \A c \in Clients : clientState[c] # "unopened" =>
                  clientState'[c] # "unopened" /\ dbOf'[c] = dbOf[c]
  BY <1>2 DEF OpStep, Connect, SwitchDatabase, RejectSwitch, Dial, DialFails,
              Swap, CloseCurrent, AskInfo, InfoDone, InfoClosed
<1>3. QED
  BY <1>1, <1>2

\* Every step keeps what a request's progress says of it.
LEMMA NextRequestLife == IndInv /\ [Next]_vars => RequestLife'
<1> SUFFICES ASSUME IndInv, [Next]_vars PROVE RequestLife'
  OBVIOUS
<1>1. ASSUME NEW r \in Requests, RequestStep(r) PROVE RequestLife'
  BY <1>1, RequestStepConn
  DEF IndInv, TypeOK, RequestLife, CurrentClientOpen, connVars, RequestStep,
      Reject, RunQuery, RunPlain, Register, Acquire, Finish, Abort, FailClosed,
      AddHistory, Deregister, Respond, ClientGone
<1>2. ASSUME NEW t \in Tabs, CancelQuery(t) PROVE RequestLife'
  BY <1>2 DEF CancelQuery, IndInv, RequestLife, connVars
<1>3. CASE (\E o \in Ops : OpStep(o)) \/ Disconnect
  BY <1>3, ConnStepKeeps DEF IndInv, RequestLife, reqVars
<1>4. CASE UNCHANGED vars
  BY <1>4 DEF vars, IndInv, RequestLife
<1>5. QED
  BY <1>1, <1>2, <1>3, <1>4 DEF Next

(***************************************************************************)
(* The map of cancel functions.                                            *)
(***************************************************************************)
RegistryInv == RegistryLive /\ LostOnlyAfterCancel

\* The first critical section of RunQuery (query.go:18-23).
LEMMA RegisterRegistry ==
  ASSUME IndInv, NEW r \in Requests, Register(r)
  PROVE  RegistryInv'
<1> USE DEF IndInv, TypeOK, ReqStates
<1>1. /\ pc[r] = "captured" /\ tabOf[r] \in Tabs /\ tabOf' = tabOf
      /\ pc' = [pc EXCEPT ![r] = "waiting"]
      /\ cancelled' = [q \in Requests |-> cancelled[q] \/ q = running[tabOf[r]]]
      /\ running' = [running EXCEPT ![tabOf[r]] = r]
  BY DEF Register, RequestLife
<1>2. RegistryLive'
  BY <1>1 DEF RegistryLive, Registered
<1>3. LostOnlyAfterCancel'
  <2> SUFFICES ASSUME NEW q \in Requests,
                      Registered(q)', ~cancelled'[q], running'[tabOf[q]] # q
               PROVE  \E w \in Requests : /\ tabOf[w] = tabOf[q]
                                          /\ cancelled'[w] /\ pc'[w] = "done"
    BY <1>1 DEF LostOnlyAfterCancel
  <2>1. Registered(q) /\ ~cancelled[q] /\ running[tabOf[q]] # q
    BY <1>1 DEF Registered
  <2>2. PICK w \in Requests : tabOf[w] = tabOf[q] /\ cancelled[w] /\ pc[w] = "done"
    BY <2>1 DEF LostOnlyAfterCancel
  <2>3. QED
    BY <1>1, <2>2
<1>4. QED
  BY <1>2, <1>3 DEF RegistryInv

\* The deferred delete (query.go:25-30).  A query that it makes unreachable had
\* superseded the one that ends, which is therefore cancelled, or the one that
\* ends was itself unreachable, and the cancelled query that made it so is still
\* there to be named.
LEMMA DeregisterRegistry ==
  ASSUME IndInv, NEW r \in Requests, Deregister(r)
  PROVE  RegistryInv'
<1> USE DEF IndInv, TypeOK, ReqStates
<1>1. /\ pc[r] = "recorded" /\ tabOf[r] \in Tabs /\ tabOf' = tabOf
      /\ pc' = [pc EXCEPT ![r] = "done"] /\ cancelled' = cancelled
      /\ running' = [running EXCEPT ![tabOf[r]] = NoRequest]
  BY DEF Deregister, RequestLife
<1>2. RegistryLive'
  BY <1>1 DEF RegistryLive, Registered
<1>3. LostOnlyAfterCancel'
  <2> SUFFICES ASSUME NEW q \in Requests,
                      Registered(q)', ~cancelled[q], running'[tabOf[q]] # q
               PROVE  \E w \in Requests : /\ tabOf[w] = tabOf[q]
                                          /\ cancelled[w] /\ pc'[w] = "done"
    BY <1>1 DEF LostOnlyAfterCancel
  <2>1. q # r /\ Registered(q) /\ Registered(r)
    BY <1>1 DEF Registered
  <2>2. CASE running[tabOf[q]] # q
    <3>1. PICK w \in Requests : tabOf[w] = tabOf[q] /\ cancelled[w] /\ pc[w] = "done"
      BY <2>1, <2>2 DEF LostOnlyAfterCancel
    <3>2. QED
      BY <1>1, <3>1
  <2>3. CASE running[tabOf[q]] = q
    <3>1. tabOf[q] = tabOf[r] /\ running[tabOf[r]] # r
      BY <1>1, <2>1, <2>3 DEF Registered
    <3>2. CASE cancelled[r]
      BY <1>1, <3>1, <3>2
    <3>3. CASE ~cancelled[r]
      <4>1. PICK w \in Requests : tabOf[w] = tabOf[r] /\ cancelled[w] /\ pc[w] = "done"
        BY <2>1, <3>1, <3>3 DEF LostOnlyAfterCancel
      <4>2. QED
        BY <1>1, <3>1, <4>1
    <3>4. QED
      BY <3>2, <3>3
  <2>4. QED
    BY <2>2, <2>3
<1>4. QED
  BY <1>2, <1>3 DEF RegistryInv

\* A step between the two critical sections, or of a plain request: the map is
\* as it was, nobody is un-cancelled, and nobody enters or leaves the stretch
\* in which a query is registered.
LEMMA OtherRegistry ==
  ASSUME IndInv, running' = running,
         \A q \in Requests : /\ cancelled[q] => cancelled'[q]
                             /\ Registered(q)' <=> Registered(q)
                             /\ Registered(q) => tabOf'[q] = tabOf[q]
                             /\ pc[q] = "done" => pc'[q] = "done" /\ tabOf'[q] = tabOf[q]
  PROVE  RegistryInv'
<1>1. RegistryLive'
  BY DEF IndInv, TypeOK, RegistryLive
<1>2. LostOnlyAfterCancel'
  <2> SUFFICES ASSUME NEW q \in Requests,
                      Registered(q)', ~cancelled'[q], running'[tabOf'[q]] # q
               PROVE  \E w \in Requests : /\ tabOf'[w] = tabOf'[q]
                                          /\ cancelled'[w] /\ pc'[w] = "done"
    BY DEF LostOnlyAfterCancel
  <2>1. Registered(q) /\ ~cancelled[q] /\ running[tabOf[q]] # q /\ tabOf'[q] = tabOf[q]
    OBVIOUS
  <2>2. PICK w \in Requests : tabOf[w] = tabOf[q] /\ cancelled[w] /\ pc[w] = "done"
    BY <2>1 DEF IndInv, LostOnlyAfterCancel
  <2>3. QED
    BY <2>1, <2>2
<1>3. QED
  BY <1>1, <1>2 DEF RegistryInv

\* Every step keeps the registry's invariant.
LEMMA NextRegistry == IndInv /\ [Next]_vars => RegistryInv'
<1> SUFFICES ASSUME IndInv, [Next]_vars PROVE RegistryInv'
  OBVIOUS
<1>1. ASSUME NEW r \in Requests, RequestStep(r) PROVE RegistryInv'
  <2>1. CASE Register(r)
    BY <2>1, RegisterRegistry
  <2>2. CASE Deregister(r)
    BY <2>2, DeregisterRegistry
  <2>3. CASE ~Register(r) /\ ~Deregister(r)
    BY <1>1, <2>3, OtherRegistry
    DEF IndInv, TypeOK, RequestLife, Registered, RequestStep, Reject, RunQuery,
        RunPlain, Acquire, Finish, Abort, FailClosed, AddHistory, Respond, ClientGone
  <2>4. QED
    BY <2>1, <2>2, <2>3
<1>2. ASSUME NEW t \in Tabs, CancelQuery(t) PROVE RegistryInv'
  BY <1>2, OtherRegistry DEF CancelQuery, Registered
<1>3. CASE (\E o \in Ops : OpStep(o)) \/ Disconnect
  BY <1>3, ConnStepKeeps, OtherRegistry DEF Registered, reqVars
<1>4. CASE UNCHANGED vars
  BY <1>4, OtherRegistry DEF vars, Registered
<1>5. QED
  BY <1>1, <1>2, <1>3, <1>4 DEF Next

(***************************************************************************)
(* The history.                                                            *)
(***************************************************************************)
\* Every entry is about a request that has been recorded.
LEMMA EntriesRecorded ==
  ASSUME IndInv, NEW i \in DOMAIN history
  PROVE  /\ history[i].request \in Requests
         /\ pc[history[i].request] \in {"recorded", "done"}
<1>1. history \in Seq(HistoryEntry)
  BY DEF IndInv, TypeOK
<1>2. DOMAIN history = 1 .. Len(history)
  BY <1>1, LenProperties
<1>3. history[i] \in HistoryEntry
  BY <1>1, <1>2, ElementOfSeq
<1>4. QED
  BY <1>3 DEF HistoryEntry, IndInv, HistoryFaithful

\* A step that writes no history entry, and changes neither the values a
\* recorded request carries nor the databases of opened clients.
LEMMA OtherHistory ==
  ASSUME IndInv, history' = history,
         \A r \in Requests : pc[r] \in {"recorded", "done"} =>
           /\ pc'[r] \in {"recorded", "done"}
           /\ tabOf'[r] = tabOf[r] /\ outcome'[r] = outcome[r] /\ cl'[r] = cl[r],
         \A c \in Clients : clientState[c] # "unopened" => dbOf'[c] = dbOf[c]
  PROVE  HistoryFaithful'
<1>1. ASSUME NEW i \in DOMAIN history
      PROVE  /\ tabOf'[history[i].request] \in Tabs
             /\ pc'[history[i].request] \in {"recorded", "done"}
             /\ history[i].outcome = outcome'[history[i].request]
             /\ history[i].database = dbOf'[cl'[history[i].request]]
  <2>1. PICK r \in Requests : r = history[i].request /\ pc[r] \in {"recorded", "done"}
    BY EntriesRecorded
  <2>2. /\ tabOf[r] \in Tabs /\ history[i].outcome = outcome[r]
        /\ history[i].database = dbOf[cl[r]]
    BY <2>1 DEF IndInv, HistoryFaithful
  <2>3. cl[r] \in Clients /\ clientState[cl[r]] # "unopened"
    BY <2>1 DEF IndInv, RequestLife
  <2>4. QED
    BY <2>1, <2>2, <2>3
<1>2. QED
  BY <1>1 DEF IndInv, HistoryFaithful

\* AddHistoryEntry (query.go:34-47): the entry is true, and it is the request's
\* first, because every recorded request has left the state "returned".
LEMMA AddHistoryFaithful ==
  ASSUME IndInv, NEW r \in Requests, AddHistory(r)
  PROVE  HistoryFaithful'
<1> DEFINE entry == [request |-> r, database |-> dbOf[cl[r]], outcome |-> outcome[r]]
<1>1. history \in Seq(HistoryEntry)
  BY DEF IndInv, TypeOK
<1>2. /\ pc \in [Requests -> ReqStates] /\ pc[r] = "returned" /\ tabOf[r] \in Tabs
      /\ pc' = [pc EXCEPT ![r] = "recorded"]
      /\ UNCHANGED <<tabOf, cl, outcome, dbOf>>
  BY DEF AddHistory, IndInv, TypeOK, connVars
<1>3. \A i \in DOMAIN history : /\ history[i].request \in Requests
                               /\ history[i].request # r
  BY <1>2, EntriesRecorded
<1>4. CASE history' = history
  BY <1>2, <1>4, OtherHistory DEF IndInv, TypeOK
<1>5. CASE history' = Append(history, entry)
  <2>1. entry \in HistoryEntry
    BY <1>2 DEF HistoryEntry, IndInv, TypeOK, RequestLife, ClientLife
  <2>2. /\ Len(history') = Len(history) + 1
        /\ \A i \in 1 .. Len(history) : history'[i] = history[i]
        /\ history'[Len(history) + 1] = entry
        /\ history' \in Seq(HistoryEntry)
    <3> HIDE DEF entry
    <3> QED
      BY <1>1, <1>5, <2>1, AppendProperties
  <2>3. /\ DOMAIN history = 1 .. Len(history) /\ Len(history) \in Nat
        /\ DOMAIN history' = DOMAIN history \cup {Len(history) + 1}
        /\ Len(history) + 1 \notin DOMAIN history
    BY <1>1, <2>2, LenProperties
  <2>4. ASSUME NEW i \in DOMAIN history'
        PROVE  /\ tabOf[history'[i].request] \in Tabs
               /\ pc'[history'[i].request] \in {"recorded", "done"}
               /\ history'[i].outcome = outcome[history'[i].request]
               /\ history'[i].database = dbOf[cl[history'[i].request]]
    <3>1. CASE i \in DOMAIN history
      BY <1>2, <1>3, <2>2, <2>3, <3>1 DEF IndInv, HistoryFaithful
    <3>2. CASE i = Len(history) + 1
      BY <1>2, <2>2, <3>2
    <3>3. QED
      BY <2>3, <3>1, <3>2
  <2>5. ASSUME NEW i \in DOMAIN history', NEW j \in DOMAIN history',
               history'[i].request = history'[j].request
        PROVE  i = j
    <3>1. CASE i \in DOMAIN history /\ j \in DOMAIN history
      BY <2>2, <2>3, <2>5, <3>1 DEF IndInv, HistoryFaithful
    <3>2. CASE i \notin DOMAIN history \/ j \notin DOMAIN history
      <4>1. entry.request = r
        OBVIOUS
      <4>2. QED
        BY <1>3, <2>2, <2>3, <2>5, <3>2, <4>1
    <3>3. QED
      BY <3>1, <3>2
  <2>6. QED
    BY <1>2, <2>4, <2>5 DEF HistoryFaithful
<1>6. QED
  BY <1>4, <1>5 DEF AddHistory

\* Every step keeps the history faithful.
LEMMA NextHistory == IndInv /\ [Next]_vars => HistoryFaithful'
<1> SUFFICES ASSUME IndInv, [Next]_vars PROVE HistoryFaithful'
  OBVIOUS
<1>1. ASSUME NEW r \in Requests, RequestStep(r) PROVE HistoryFaithful'
  <2>1. UNCHANGED connVars
    BY <1>1, RequestStepConn
  <2>2. CASE AddHistory(r)
    BY <2>2, AddHistoryFaithful
  <2>3. CASE ~AddHistory(r)
    BY <1>1, <2>1, <2>3, OtherHistory
    DEF IndInv, TypeOK, RequestStep, Reject, RunQuery, RunPlain, Register, Acquire,
        Finish, Abort, FailClosed, Deregister, Respond, ClientGone, connVars
  <2>4. QED
    BY <2>2, <2>3
<1>2. ASSUME NEW t \in Tabs, CancelQuery(t) PROVE HistoryFaithful'
  BY <1>2, OtherHistory DEF CancelQuery, connVars
<1>3. CASE (\E o \in Ops : OpStep(o)) \/ Disconnect
  BY <1>3, ConnStepKeeps, OtherHistory DEF reqVars
<1>4. CASE UNCHANGED vars
  BY <1>4, OtherHistory DEF vars
<1>5. QED
  BY <1>1, <1>2, <1>3, <1>4 DEF Next

(***************************************************************************)
(* The theorems.                                                           *)
(***************************************************************************)
\* The initial states, connected by main.go or not, satisfy the invariant.
LEMMA InitIndInv == Init => IndInv
<1> SUFFICES ASSUME Init PROVE IndInv
  OBVIOUS
<1> USE DEF Init, Clients
<1>1. TypeOK
  BY EmptySeq DEF TypeOK, OpStates, ReqStates, InFlight
<1>2. ClientLife /\ CurrentClientOpen /\ NoLeakedClient
  BY DEF ClientLife, CurrentClientOpen, NoLeakedClient
<1>3. RequestLife
  BY DEF RequestLife
<1>4. RegistryLive /\ LostOnlyAfterCancel
  BY DEF RegistryLive, LostOnlyAfterCancel, Registered
<1>5. HistoryFaithful
  BY DEF HistoryFaithful
<1>6. QED
  BY <1>1, <1>2, <1>3, <1>4, <1>5 DEF IndInv

\* The invariant is inductive.
THEOREM Invariance == Spec => []IndInv
<1>1. IndInv /\ [Next]_vars => IndInv'
  BY NextType, NextClients, NextRequestLife, NextRegistry, NextHistory
  DEF IndInv, ClientsInv, RegistryInv
<1>2. QED
  BY InitIndInv, <1>1, PTL DEF Spec

\* Types hold, and no handler dereferences a nil or unopened client.
THEOREM TypeCorrect == Spec => []TypeOK
<1>1. IndInv => TypeOK
  BY DEF IndInv
<1>2. QED
  BY Invariance, <1>1, PTL

\* However connects, switches and disconnects interleave, the current client is
\* open and every open client is the current one or about to become it.
THEOREM ClientsSafe == Spec => [](CurrentClientOpen /\ NoLeakedClient)
<1>1. IndInv => CurrentClientOpen /\ NoLeakedClient
  BY DEF IndInv
<1>2. QED
  BY Invariance, <1>1, PTL

\* The pool behind a client is never leaked: a client that is replaced is closed,
\* and a client that is dialled and not yet installed is still its handler's.
THEOREM NoLeak == Spec => []NoLeakedClient
<1>1. IndInv => NoLeakedClient
  BY DEF IndInv
<1>2. QED
  BY Invariance, <1>1, PTL

\* The map of cancel functions holds live queries of its own tabs only.
THEOREM RegistrySafe == Spec => []RegistryLive
<1>1. IndInv => RegistryLive
  BY DEF IndInv
<1>2. QED
  BY Invariance, <1>1, PTL

\* A query drops out of the map only where a cancelled one has ended.
THEOREM LostQueriesExplained == Spec => []LostOnlyAfterCancel
<1>1. IndInv => LostOnlyAfterCancel
  BY DEF IndInv
<1>2. QED
  BY Invariance, <1>1, PTL

\* The history tells what ran, where, and with which outcome, at most once.
THEOREM HistoryTrue == Spec => []HistoryFaithful
<1>1. IndInv => HistoryFaithful
  BY DEF IndInv
<1>2. QED
  BY Invariance, <1>1, PTL
(***************************************************************************)
(* QueryService implements QueryContract: the handlers' initial states map *)
(* to initial states of the contract and each of their steps to a step of  *)
(* it or to none.                                                          *)
(***************************************************************************)
\* The contract's view of the service.
StatusNow == [r \in Requests |-> StatusOf(r)]
OnDbNow == [r \in Requests |-> DatabaseOf(cl[r])]
CurrentNow == DatabaseOf(client)

\* A client that was opened keeps its database.
LEMMA OpKeepsDatabases ==
  ASSUME IndInv, NEW o \in Ops, OpStep(o), NEW c \in Clients, clientState[c] # "unopened"
  PROVE  dbOf'[c] = dbOf[c]
BY DEF IndInv, TypeOK, ClientLife, OpStep, Connect, SwitchDatabase, RejectSwitch, Dial,
       DialFails, Swap, AskInfo, InfoDone, InfoClosed, Clients

\* A connect, a switch or a disconnect is at most a change of the current
\* database (connection.go:5-42): what is in flight stays where it was accepted.
LEMMA OpStepMaps ==
  ASSUME IndInv, (\E o \in Ops : OpStep(o)) \/ Disconnect
  PROVE  [Contract!Next]_(Contract!vars)
<1>1. UNCHANGED reqVars /\ history' = history
  BY ConnStepKeeps DEF OpStep, Connect, SwitchDatabase, RejectSwitch, Dial,
     DialFails, Swap, AskInfo, InfoDone, InfoClosed, Disconnect
<1>2. StatusNow' = StatusNow
  BY <1>1 DEF StatusNow, StatusOf, reqVars
<1>3. \A c \in Clients : clientState[c] # "unopened" => dbOf'[c] = dbOf[c]
  BY OpKeepsDatabases DEF Disconnect
<1>4. OnDbNow' = OnDbNow
  <2>1. \A r \in Requests : cl[r] = NoClient
                            \/ (cl[r] \in Clients /\ clientState[cl[r]] # "unopened")
    BY DEF IndInv, TypeOK, RequestLife, ReqStates
  <2>2. QED
    BY <1>1, <1>3, <2>1, ClientsDistinct DEF OnDbNow, DatabaseOf, reqVars, Clients
<1>5. CurrentNow' \in Databases \cup {NoDatabase}
  <2>1. ClientsInv' /\ client' \in Clients \cup {NoClient}
    BY NextClients, NextType DEF Next, TypeOK
  <2>2. QED
    BY <2>1, ClientsDistinct DEF CurrentNow, DatabaseOf, ClientsInv, CurrentClientOpen, ClientLife
<1>6. Contract!Become(CurrentNow')
  BY <1>1, <1>2, <1>4 DEF Contract!Become, StatusNow, OnDbNow, CurrentNow
<1>7. QED
  BY <1>5, <1>6 DEF Contract!Next

\* A request that keeps its status, its client and the log is invisible.
LEMMA InvisibleStep ==
  ASSUME NEW r \in Requests, IndInv, UNCHANGED connVars, history' = history,
         cl' = cl, \A q \in Requests : StatusOf(q)' = StatusOf(q)
  PROVE  UNCHANGED Contract!vars
<1>1. StatusNow' = StatusNow
  BY DEF StatusNow
<1>2. OnDbNow' = OnDbNow
  BY DEF OnDbNow, DatabaseOf, connVars
<1>3. CurrentNow' = CurrentNow
  BY DEF CurrentNow, DatabaseOf, connVars
<1>4. QED
  BY <1>1, <1>2, <1>3 DEF Contract!vars, StatusNow, OnDbNow, CurrentNow

\* A request's way from new to its history entry (query.go:10-48), step by step.
LEMMA RequestStepMaps ==
  ASSUME IndInv, NEW r \in Requests, RequestStep(r)
  PROVE  [Contract!Next]_(Contract!vars)
<1>1. UNCHANGED connVars
  BY RequestStepConn
<1>2. CurrentNow' = CurrentNow
  BY <1>1 DEF CurrentNow, DatabaseOf, connVars
<1>3. pc \in [Requests -> ReqStates] /\ cl \in [Requests -> Clients \cup {NoClient}]
      /\ outcome \in [Requests -> {"none", "ok", "error"}]
  BY DEF IndInv, TypeOK
<1>4. client # NoClient => CurrentNow \in Databases /\ CurrentNow # NoDatabase
  BY SentinelsDistinct DEF IndInv, TypeOK, ClientLife, CurrentClientOpen, CurrentNow, DatabaseOf
<1>5. client = NoClient => CurrentNow = NoDatabase
  BY DEF CurrentNow, DatabaseOf
<1>6. CASE Reject(r)
  <2>1. StatusNow[r] = "new" /\ StatusNow' = [StatusNow EXCEPT ![r] = "refused"]
    BY <1>3, <1>6 DEF Reject, StatusNow, StatusOf
  <2>2. OnDbNow' = OnDbNow
    BY <1>1, <1>6 DEF Reject, OnDbNow, DatabaseOf, connVars
  <2>3. Contract!Refuse(r)
    BY <1>2, <1>5, <1>6, <2>1, <2>2
    DEF Reject, Contract!Refuse, StatusNow, OnDbNow, CurrentNow
  <2>4. QED
    BY <2>3 DEF Contract!Next
<1>7. CASE RunPlain(r) \/ \E t \in Tabs : RunQuery(r, t)
  <2>1. StatusNow[r] = "new" /\ StatusNow' = [StatusNow EXCEPT ![r] = "accepted"]
    BY <1>3, <1>7 DEF RunPlain, RunQuery, StatusNow, StatusOf
  <2>2. OnDbNow' = [OnDbNow EXCEPT ![r] = CurrentNow]
    BY <1>1, <1>3, <1>7 DEF RunPlain, RunQuery, OnDbNow, CurrentNow, DatabaseOf, connVars
  <2>3. client # NoClient /\ history' = history
    BY <1>7 DEF RunPlain, RunQuery
  <2>4. Contract!Accept(r)
    BY <1>2, <1>4, <2>1, <2>2, <2>3 DEF Contract!Accept, StatusNow, OnDbNow, CurrentNow
  <2>5. QED
    BY <2>4 DEF Contract!Next
<1>8. CASE Register(r) \/ Acquire(r) \/ Deregister(r) \/ Respond(r) \/ ClientGone(r)
  <2>1. history' = history /\ cl' = cl /\ outcome' = outcome
    BY <1>8 DEF Register, Acquire, Deregister, Respond, ClientGone
  <2>2. \A q \in Requests : StatusOf(q)' = StatusOf(q)
    BY <1>3, <1>8 DEF Register, Acquire, Deregister, Respond, ClientGone, StatusOf
  <2>3. QED
    BY <1>1, <2>1, <2>2, InvisibleStep
<1>9. CASE Finish(r) \/ Abort(r) \/ FailClosed(r)
  <2>1. history' = history /\ cl' = cl /\ outcome'[r] \in {"ok", "error"}
        /\ outcome' = [outcome EXCEPT ![r] = outcome'[r]]
    BY <1>3, <1>9 DEF Finish, Abort, FailClosed
  <2>2. StatusNow[r] = "accepted" /\ StatusNow' = [StatusNow EXCEPT ![r] = outcome'[r]]
    <3>1. pc[r] \in {"waiting", "executing"} /\ pc' = [pc EXCEPT ![r] = "returned"]
      BY <1>9 DEF Finish, Abort, FailClosed
    <3>2. StatusOf(r) = "accepted" /\ StatusOf(r)' = outcome'[r]
      BY <1>3, <3>1 DEF StatusOf
    <3>3. \A q \in Requests \ {r} : StatusOf(q)' = StatusOf(q)
      BY <1>3, <2>1, <3>1 DEF StatusOf
    <3>4. QED
      BY <3>2, <3>3 DEF StatusNow
  <2>3. OnDbNow' = OnDbNow
    BY <1>1, <2>1 DEF OnDbNow, DatabaseOf, connVars
  <2>4. Contract!AnswerIt(r)
    BY <1>2, <2>1, <2>2, <2>3
    DEF Contract!AnswerIt, Contract!Answers, StatusNow, OnDbNow, CurrentNow
  <2>5. QED
    BY <2>4 DEF Contract!Next
<1>10. CASE AddHistory(r)
  <2>1. cl' = cl /\ outcome' = outcome
    BY <1>10 DEF AddHistory
  <2>2. \A q \in Requests : StatusOf(q)' = StatusOf(q)
    BY <1>3, <1>10 DEF AddHistory, StatusOf
  <2>3. CASE history' = history
    BY <1>1, <2>1, <2>2, <2>3, InvisibleStep
  <2>4. CASE history' # history
    <3>1. StatusNow' = StatusNow /\ OnDbNow' = OnDbNow
      BY <1>1, <2>1, <2>2 DEF StatusNow, OnDbNow, DatabaseOf, connVars
    <3>2. StatusNow[r] = outcome[r] /\ outcome[r] \in {"ok", "error"}
      BY <1>3, <1>10 DEF AddHistory, StatusNow, StatusOf, IndInv, RequestLife
    <3>3. \A i \in DOMAIN history : history[i].request # r
      BY <1>10 DEF AddHistory, IndInv, HistoryFaithful
    <3>4. OnDbNow[r] = dbOf[cl[r]]
      BY <1>10, ClientsDistinct DEF AddHistory, OnDbNow, DatabaseOf, IndInv, RequestLife, Clients
    <3>5. history' = Append(history, [request |-> r, database |-> OnDbNow[r],
                                      outcome |-> StatusNow[r]])
      BY <1>10, <2>4, <3>2, <3>4 DEF AddHistory
    <3>6. Contract!LogIt(r)
      BY <1>2, <3>1, <3>2, <3>3, <3>5
      DEF Contract!LogIt, Contract!Answers, StatusNow, OnDbNow, CurrentNow
    <3>7. QED
      BY <3>6 DEF Contract!Next
  <2>5. QED
    BY <2>3, <2>4
<1>11. QED
  BY <1>6, <1>7, <1>8, <1>9, <1>10 DEF RequestStep

\* main.go's two ways to start are two initial states of the contract.
LEMMA InitMaps == Init => Contract!Init
<1> SUFFICES ASSUME Init PROVE Contract!Init
  OBVIOUS
<1>1. CurrentNow \in Databases \cup {NoDatabase}
  BY DEF Init, CurrentNow, DatabaseOf, Clients
<1>2. StatusNow = [r \in Requests |-> "new"] /\ OnDbNow = [r \in Requests |-> NoDatabase]
  BY DEF Init, StatusNow, StatusOf, OnDbNow, DatabaseOf
<1>3. QED
  BY <1>1, <1>2 DEF Init, Contract!Init, StatusNow, OnDbNow, CurrentNow

\* The service keeps the contract: a request is for the database of the moment
\* it was accepted in, whatever connects and switches do meanwhile, and enters
\* the history at most once, with that database and its own outcome.
THEOREM ContractKept == Spec => ImplementsContract
<1>1. IndInv /\ [Next]_vars => [Contract!Next]_(Contract!vars)
  <2> SUFFICES ASSUME IndInv, [Next]_vars PROVE [Contract!Next]_(Contract!vars)
    OBVIOUS
  <2>1. CASE UNCHANGED vars
    BY <2>1 DEF vars, Contract!vars, StatusOf, DatabaseOf
  <2>2. ASSUME NEW t \in Tabs, CancelQuery(t) PROVE UNCHANGED Contract!vars
    BY <2>2 DEF CancelQuery, connVars, Contract!vars, StatusOf, DatabaseOf
  <2>3. QED
    BY <2>1, <2>2, RequestStepMaps, OpStepMaps DEF Next
<1>2. QED
  BY Invariance, InitMaps, <1>1, PTL DEF Spec, ImplementsContract, Contract!Spec
=============================================================================
