---------------------------- MODULE QueryContract ---------------------------
(***************************************************************************)
(* What the back end promises to whoever sends it SQL, without its         *)
(* clients, pools, contexts and mutexes: pkg/service/query.go and          *)
(* connection.go as the browser sees them.                                 *)
(*                                                                         *)
(* The server is connected to one database or to none, and anybody may     *)
(* change that at any time.  A request is refused, or it is accepted for   *)
(* the database of that moment and answered once; the answer may enter the *)
(* history, once, with the database the request was accepted for.          *)
(* QueryService implements this: see Contract there.                       *)
(***************************************************************************)
EXTENDS Sequences

CONSTANTS
  Requests,    \* requests that run SQL
  Databases,   \* the databases of the PostgreSQL server
  NoDatabase   \* not connected

VARIABLES
  current,  \* the database the server is connected to
  status,   \* per request: new, refused, accepted, or how it was answered
  onDb,     \* per request, the database it was accepted for
  log       \* the history, oldest first

vars == <<current, status, onDb, log>>

Answers == {"ok", "error"}

Init ==
  /\ current \in Databases \cup {NoDatabase}
  /\ status = [r \in Requests |-> "new"]
  /\ onDb = [r \in Requests |-> NoDatabase]
  /\ log = << >>

\* requireClient: ErrNotConnected.
Refuse(r) ==
  /\ status[r] = "new" /\ current = NoDatabase
  /\ status' = [status EXCEPT ![r] = "refused"]
  /\ UNCHANGED <<current, onDb, log>>

\* requireClient: from here on the request belongs to the database of now.
Accept(r) ==
  /\ status[r] = "new" /\ current # NoDatabase
  /\ status' = [status EXCEPT ![r] = "accepted"]
  /\ onDb' = [onDb EXCEPT ![r] = current]
  /\ UNCHANGED <<current, log>>

\* QueryWithContext returns, whatever the reason.
AnswerIt(r) ==
  /\ status[r] = "accepted"
  /\ \E a \in Answers : status' = [status EXCEPT ![r] = a]
  /\ UNCHANGED <<current, onDb, log>>

\* AddHistoryEntry of an answered request that is not in the history yet.
LogIt(r) ==
  /\ status[r] \in Answers
  /\ \A i \in DOMAIN log : log[i].request # r
  /\ log' = Append(log, [request |-> r, database |-> onDb[r], outcome |-> status[r]])
  /\ UNCHANGED <<current, status, onDb>>

\* SwapClient, of a connect or a switch, or with nil.
Become(d) == current' = d /\ UNCHANGED <<status, onDb, log>>

Next ==
  \/ \E r \in Requests : Refuse(r) \/ Accept(r) \/ AnswerIt(r) \/ LogIt(r)
  \/ \E d \in Databases \cup {NoDatabase} : Become(d)

Spec == Init /\ [][Next]_vars
=============================================================================
