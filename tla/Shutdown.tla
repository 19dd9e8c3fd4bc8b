------------------------------ MODULE Shutdown ------------------------------
(***************************************************************************)
(* The life of the server process, main.go, with the handlers that it runs *)
(* and the repository file that it holds, pkg/repository/store.go.         *)
(*                                                                         *)
(* main opens the repository, listens, and returns when ListenAndServe     *)
(* returns; a goroutine of its own waits for SIGINT or SIGTERM and calls   *)
(* srv.Shutdown, which makes ListenAndServe return at once and itself      *)
(* waits up to five seconds for the handlers.  When main returns, its      *)
(* deferred repo.Close runs and the process ends, whatever its other       *)
(* goroutines are doing.  Several processes may be started on one          *)
(* repository: bolt.Open waits for the lock of the file.                   *)
(***************************************************************************)
EXTENDS FiniteSets

CONSTANTS
  Procs,     \* processes started on the same repository
  Requests,  \* HTTP requests that write to the repository
  Nobody     \* the file is not locked, no transaction is open

ASSUME NobodyDistinct == Nobody \notin Procs \cup Requests

VARIABLES
  main,      \* the main goroutine of each process
  signal,    \* the goroutine that waits for a signal
  fileLock,  \* the process that has the repository open
  req,       \* how far each request is
  home,      \* the process that accepted it
  writer,    \* the request whose transaction is open; bolt has one writer
  stored     \* requests whose transaction is committed

vars == <<main, signal, fileLock, req, home, writer, stored>>

Alive(p)   == main[p] \notin {"new", "exited"}
Pending(r) == req[r] \in {"running", "stored", "failed"}

\* What the end of a process does: its lock goes, its open transaction is rolled
\* back, its unanswered requests are dropped.
Exit(p, how) ==
  /\ main' = [main EXCEPT ![p] = "exited"]
  /\ signal' = [signal EXCEPT ![p] = how]
  /\ fileLock' = IF fileLock = p THEN Nobody ELSE fileLock
  /\ writer' = IF writer \in Requests /\ home[writer] = p THEN Nobody ELSE writer
  /\ req' = [r \in Requests |-> IF home[r] = p /\ Pending(r) THEN "dropped" ELSE req[r]]
  /\ UNCHANGED <<home, stored>>

(***************************************************************************)
(* Faulty variants: one plausible slip each, not part of the specification.*)
(***************************************************************************)
\* main waits for the handlers, and without a limit.
ServeReturnsWhenIdle(p) ==
  /\ main[p] = "serving" /\ signal[p] = "shutdown"
  /\ \A r \in Requests : home[r] = p => ~Pending(r)
  /\ main' = [main EXCEPT ![p] = "returned"]
  /\ UNCHANGED <<signal, fileLock, req, home, writer, stored>>

\* The answer is sent while the transaction is still open.
AnswerBeforeCommit(r) ==
  /\ req[r] \in {"stored", "failed"} \/ writer = r
  /\ req' = [req EXCEPT ![r] = IF @ = "failed" THEN "refused" ELSE "answered"]
  /\ UNCHANGED <<main, signal, fileLock, home, writer, stored>>

\* The file is given up before the open transaction has ended.
CloseRepoAtOnce(p) ==
  /\ main[p] = "returned"
  /\ main' = [main EXCEPT ![p] = "closed"]
  /\ fileLock' = Nobody
  /\ UNCHANGED <<signal, req, home, writer, stored>>

(***************************************************************************)
(* main.                                                                   *)
(***************************************************************************)
Init ==
  /\ main = [p \in Procs |-> "new"]
  /\ signal = [p \in Procs |-> "none"]
  /\ fileLock = Nobody /\ writer = Nobody
  /\ req = [r \in Requests |-> "new"]
  /\ home \in {[r \in Requests |-> p] : p \in Procs}
  /\ stored = {}

Start(p) ==
  /\ main[p] = "new"
  /\ main' = [main EXCEPT ![p] = "opening"]
  /\ UNCHANGED <<signal, fileLock, req, home, writer, stored>>

\* repository.Open gets the lock of the file; the import, a possible connection
\* and the start of the listener follow.
OpenRepo(p) ==
  /\ main[p] = "opening" /\ fileLock = Nobody
  /\ fileLock' = p
  /\ main' = [main EXCEPT ![p] = "serving"]
  /\ UNCHANGED <<signal, req, home, writer, stored>>

\* The port is taken or the listener breaks: os.Exit(1), no deferred Close.
ServeFails(p) == main[p] = "serving" /\ signal[p] = "none" /\ Exit(p, "none")

\* SIGINT or SIGTERM once signal.Notify has been called: Shutdown closes the
\* listener.
Signal(p) ==
  /\ main[p] = "serving" /\ signal[p] = "none"
  /\ signal' = [signal EXCEPT ![p] = "shutdown"]
  /\ UNCHANGED <<main, fileLock, req, home, writer, stored>>

\* ListenAndServe returns ErrServerClosed and main goes on to its end.
ServeReturns(p) ==
  /\ main[p] = "serving" /\ signal[p] = "shutdown"
  /\ main' = [main EXCEPT ![p] = "returned"]
  /\ UNCHANGED <<signal, fileLock, req, home, writer, stored>>

\* The deferred repo.Close: it waits for the transaction that is open.
CloseRepo(p) ==
  /\ main[p] = "returned"
  /\ writer = Nobody
  /\ main' = [main EXCEPT ![p] = "closed"]
  /\ fileLock' = Nobody
  /\ UNCHANGED <<signal, req, home, writer, stored>>

\* main has returned.
MainReturns(p) == main[p] = "closed" /\ Exit(p, signal[p])

\* The process is killed; before signal.Notify any signal does that.
Kill(p) == Alive(p) /\ Exit(p, "killed")

(***************************************************************************)
(* Handlers: db.Update, then the answer.                                   *)
(***************************************************************************)
Accept(r, p) ==
  /\ req[r] = "new" /\ main[p] = "serving" /\ signal[p] = "none"
  /\ req' = [req EXCEPT ![r] = "running"]
  /\ home' = [home EXCEPT ![r] = p]
  /\ UNCHANGED <<main, signal, fileLock, writer, stored>>

BeginTx(r) ==
  /\ req[r] = "running" /\ writer = Nobody
  /\ fileLock = home[r]
  /\ writer' = r
  /\ UNCHANGED <<main, signal, fileLock, req, home, stored>>

CommitTx(r) ==
  /\ writer = r
  /\ writer' = Nobody
  /\ stored' = stored \cup {r}
  /\ req' = [req EXCEPT ![r] = "stored"]
  /\ UNCHANGED <<main, signal, fileLock, home>>

\* The repository is already closed: bolt refuses the transaction.
TxRefused(r) ==
  /\ req[r] = "running" /\ main[home[r]] = "closed"
  /\ req' = [req EXCEPT ![r] = "failed"]
  /\ UNCHANGED <<main, signal, fileLock, home, writer, stored>>

Answer(r) ==
  /\ req[r] \in {"stored", "failed"}
  /\ req' = [req EXCEPT ![r] = IF @ = "stored" THEN "answered" ELSE "refused"]
  /\ UNCHANGED <<main, signal, fileLock, home, writer, stored>>

Next ==
  \/ \E p \in Procs : \/ Start(p) \/ OpenRepo(p) \/ ServeFails(p) \/ Signal(p)
                      \/ ServeReturns(p) \/ CloseRepo(p) \/ MainReturns(p) \/ Kill(p)
  \/ \E r \in Requests : \/ \E p \in Procs : Accept(r, p)
                         \/ BeginTx(r) \/ CommitTx(r) \/ TxRefused(r) \/ Answer(r)

Spec == Init /\ [][Next]_vars

\* The main goroutine runs on; a transaction that was begun ends, since it does
\* nothing but write a few pages (a handler may take forever before it); and the
\* lock of bolt's writer is a Go mutex, which lets no waiter starve, hence SF.
Fairness ==
  /\ \A p \in Procs : WF_vars(ServeReturns(p)) /\ SF_vars(CloseRepo(p))
                      /\ WF_vars(MainReturns(p))
  /\ \A r \in Requests : WF_vars(CommitTx(r))

FairSpec == Spec /\ Fairness

(***************************************************************************)
(* Properties.                                                             *)
(***************************************************************************)
\* Types; a process holds the file from opening to closing it.
TypeOK ==
  /\ main \in [Procs -> {"new", "opening", "serving", "returned", "closed", "exited"}]
  /\ signal \in [Procs -> {"none", "shutdown", "killed"}]
  /\ fileLock \in Procs \cup {Nobody} /\ writer \in Requests \cup {Nobody}
  /\ req \in [Requests -> {"new", "running", "stored", "failed", "answered", "refused",
                           "dropped"}]
  /\ home \in [Requests -> Procs] /\ stored \subseteq Requests
  /\ \A p \in Procs : main[p] \in {"serving", "returned"} <=> fileLock = p

\* No write of one process reaches into the time of another: an open transaction
\* belongs to the process that has the file, also while main is closing the
\* repository under handlers that go on (store.go:49, main.go:223).
WriterHasFile == writer \in Requests => fileLock = home[writer]

\* What a client was told is stored stays stored, whenever the process ends, and
\* what it was told failed is not stored.
AnswersAreTrue ==
  \A r \in Requests : /\ req[r] = "answered" => r \in stored
                      /\ req[r] = "refused" => r \notin stored

\* How far a request is tells whether it has its transaction open, and whether
\* it is stored.
RequestLife ==
  \A r \in Requests :
    /\ writer = r => req[r] = "running"
    /\ req[r] \in {"stored", "answered"} => r \in stored
    /\ req[r] \in {"new", "running", "failed", "refused"} => r \notin stored

\* The inductive invariant behind the safety theorems about this module.
IndInv == TypeOK /\ WriterHasFile /\ RequestLife

\* A signal ends the process, even if a handler never ends (main.go:293-305).
SignalStops == \A p \in Procs : (signal[p] = "shutdown") ~> (main[p] = "exited")

\* "Graceful shutdown on SIGINT/SIGTERM" (main.go:293): a request that the server
\* has accepted is answered unless the process is killed.  It does not hold: see
\* run shutdown_graceful.
GracefulShutdown ==
  \A r \in Requests : req[r] = "dropped" => signal[home[r]] # "shutdown"
=============================================================================
