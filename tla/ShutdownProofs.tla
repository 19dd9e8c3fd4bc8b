--------------------------- MODULE ShutdownProofs ---------------------------
(***************************************************************************)
(* Safety of Shutdown for any number of processes on one repository and    *)
(* any number of requests.                                                 *)
(***************************************************************************)
EXTENDS Shutdown, TLAPS

USE NobodyDistinct

\* The initial states satisfy the invariant.
LEMMA InitIndInv == Init => IndInv
BY DEF Init, IndInv, TypeOK, WriterHasFile, RequestLife

\* The end of a process, in whatever way it ends, gives up its lock and its
\* transaction together, so no other process ever meets half of them.
LEMMA ExitInv ==
  ASSUME IndInv, NEW p \in Procs, NEW how \in {"none", "shutdown", "killed"},
         Exit(p, how)
  PROVE  IndInv'
<1> USE DEF IndInv, Exit
<1>1. TypeOK'
  BY DEF TypeOK, Pending
<1>2. WriterHasFile'
  BY DEF TypeOK, WriterHasFile
<1>3. RequestLife'
  <2> SUFFICES ASSUME NEW r \in Requests
               PROVE  /\ writer' = r => req'[r] = "running"
                      /\ req'[r] \in {"stored", "answered"} => r \in stored'
                      /\ req'[r] \in {"new", "running", "failed", "refused"}
                           => r \notin stored'
    BY DEF RequestLife
  <2>1. req'[r] = IF home[r] = p /\ Pending(r) THEN "dropped" ELSE req[r]
    BY DEF TypeOK
  <2>2. writer' = r => writer = r /\ home[r] # p
    BY DEF TypeOK
  <2>3. QED
    BY <2>1, <2>2 DEF RequestLife
<1>4. QED
  BY <1>1, <1>2, <1>3

\* The invariant is inductive.
LEMMA NextIndInv == IndInv /\ [Next]_vars => IndInv'
<1> SUFFICES ASSUME IndInv, [Next]_vars PROVE IndInv'
  OBVIOUS
<1> USE DEF IndInv, TypeOK, WriterHasFile, RequestLife
<1>1. ASSUME NEW p \in Procs, Start(p) PROVE IndInv'
  BY <1>1 DEF Start
<1>2. ASSUME NEW p \in Procs, OpenRepo(p) PROVE IndInv'
  BY <1>2 DEF OpenRepo
<1>3. ASSUME NEW p \in Procs, ServeFails(p) PROVE IndInv'
  BY <1>3, ExitInv DEF ServeFails
<1>4. ASSUME NEW p \in Procs, Signal(p) PROVE IndInv'
  BY <1>4 DEF Signal
<1>5. ASSUME NEW p \in Procs, ServeReturns(p) PROVE IndInv'
  BY <1>5 DEF ServeReturns
<1>6. ASSUME NEW p \in Procs, CloseRepo(p) PROVE IndInv'
  <2>1. fileLock = p
    BY <1>6 DEF CloseRepo
  <2>2. QED
    BY <1>6, <2>1 DEF CloseRepo
<1>7. ASSUME NEW p \in Procs, MainReturns(p) PROVE IndInv'
  <2>1. signal[p] \in {"none", "shutdown", "killed"}
    OBVIOUS
  <2>2. QED
    BY <1>7, <2>1, ExitInv DEF MainReturns
<1>8. ASSUME NEW p \in Procs, Kill(p) PROVE IndInv'
  BY <1>8, ExitInv DEF Kill
<1>9. ASSUME NEW r \in Requests, NEW p \in Procs, Accept(r, p) PROVE IndInv'
  BY <1>9 DEF Accept
<1>10. ASSUME NEW r \in Requests, BeginTx(r) PROVE IndInv'
  BY <1>10 DEF BeginTx
<1>11. ASSUME NEW r \in Requests, CommitTx(r) PROVE IndInv'
  BY <1>11 DEF CommitTx
<1>12. ASSUME NEW r \in Requests, TxRefused(r) PROVE IndInv'
  <2>1. writer # r
    <3>1. home[r] \in Procs /\ main[home[r]] = "closed"
      BY <1>12 DEF TxRefused
    <3>2. fileLock # home[r]
      BY <3>1
    <3>3. QED
      BY <3>2
  <2>2. QED
    BY <1>12, <2>1 DEF TxRefused
<1>13. ASSUME NEW r \in Requests, Answer(r) PROVE IndInv'
  BY <1>13 DEF Answer
<1>14. CASE UNCHANGED vars
  BY <1>14 DEF vars
<1>15. QED
  BY <1>1, <1>2, <1>3, <1>4, <1>5, <1>6, <1>7, <1>8, <1>9, <1>10, <1>11, <1>12,
     <1>13, <1>14 DEF Next

\* What is proved once for all.
THEOREM Invariance == Spec => []IndInv
BY InitIndInv, NextIndInv, PTL DEF Spec

\* No transaction is open that does not belong to the process that has the file.
THEOREM OneWriterProcess == Spec => []WriterHasFile
<1>1. IndInv => WriterHasFile
  BY DEF IndInv
<1>2. QED
  BY Invariance, <1>1, PTL

\* An answer tells what is on the disk, whenever and however processes end.
THEOREM TrueAnswers == Spec => []AnswersAreTrue
<1>1. IndInv => AnswersAreTrue
  BY DEF IndInv, RequestLife, AnswersAreTrue
<1>2. QED
  BY Invariance, <1>1, PTL
=============================================================================
