------------------------------ MODULE MCStored ------------------------------
(***************************************************************************)
(* Instances for TLC of what the repository keeps for the sidebar:         *)
(* SavedQueries, with ids and file names that are ordered, HistoryLog, and *)
(* SavedList.  They share no variables, so that a behaviour is one of one  *)
(* of them, the part, while the others stay as they begin.                 *)
(***************************************************************************)
EXTENDS SavedQueries, HistoryLog, SavedList, TLC

CONSTANTS X, Y, D1  \* texts of queries, and one of the databases

VARIABLE part

\* One text is for one database and the other for all: a query with the text of
\* one file and the database of another is not among them.
MCContents == {<<X, D1>>, <<Y, Everywhere>>}

\* The parts at rest begin in one of their initial states only; which database
\* of the two the list begins with is a matter of names.
StoredInit ==
  /\ part \in {"saved", "history", "list"}
  /\ Init /\ LogInit /\ ListInit
  /\ part # "saved" => files = [n \in Names |-> NoFile]
  /\ part # "list" => \A i \in SavedIds : stored[i] = Unborn
  /\ listDb = CHOOSE d \in ListDbs : TRUE

StoredNext ==
  /\ part' = part
  /\ \/ part = "saved" /\ Next /\ UNCHANGED <<logVars, listVars>>
     \/ part = "history" /\ LogNext /\ UNCHANGED <<vars, listVars>>
     \/ part = "list" /\ ListNext /\ UNCHANGED <<vars, logVars>>

StoredSpec == StoredInit /\ [][StoredNext]_<<part, vars, logVars, listVars>>

\* Titles and runs are interchangeable.
StoredSymmetry == Permutations(Titles) \cup Permutations(LoggedRuns)

\* The types, and what the parts keep beside the properties that the run names
\* one by one: an import that was interrupted has stored what it reached
\* (saved_queries.go:160), the pages of the log tile it, and the list has no row of
\* another database.
StoredInv ==
  /\ TypeOK /\ ImportSoFar
  /\ LogTypeOK /\ PagesTile /\ PagesFollow
  /\ ListTypeOK /\ ListsAgree /\ ListsOfDatabase /\ RowsOfDatabase /\ SteadyKeeps
=============================================================================
