---------------------------- MODULE SavedQueries ----------------------------
(***************************************************************************)
(* The bucket saved_queries of the repository, pkg/repository              *)
(* saved_queries.go, between its two writers: the handlers of              *)
(* /api/queries, and the import of the shared files .pglet/queries/*.sql,  *)
(* shared_files.go, which main.go runs before the server listens.          *)
(*                                                                         *)
(* Each write is one bolt transaction, atomic and durable; the import is   *)
(* one transaction per file, so a crash or an error can stop it between    *)
(* two files.  The process may end at any point and be started again, and  *)
(* the files belong to the team: they change whenever somebody pulls.      *)
(***************************************************************************)
EXTENDS Naturals, FiniteSets

CONSTANTS
  MaxId,       \* bound: ids that newID draws, compared as bolt keys are
  MaxFile,     \* bound: names in the directory, in the order of os.ReadDir
  Titles,      \* titles of queries
  Bodies,      \* SQL, description and tags, which are always written together
  Databases,   \* names of databases
  Contents,    \* bound: pairs of a body and a database that are written together
  Everywhere,  \* database "", written "*" in a file: shown for every database
  NoQuery,     \* no value under this key
  NoFile,      \* no such file
  OtherFile    \* a directory, no .sql, no marker, no title or no SQL: skipped

ASSUME MaximaNat == MaxId \in Nat /\ MaxFile \in Nat
ASSUME EverywhereDistinct == Everywhere \notin Databases

Ids    == 1 .. MaxId
Names  == 1 .. MaxFile
Scopes == Databases \cup {Everywhere}

\* CreatedAt and UpdatedAt are left out: they only order lists.
SavedQuery == [title : Titles, body : Bodies, database : Scopes, shared : BOOLEAN]
SharedFile == {f \in [title : Titles, body : Bodies, database : Scopes] :
                 <<f.body, f.database>> \in Contents}

ASSUME SentinelsDistinct == /\ NoQuery \notin SavedQuery
                            /\ NoFile # OtherFile
                            /\ {NoFile, OtherFile} \cap SharedFile = {}

VARIABLES
  queries,   \* the bucket saved_queries
  used,      \* ids drawn so far; a random id is never drawn twice
  retitled,  \* ids whose title an update has changed
  files,     \* the directory .pglet/queries
  proc,      \* the server process: down, importing, serving
  toImport,  \* names that os.ReadDir returned and the loop has not reached
  clean      \* nothing but a successful import has happened since the start

vars == <<queries, used, retitled, files, proc, toImport, clean>>

Stored == {id \in Ids : queries[id] # NoQuery}

\* The largest of a non-empty set of keys, the smallest of a set of names.
LastKey(S)   == CHOOSE id \in S : \A j \in S : j <= id
FirstName(S) == CHOOSE n \in S : \A m \in S : n <= m

(***************************************************************************)
(* Faulty variants: one plausible slip each, not part of the specification.*)
(***************************************************************************)
\* The title alone decides which query a file is.
MatchesByTitle(f) == {id \in Stored : queries[id].title = f.title}

\* Every import inserts.
MatchesNever(f) == {}

\* Only the text of a query that is there already is overwritten.
TextOverwritten(q, f) == [q EXCEPT !.body = f.body]

\* A file that is not a query ends the loop.
SkipFileEndsLoop(n) ==
  /\ proc = "importing" /\ toImport # {} /\ n = FirstName(toImport)
  /\ files[n] \in {NoFile, OtherFile}
  /\ toImport' = {}
  /\ UNCHANGED <<queries, used, retitled, files, proc, clean>>

(***************************************************************************)
(* Initial state: an empty repository, any directory.                      *)
(***************************************************************************)
Init ==
  /\ queries = [id \in Ids |-> NoQuery]
  /\ used = {} /\ retitled = {}
  /\ files \in [Names -> {NoFile, OtherFile} \cup SharedFile]
  /\ proc = "down" /\ toImport = {} /\ clean = FALSE

(***************************************************************************)
(* The process.                                                            *)
(***************************************************************************)
\* main: the repository is opened and ImportSharedQueries lists the directory.
Start ==
  /\ proc = "down"
  /\ proc' = "importing"
  /\ toImport' = {n \in Names : files[n] # NoFile}
  /\ clean' = TRUE
  /\ UNCHANGED <<queries, used, retitled, files>>

\* A stop, a kill, a crash.
Stop ==
  /\ proc # "down"
  /\ proc' = "down" /\ toImport' = {} /\ clean' = FALSE
  /\ UNCHANGED <<queries, used, retitled, files>>

\* The queries that UpsertSharedQuery takes for the one in the file.
Matches(f) == {id \in Stored : queries[id].shared /\ queries[id].title = f.title}

\* What the file leaves of a query that is there already.
Overwritten(q, f) == [q EXCEPT !.body = f.body, !.database = f.database]

\* UpsertSharedQuery: the last match in key order is overwritten.
UpsertSharedQuery(n) ==
  LET f == files[n]
      value == [title |-> f.title, body |-> f.body, database |-> f.database, shared |-> TRUE]
  IN
  /\ proc = "importing" /\ toImport # {} /\ n = FirstName(toImport)
  /\ f \in SharedFile
  /\ \/ /\ Matches(f) # {}
        /\ queries' = [queries EXCEPT ![LastKey(Matches(f))] = Overwritten(@, f)]
        /\ UNCHANGED used
     \/ /\ Matches(f) = {}
        /\ \E id \in Ids \ used : /\ queries' = [queries EXCEPT ![id] = value]
                                  /\ used' = used \cup {id}
  /\ toImport' = toImport \ {n}
  /\ UNCHANGED <<retitled, files, proc, clean>>

\* The loop's continue: gone since it was listed, or not a query.
SkipFile(n) ==
  /\ proc = "importing" /\ toImport # {} /\ n = FirstName(toImport)
  /\ files[n] \in {NoFile, OtherFile}
  /\ toImport' = toImport \ {n}
  /\ UNCHANGED <<queries, used, retitled, files, proc, clean>>

\* The loop has ended; the server listens.
ServeAfterImport ==
  /\ proc = "importing" /\ toImport = {}
  /\ proc' = "serving"
  /\ UNCHANGED <<queries, used, retitled, files, toImport, clean>>

\* The directory cannot be read, or a transaction fails: the import returns
\* the error, main logs it and goes on.
ServeAfterError ==
  /\ proc = "importing"
  /\ proc' = "serving" /\ toImport' = {} /\ clean' = FALSE
  /\ UNCHANGED <<queries, used, retitled, files>>

(***************************************************************************)
(* The handlers.  Get and list change nothing.                             *)
(***************************************************************************)
\* POST /api/queries: the input has no field shared.
CreateSavedQuery(q) ==
  /\ proc = "serving"
  /\ \E id \in Ids \ used :
       /\ queries' = [queries EXCEPT ![id] = [title |-> q.title, body |-> q.body,
                                              database |-> q.database, shared |-> FALSE]]
       /\ used' = used \cup {id}
  /\ clean' = FALSE
  /\ UNCHANGED <<retitled, files, proc, toImport>>

\* PUT /api/queries/{id}, from a tab that may have been opened long ago; of a
\* deleted query it fails.
UpdateSavedQuery(id, q) ==
  /\ proc = "serving"
  /\ queries[id] # NoQuery
  /\ queries' = [queries EXCEPT ![id] = [@ EXCEPT !.title = q.title, !.body = q.body,
                                                  !.database = q.database]]
  /\ retitled' = IF queries[id].title = q.title THEN retitled ELSE retitled \cup {id}
  /\ clean' = FALSE
  /\ UNCHANGED <<used, files, proc, toImport>>

\* DELETE /api/queries/{id}
DeleteSavedQuery(id) ==
  /\ proc = "serving"
  /\ queries' = [queries EXCEPT ![id] = NoQuery]
  /\ clean' = FALSE
  /\ UNCHANGED <<used, retitled, files, proc, toImport>>

\* ListSavedQueries for one database.
Listed(d) == {id \in Stored : queries[id].database \in {d, Everywhere}}

\* A pull, a checkout or an editor changes a file.
ChangeFile(n) ==
  /\ files' \in {[files EXCEPT ![n] = f] : f \in {NoFile, OtherFile} \cup SharedFile}
  /\ clean' = FALSE
  /\ UNCHANGED <<queries, used, retitled, proc, toImport>>

Next ==
  \/ Start \/ Stop \/ ServeAfterImport \/ ServeAfterError
  \/ \E n \in Names : UpsertSharedQuery(n) \/ SkipFile(n) \/ ChangeFile(n)
  \/ \E q \in SharedFile : CreateSavedQuery(q)
  \/ \E id \in used, q \in SharedFile : UpdateSavedQuery(id, q)
  \/ \E id \in used : DeleteSavedQuery(id)

Spec == Init /\ [][Next]_vars

(***************************************************************************)
(* Properties.                                                             *)
(***************************************************************************)
\* Types; nothing is stored under an id that was never drawn.
TypeOK ==
  /\ queries \in [Ids -> SavedQuery \cup {NoQuery}]
  /\ Stored \subseteq used /\ used \subseteq Ids /\ retitled \subseteq used
  /\ files \in [Names -> {NoFile, OtherFile} \cup SharedFile]
  /\ proc \in {"down", "importing", "serving"}
  /\ toImport \subseteq Names /\ (proc # "importing" => toImport = {})
  /\ clean \in BOOLEAN /\ (proc = "down" => ~clean)

\* What the README promises of queries/, "shared query files that are imported
\* on startup" (README.md:157): once an import has run to its end, every query
\* file is there to be listed for its database, with the file's text, whatever
\* was stored before: files that are no queries are passed over, queries that
\* users renamed or duplicated do not get in the way, and of several files with
\* one title the last counts.
FilesImported ==
  proc = "serving" /\ clean =>
    \A n \in Names : files[n] \in SharedFile =>
      \/ \E m \in Names : m > n /\ files[m] \in SharedFile /\ files[m].title = files[n].title
      \/ \A d \in Databases : files[n].database \in {d, Everywhere} =>
           \E id \in Listed(d) : /\ queries[id].shared /\ queries[id].title = files[n].title
                                 /\ queries[id].body = files[n].body

\* Why: names come in order, and each that was reached has left a query with the
\* text of its file, or of a later one of its title.
ImportSoFar ==
  clean => \A n \in Names \ toImport :
    /\ files[n] # NoFile => \A m \in toImport : n < m
    /\ files[n] \in SharedFile =>
         \E m \in Names \ toImport, id \in Ids :
           /\ m >= n /\ files[m] \in SharedFile /\ files[m].title = files[n].title
           /\ queries[id] # NoQuery /\ queries[id].shared
           /\ queries[id].title = files[m].title
           /\ queries[id].body = files[m].body /\ queries[id].database = files[m].database

\* An import is repeatable: however often the process crashes half way and
\* starts again, two shared queries have the same title only if a user gave one
\* of them its title (saved_queries.go:160).
DuplicatesAreRenamed ==
  \A i, j \in Stored :
    /\ i # j /\ queries[i].shared /\ queries[j].shared
    /\ queries[i].title = queries[j].title
    => i \in retitled \/ j \in retitled

\* An import leaves the queries that users saved themselves alone, also those
\* with the title of a file; and a deleted query stays deleted under its id: no
\* late update from a tab that still refers to it (SaveQueryDialog.tsx:24-26)
\* and no import brings it back.
OwnQueriesStay ==
  [][/\ \A id \in Ids : proc = "importing" /\ queries[id] # NoQuery /\ ~queries[id].shared
          => queries'[id] = queries[id]
     /\ \A id \in used : queries[id] = NoQuery => queries'[id] = NoQuery]_vars
=============================================================================
