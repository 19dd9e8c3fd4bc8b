---------------------------- MODULE StoredProofs ----------------------------
(***************************************************************************)
(* Safety of SavedQueries for any number of queries, files, titles and     *)
(* databases, of SavedList for any number of queries and databases and any *)
(* number of calls and switches, and of HistoryLog for any number of runs  *)
(* and any size of a page.                                                 *)
(***************************************************************************)
EXTENDS MCStored, FilterTheorems

(***************************************************************************)
(* SavedQueries.                                                           *)
(***************************************************************************)
BucketInv == TypeOK /\ ImportSoFar /\ DuplicatesAreRenamed

\* The last of the keys.
LEMMA LastKeyIn ==
  ASSUME NEW S, S \subseteq Ids, S # {}
  PROVE  LastKey(S) \in S
<1>1. \E i \in S : \A j \in S : j <= i
  BY GreatestNumber, MaximaNat DEF Ids
<1>2. QED
  BY <1>1 DEF LastKey

\* The first of the names.
LEMMA FirstNameIn ==
  ASSUME NEW S, S \subseteq Names, S # {}
  PROVE  FirstName(S) \in S /\ \A m \in S : FirstName(S) <= m
<1>1. S \subseteq Nat
  BY MaximaNat DEF Names
<1>2. \E n \in S : \A m \in S : n <= m
  BY <1>1, LeastNumber
<1>3. QED
  BY <1>2 DEF FirstName

\* What UpsertSharedQuery does to the bucket (saved_queries.go:156-209): one key gets
\* the file's text, of a shared query of its title or a new one.
LEMMA Upserted ==
  ASSUME TypeOK, NEW n \in Names, UpsertSharedQuery(n)
  PROVE  /\ files[n] \in SharedFile /\ n \in toImport /\ \A m \in toImport : n <= m
         /\ proc = "importing"
         /\ \E id \in Ids, value \in SavedQuery :
              /\ queries' = [queries EXCEPT ![id] = value]
              /\ value.title = files[n].title /\ value.body = files[n].body
              /\ value.database = files[n].database /\ value.shared
              /\ \/ /\ id \in Matches(files[n]) /\ used' = used
                 \/ /\ id \notin used /\ used' = used \cup {id} /\ Matches(files[n]) = {}
<1> DEFINE f == files[n]
           value == [title |-> f.title, body |-> f.body, database |-> f.database, shared |-> TRUE]
<1>1. f \in SharedFile /\ n \in toImport /\ (\A m \in toImport : n <= m) /\ proc = "importing"
  BY FirstNameIn DEF UpsertSharedQuery, TypeOK
<1>2. value \in SavedQuery
  BY <1>1 DEF SharedFile, SavedQuery
<1>3. CASE Matches(f) = {}
  <2>1. PICK id \in Ids \ used : queries' = [queries EXCEPT ![id] = value] /\ used' = used \cup {id}
    BY <1>3 DEF UpsertSharedQuery
  <2>2. QED
    BY <1>1, <1>2, <1>3, <2>1
<1>4. CASE Matches(f) # {}
  <2> DEFINE id == LastKey(Matches(f))
  <2>1. id \in Matches(f)
    <3>1. Matches(f) \subseteq Ids
      BY DEF Matches, Stored
    <3>2. QED
      BY <1>4, <3>1, LastKeyIn
  <2>2. queries' = [queries EXCEPT ![id] = Overwritten(queries[id], f)] /\ used' = used
    BY <1>4 DEF UpsertSharedQuery
  <2> HIDE DEF id
  <2>3. /\ queries[id].shared = TRUE /\ id \in Ids /\ queries[id] \in SavedQuery
        /\ queries[id].title = f.title
    BY <2>1 DEF Matches, Stored, TypeOK, SavedQuery
  <2>4. Overwritten(queries[id], f) = value
    <3>1. queries[id] = [title |-> f.title, body |-> queries[id].body,
                         database |-> queries[id].database, shared |-> TRUE]
      <4> HIDE DEF f
      <4>1. QED
        BY <2>3 DEF SavedQuery
    <3>2. ASSUME NEW q, NEW b, NEW d,
                 q = [title |-> f.title, body |-> b, database |-> d, shared |-> TRUE]
          PROVE  Overwritten(q, f) = value
      <4> DEFINE t == f.title
                 b2 == f.body
                 d2 == f.database
      <4>1. Overwritten(q, f) = [q EXCEPT !.body = b2, !.database = d2]
        BY DEF Overwritten
      <4>2. value = [title |-> t, body |-> b2, database |-> d2, shared |-> TRUE]
        OBVIOUS
      <4>3. q = [title |-> t, body |-> b, database |-> d, shared |-> TRUE]
        BY <3>2
      <4> HIDE DEF t, b2, d2, f, value
      <4>4. QED
        BY <4>1, <4>2, <4>3
    <3>3. QED
      BY <3>1, <3>2
  <2>5. QED
    BY <1>1, <1>2, <2>1, <2>2, <2>3, <2>4
<1>5. QED
  BY <1>3, <1>4

\* The initial states satisfy the invariant.
LEMMA InitBucketInv == Init => BucketInv
BY SentinelsDistinct DEF Init, BucketInv, TypeOK, ImportSoFar, DuplicatesAreRenamed, Stored

\* Every step keeps the types.
LEMMA NextBucketType == TypeOK /\ [Next]_vars => TypeOK'
<1> SUFFICES ASSUME TypeOK, [Next]_vars PROVE TypeOK'
  OBVIOUS
<1>1. CASE Start \/ Stop \/ ServeAfterImport \/ ServeAfterError
  BY <1>1 DEF Start, Stop, ServeAfterImport, ServeAfterError, TypeOK, Stored
<1>2. ASSUME NEW n \in Names, UpsertSharedQuery(n) PROVE TypeOK'
  <2>1. PICK id \in Ids, value \in SavedQuery :
          /\ queries' = [queries EXCEPT ![id] = value]
          /\ (id \in Matches(files[n]) /\ used' = used) \/ used' = used \cup {id}
    BY <1>2, Upserted
  <2>2. queries' \in [Ids -> SavedQuery \cup {NoQuery}]
    BY <2>1 DEF TypeOK
  <2>3. Stored' \subseteq used' /\ used' \subseteq Ids /\ used \subseteq used'
    BY <2>1 DEF TypeOK, Stored, Matches
  <2>4. QED
    BY <1>2, <2>2, <2>3 DEF TypeOK, UpsertSharedQuery
<1>3. ASSUME NEW n \in Names, SkipFile(n) \/ ChangeFile(n) PROVE TypeOK'
  BY <1>3 DEF SkipFile, ChangeFile, TypeOK, Stored
<1>4. ASSUME NEW q \in SharedFile, CreateSavedQuery(q) PROVE TypeOK'
  <2>1. [title |-> q.title, body |-> q.body, database |-> q.database, shared |-> FALSE]
          \in SavedQuery
    BY DEF SharedFile, SavedQuery
  <2>2. QED
    BY <1>4, <2>1 DEF CreateSavedQuery, TypeOK, Stored
<1>5. ASSUME NEW id \in used, NEW q \in SharedFile, UpdateSavedQuery(id, q) PROVE TypeOK'
  <2>1. id \in Ids /\ queries[id] \in SavedQuery
    BY <1>5 DEF UpdateSavedQuery, TypeOK
  <2>2. [queries[id] EXCEPT !.title = q.title, !.body = q.body, !.database = q.database]
          \in SavedQuery
    BY <2>1 DEF SharedFile, SavedQuery
  <2>3. QED
    BY <1>5, <2>1, <2>2 DEF UpdateSavedQuery, TypeOK, Stored
<1>6. ASSUME NEW id \in used, DeleteSavedQuery(id) PROVE TypeOK'
  BY <1>6 DEF DeleteSavedQuery, TypeOK, Stored
<1>7. CASE UNCHANGED vars
  BY <1>7 DEF vars, TypeOK, Stored
<1>8. QED
  BY <1>1, <1>2, <1>3, <1>4, <1>5, <1>6, <1>7 DEF Next

\* Only a user gives a query the title of another.
LEMMA NextDuplicates == TypeOK /\ DuplicatesAreRenamed /\ [Next]_vars => DuplicatesAreRenamed'
<1> SUFFICES ASSUME TypeOK, DuplicatesAreRenamed, [Next]_vars PROVE DuplicatesAreRenamed'
  OBVIOUS
<1>1. CASE queries' = queries /\ retitled' = retitled
  BY <1>1 DEF DuplicatesAreRenamed, Stored
<1>2. ASSUME NEW n \in Names, UpsertSharedQuery(n) PROVE DuplicatesAreRenamed'
  <2>1. PICK id \in Ids, value \in SavedQuery :
          /\ queries' = [queries EXCEPT ![id] = value]
          /\ value.title = files[n].title
          /\ id \in Matches(files[n]) \/ Matches(files[n]) = {}
    BY <1>2, Upserted
  <2>2. retitled' = retitled
    BY <1>2 DEF UpsertSharedQuery
  <2>3. queries'[id] = value /\ \A j \in Ids \ {id} : queries'[j] = queries[j]
    BY <2>1 DEF TypeOK
  <2>4. CASE id \in Matches(files[n])
    <3>1. queries[id].title = value.title /\ queries[id].shared /\ id \in Stored
      BY <2>1, <2>4 DEF Matches
    <3>2. QED
      BY <2>2, <2>3, <3>1 DEF DuplicatesAreRenamed, Stored
  <2>5. CASE Matches(files[n]) = {}
    <3>1. \A j \in Stored : queries[j].shared => queries[j].title # value.title
      BY <2>1, <2>5 DEF Matches
    <3>2. QED
      BY <2>2, <2>3, <3>1 DEF DuplicatesAreRenamed, Stored
  <2>6. QED
    BY <2>1, <2>4, <2>5
<1>3. ASSUME NEW q \in SharedFile, CreateSavedQuery(q) PROVE DuplicatesAreRenamed'
  <2>1. PICK id \in Ids \ used :
          queries' = [queries EXCEPT ![id] = [title |-> q.title, body |-> q.body,
                                              database |-> q.database, shared |-> FALSE]]
    BY <1>3 DEF CreateSavedQuery
  <2>2. ~queries'[id].shared /\ \A j \in Ids \ {id} : queries'[j] = queries[j]
    BY <2>1 DEF TypeOK
  <2>3. QED
    BY <1>3, <2>2 DEF CreateSavedQuery, DuplicatesAreRenamed, Stored
<1>4. ASSUME NEW id \in used, NEW q \in SharedFile, UpdateSavedQuery(id, q)
      PROVE  DuplicatesAreRenamed'
  <2>1. queries[id] \in SavedQuery /\ id \in Ids /\ id \in Stored
    BY <1>4 DEF UpdateSavedQuery, TypeOK, Stored
  <2>2. /\ queries'[id].title = q.title /\ queries'[id].shared = queries[id].shared
        /\ \A j \in Ids \ {id} : queries'[j] = queries[j]
    BY <1>4, <2>1 DEF UpdateSavedQuery, TypeOK, SavedQuery
  <2>3. id \in retitled' \/ (queries'[id].title = queries[id].title /\ retitled' = retitled)
    BY <1>4, <2>2 DEF UpdateSavedQuery
  <2>4. retitled \subseteq retitled'
    BY <1>4 DEF UpdateSavedQuery
  <2>5. QED
    BY <2>1, <2>2, <2>3, <2>4 DEF DuplicatesAreRenamed, Stored
<1>5. ASSUME NEW id \in used, DeleteSavedQuery(id) PROVE DuplicatesAreRenamed'
  BY <1>5 DEF DeleteSavedQuery, DuplicatesAreRenamed, Stored, TypeOK
<1>6. CASE UNCHANGED vars
  BY <1>1, <1>6 DEF vars
<1>7. QED
  BY <1>1, <1>2, <1>3, <1>4, <1>5, <1>6
  DEF Next, Start, Stop, ServeAfterImport, ServeAfterError, SkipFile, ChangeFile

\* What an import has left for the file n.
Left(n) == \E m \in Names \ toImport, id \in Ids :
  /\ m >= n /\ files[m] \in SharedFile /\ files[m].title = files[n].title
  /\ queries[id] # NoQuery /\ queries[id].shared
  /\ queries[id].title = files[m].title
  /\ queries[id].body = files[m].body /\ queries[id].database = files[m].database

\* The file that is read now is the last of its title so far.
LEMMA UpsertLeaves ==
  ASSUME TypeOK, ImportSoFar, NEW n \in Names, UpsertSharedQuery(n)
  PROVE  ImportSoFar'
<1>1. /\ files[n] \in SharedFile /\ n \in toImport /\ \A m \in toImport : n <= m
      /\ toImport' = toImport \ {n} /\ UNCHANGED <<files, clean>>
  BY Upserted DEF UpsertSharedQuery
<1>2. PICK id \in Ids, value \in SavedQuery :
        /\ queries' = [queries EXCEPT ![id] = value]
        /\ value.title = files[n].title /\ value.body = files[n].body
        /\ value.database = files[n].database /\ value.shared
        /\ id \in Matches(files[n]) \/ id \notin used
  BY Upserted
<1>3. queries'[id] = value /\ value # NoQuery /\ \A j \in Ids \ {id} : queries'[j] = queries[j]
  BY <1>2, SentinelsDistinct DEF TypeOK
<1>4. n \in Nat /\ toImport \subseteq Nat /\ Names \subseteq Nat
  BY MaximaNat DEF Names, TypeOK
<1>5. SUFFICES ASSUME clean, NEW k \in Names \ toImport'
               PROVE  /\ files[k] # NoFile => \A m \in toImport' : k < m
                      /\ files[k] \in SharedFile => Left(k)'
  BY <1>1 DEF ImportSoFar, Left
<1>6. CASE k = n
  <2>1. \A m \in toImport' : n < m
    BY <1>1, <1>4
  <2>2. Left(n)'
    BY <1>1, <1>2, <1>3, <1>4 DEF Left
  <2>3. QED
    BY <1>6, <2>1, <2>2
<1>7. CASE k # n
  <2>1. k \in Names \ toImport
    BY <1>1, <1>5, <1>7
  <2>2. files[k] # NoFile => \A m \in toImport' : k < m
    BY <1>1, <1>5, <2>1 DEF ImportSoFar
  <2>3. ASSUME files[k] \in SharedFile PROVE Left(k)'
    <3>1. PICK m \in Names \ toImport, j \in Ids :
            /\ m >= k /\ files[m] \in SharedFile /\ files[m].title = files[k].title
            /\ queries[j] # NoQuery /\ queries[j].shared
            /\ queries[j].title = files[m].title
            /\ queries[j].body = files[m].body /\ queries[j].database = files[m].database
      BY <1>5, <2>1, <2>3 DEF ImportSoFar
    <3>2. CASE j # id
      BY <1>1, <1>3, <3>1, <3>2 DEF Left
    <3>3. CASE j = id
      <4>1. files[k].title = files[n].title
        BY <1>2, <3>1, <3>3 DEF Matches, TypeOK, Stored
      <4>2. n >= k
        <5>1. files[k] # NoFile
          BY <2>3, SentinelsDistinct
        <5>2. k < n
          BY <1>1, <1>5, <2>1, <5>1 DEF ImportSoFar
        <5>3. QED
          BY <1>4, <5>2
      <4>3. QED
        BY <1>1, <1>2, <1>3, <4>1, <4>2 DEF Left
    <3>4. QED
      BY <3>2, <3>3
  <2>4. QED
    BY <2>2, <2>3
<1>8. QED
  BY <1>6, <1>7

\* What is left of the import stays until something else happens.
LEMMA NextImportSoFar == TypeOK /\ ImportSoFar /\ [Next]_vars => ImportSoFar'
<1> SUFFICES ASSUME TypeOK, ImportSoFar, [Next]_vars PROVE ImportSoFar'
  OBVIOUS
<1>1. ASSUME NEW n \in Names, UpsertSharedQuery(n) PROVE ImportSoFar'
  BY <1>1, UpsertLeaves
<1>2. CASE Start
  BY <1>2, SentinelsDistinct DEF Start, ImportSoFar, TypeOK
<1>3. CASE clean' = FALSE
  BY <1>3 DEF ImportSoFar
<1>4. CASE UNCHANGED <<queries, files, toImport, clean>>
  BY <1>4 DEF ImportSoFar
<1>5. ASSUME NEW n \in Names, SkipFile(n) PROVE ImportSoFar'
  <2>1. /\ n \in toImport /\ \A m \in toImport : n <= m
    BY <1>5, FirstNameIn DEF SkipFile, TypeOK
  <2>2. /\ toImport' = toImport \ {n} /\ UNCHANGED <<files, clean, queries>>
        /\ files[n] \notin SharedFile
    BY <1>5, SentinelsDistinct DEF SkipFile
  <2>3. n \in Nat /\ toImport \subseteq Nat /\ Names \subseteq Nat
    BY MaximaNat DEF Names, TypeOK
  <2>4. SUFFICES ASSUME clean, NEW k \in Names \ toImport'
                 PROVE  /\ files[k] # NoFile => \A m \in toImport' : k < m
                        /\ files[k] \in SharedFile => Left(k)'
    BY <2>2 DEF ImportSoFar, Left
  <2>5. CASE k = n
    BY <2>1, <2>2, <2>3, <2>5
  <2>6. CASE k # n
    BY <2>2, <2>4, <2>6 DEF ImportSoFar, Left
  <2>7. QED
    BY <2>5, <2>6
<1>6. QED
  BY <1>1, <1>2, <1>3, <1>4, <1>5
  DEF Next, Stop, ServeAfterImport, ServeAfterError, ChangeFile, CreateSavedQuery,
      UpdateSavedQuery, DeleteSavedQuery, vars

\* What is proved once for all about the bucket, the files and the import.
THEOREM BucketInvariance == Spec => []BucketInv
<1>1. BucketInv /\ [Next]_vars => BucketInv'
  BY NextBucketType, NextDuplicates, NextImportSoFar DEF BucketInv
<1>2. QED
  BY InitBucketInv, <1>1, PTL DEF Spec

\* After an import that ran to its end, every query file is there for its database
\* with its text, or a later one of its title is.
THEOREM ImportComplete == Spec => []FilesImported
<1>1. ASSUME BucketInv PROVE FilesImported
  <2> SUFFICES ASSUME proc = "serving", clean, NEW n \in Names, files[n] \in SharedFile,
                      ~ \E m \in Names : /\ m > n /\ files[m] \in SharedFile
                                         /\ files[m].title = files[n].title
               PROVE  \A d \in Databases : files[n].database \in {d, Everywhere} =>
                        \E id \in Listed(d) : /\ queries[id].shared
                                              /\ queries[id].title = files[n].title
                                              /\ queries[id].body = files[n].body
    BY DEF FilesImported
  <2>1. toImport = {} /\ n \in Nat /\ Names \subseteq Nat
    BY <1>1, MaximaNat DEF BucketInv, TypeOK, Names
  <2>2. PICK m \in Names, id \in Ids :
          /\ m >= n /\ files[m] \in SharedFile /\ files[m].title = files[n].title
          /\ queries[id] # NoQuery /\ queries[id].shared
          /\ queries[id].title = files[m].title
          /\ queries[id].body = files[m].body /\ queries[id].database = files[m].database
    BY <1>1, <2>1 DEF BucketInv, ImportSoFar
  <2>3. m = n
    BY <2>1, <2>2
  <2>4. QED
    BY <2>2, <2>3 DEF Listed, Stored
<1>2. QED
  BY BucketInvariance, <1>1, PTL

\* Two shared queries have one title only if a user gave it to one of them.
THEOREM ImportRepeatable == Spec => []DuplicatesAreRenamed
<1>1. BucketInv => DuplicatesAreRenamed
  BY DEF BucketInv
<1>2. QED
  BY BucketInvariance, <1>1, PTL

\* An import leaves users' own queries alone, and nothing brings a deleted one back.
THEOREM OwnStay == Spec => OwnQueriesStay
<1> DEFINE Stay == /\ \A id \in Ids : proc = "importing" /\ queries[id] # NoQuery /\ ~queries[id].shared
                        => queries'[id] = queries[id]
                   /\ \A id \in used : queries[id] = NoQuery => queries'[id] = NoQuery
<1>1. ASSUME TypeOK, [Next]_vars PROVE Stay
  <2>1. ASSUME NEW n \in Names, UpsertSharedQuery(n) PROVE Stay
    <3>1. PICK id \in Ids, value \in SavedQuery :
            /\ queries' = [queries EXCEPT ![id] = value]
            /\ id \in Matches(files[n]) \/ id \notin used
      BY <1>1, <2>1, Upserted
    <3>2. QED
      BY <1>1, <3>1 DEF TypeOK, Matches, Stored
  <2>2. CASE queries' = queries
    BY <2>2
  <2>3. ASSUME NEW q \in SharedFile, CreateSavedQuery(q) PROVE Stay
    BY <1>1, <2>3 DEF CreateSavedQuery, TypeOK
  <2>4. ASSUME NEW id \in used, NEW q \in SharedFile, UpdateSavedQuery(id, q) PROVE Stay
    BY <1>1, <2>4 DEF UpdateSavedQuery, TypeOK
  <2>5. ASSUME NEW id \in used, DeleteSavedQuery(id) PROVE Stay
    BY <1>1, <2>5 DEF DeleteSavedQuery, TypeOK
  <2>6. QED
    <3> HIDE DEF Stay
    <3> QED
      BY <1>1, <2>1, <2>2, <2>3, <2>4, <2>5
      DEF Next, Start, Stop, ServeAfterImport, ServeAfterError, SkipFile, ChangeFile, vars
<1>2. BucketInv /\ [Next]_vars => [Stay]_vars
  <2> HIDE DEF Stay
  <2> QED
    BY <1>1 DEF BucketInv
<1>3. QED
  BY BucketInvariance, <1>2, PTL DEF Spec, OwnQueriesStay


(***************************************************************************)
(* SavedList.                                                              *)
(***************************************************************************)
ListInv == ListTypeOK /\ ListsAgree /\ ListsOfDatabase /\ SteadyKeeps

CachedEntry == [data : Listings \cup {Nothing}, answer : Listings \cup {Nothing},
          outdated : BOOLEAN, fetching : BOOLEAN, behind : SUBSET {"data", "fetch"}]

\* No change of query i is written and not answered yet.
Quiet(i) == calls[i] # Nothing => ~calls[i].written

\* What ListsAgree says of one entry of the cache.
EntryAgrees(c, i, d) ==
  /\ c.data # Nothing /\ ~c.outdated /\ "data" \notin c.behind => Agrees(c.data, i, d)
  /\ c.answer # Nothing /\ "fetch" \notin c.behind => Agrees(c.answer, i, d)

\* What ListTypeOK and ListsOfDatabase say of one.
EntryOK(c, d) ==
  /\ c \in CachedEntry
  /\ ~c.fetching => c.answer = Nothing
  /\ \A rows \in {c.data, c.answer} \ {Nothing} :
       \A i \in DOMAIN rows : rows[i].database \in {d, Global}

\* The rest of ListTypeOK.
PageOK ==
  /\ stored \in [SavedIds -> {Unborn, Gone} \cup Row]
  /\ listDb \in ListDbs /\ moving \in ListDbs \cup {Nothing} /\ savedOpen \in BOOLEAN
  /\ {confirm, newest} \subseteq SavedIds \cup {Nothing}
  /\ calls \in [SavedIds -> Calls \cup {Nothing}]
  /\ editing \in [id : SavedIds, row : Row, sent : BOOLEAN, steady : BOOLEAN] \cup {Nothing}
  /\ editing # Nothing /\ editing.sent => calls[editing.id] # Nothing

CacheOK == /\ DOMAIN lists = ListDbs /\ lists = [d \in ListDbs |-> lists[d]]
           /\ \A d \in ListDbs : EntryOK(lists[d], d)

\* The invariant, entry by entry.
LEMMA ByEntry ==
  /\ ListTypeOK /\ ListsOfDatabase <=> PageOK /\ CacheOK
  /\ ListsAgree <=> \A d \in ListDbs, i \in SavedIds : Quiet(i) => EntryAgrees(lists[d], i, d)
<1>1. ListTypeOK /\ ListsOfDatabase => PageOK /\ CacheOK
  BY DEF ListTypeOK, ListsOfDatabase, PageOK, CacheOK, EntryOK, CachedEntry
<1>2. PageOK /\ CacheOK => ListTypeOK
  <2>1. CacheOK => lists \in [ListDbs -> CachedEntry]
    BY DEF CacheOK, EntryOK
  <2>2. QED
    BY <2>1 DEF ListTypeOK, PageOK, CacheOK, EntryOK, CachedEntry
<1>3. CacheOK => ListsOfDatabase
  BY DEF ListsOfDatabase, CacheOK, EntryOK
<1>4. ListsAgree <=> \A d \in ListDbs, i \in SavedIds : Quiet(i) => EntryAgrees(lists[d], i, d)
  BY DEF ListsAgree, Quiet, EntryAgrees
<1>5. QED
  BY <1>1, <1>2, <1>3, <1>4

\* What ListSavedQueries returns for a database.
LEMMA ListingIs ==
  ASSUME PageOK, NEW d \in ListDbs
  PROVE  /\ Listing(d) \in Listings
         /\ \A i \in SavedIds : Agrees(Listing(d), i, d)
         /\ \A i \in DOMAIN Listing(d) : Listing(d)[i].database \in {d, Global}
<1> DEFINE S == {j \in SavedIds : Exists(j) /\ stored[j].database \in {d, Global}}
<1>1. Listing(d) = [i \in S |-> stored[i]]
  BY DEF Listing
<1>2. \A i \in S : stored[i] \in Row
  BY DEF PageOK, Exists
<1>3. Listing(d) \in [S -> Row] /\ S \in SUBSET SavedIds
  <2> HIDE DEF S
  <2>1. [i \in S |-> stored[i]] \in [S -> Row]
    BY <1>2
  <2>2. S \in SUBSET SavedIds
    BY DEF S
  <2>3. QED
    BY <1>1, <2>1, <2>2
<1>4. QED
  BY <1>1, <1>3 DEF Listings, Agrees

\* One entry of the cache is replaced.
LEMMA EntryReplaced ==
  ASSUME CacheOK, NEW d \in ListDbs, NEW c, EntryOK(c, d), lists' = [lists EXCEPT ![d] = c]
  PROVE  CacheOK' /\ lists'[d] = c /\ \A e \in ListDbs \ {d} : lists'[e] = lists[e]
<1>1. lists'[d] = c /\ \A e \in ListDbs \ {d} : lists'[e] = lists[e]
  BY DEF CacheOK
<1>2. DOMAIN lists' = ListDbs /\ lists' = [e \in ListDbs |-> lists'[e]]
  BY DEF CacheOK
<1>3. \A e \in ListDbs : EntryOK(lists'[e], e)
  BY <1>1 DEF CacheOK
<1>4. CacheOK'
  BY <1>2, <1>3 DEF CacheOK, EntryOK, CachedEntry, Listings, Row
<1>5. QED
  BY <1>1, <1>4

\* What the operations make of an entry is an entry, and keeps agreeing.
LEMMA Entries ==
  ASSUME PageOK, CacheOK, NEW d \in ListDbs
  PROVE  /\ EntryOK(NoEntry, d)
         /\ EntryOK(Observed(d)[d], d)
         /\ EntryOK(Invalidated(d), d)
         /\ EntryOK(Unheard(d), d)
         /\ EntryOK([lists[d] EXCEPT !.answer = Listing(d)], d) \/ ~lists[d].fetching
         /\ \A again \in BOOLEAN :
              EntryOK([lists[d] EXCEPT !.fetching = again, !.answer = Nothing,
                                       !.behind = @ \ {"fetch"}], d)
<1>1. EntryOK(lists[d], d) /\ lists[d] \in CachedEntry
  BY DEF CacheOK, EntryOK
<1>2. EntryOK(NoEntry, d)
  BY DEF NoEntry, EntryOK, CachedEntry
<1>3. EntryOK(Observed(d)[d], d)
  <2>1. Observed(d)[d] = [lists[d] EXCEPT !.fetching = TRUE,
                            !.behind = IF lists[d].fetching THEN @ ELSE @ \ {"fetch"}]
    BY DEF Observed, CacheOK
  <2>2. QED
    BY <1>1, <2>1 DEF EntryOK, CachedEntry
<1>4. EntryOK(Invalidated(d), d)
  BY <1>1 DEF Invalidated, EntryOK, CachedEntry
<1>5. EntryOK(Unheard(d), d)
  BY <1>1 DEF Unheard, EntryOK, CachedEntry
<1>6. EntryOK([lists[d] EXCEPT !.answer = Listing(d)], d) \/ ~lists[d].fetching
  BY <1>1, ListingIs DEF EntryOK, CachedEntry
<1>7. ASSUME NEW again \in BOOLEAN
      PROVE  EntryOK([lists[d] EXCEPT !.fetching = again, !.answer = Nothing,
                                       !.behind = @ \ {"fetch"}], d)
  BY <1>1 DEF EntryOK, CachedEntry
<1>8. QED
  BY <1>2, <1>3, <1>4, <1>5, <1>6, <1>7

\* The cache is as it was but for one entry, which agrees where the old one did.
Touched(d) ==
  /\ CacheOK'
  /\ \A e \in ListDbs \ {d} : lists'[e] = lists[e]
  /\ \A i \in SavedIds : (Quiet(i) => EntryAgrees(lists[d], i, d))
                           => (Quiet(i) => EntryAgrees(lists'[d], i, d))

\* A list comes on the screen and is fetched.
LEMMA ObservedTouches ==
  ASSUME PageOK, CacheOK, NEW d \in ListDbs, lists' = Observed(d)
  PROVE  Touched(d)
<1> DEFINE c == [lists[d] EXCEPT !.fetching = TRUE,
                   !.behind = IF lists[d].fetching THEN @ ELSE @ \ {"fetch"}]
<1>1. Observed(d) = [lists EXCEPT ![d] = c]
  BY DEF Observed, CacheOK
<1>2. EntryOK(c, d)
  <2>1. Observed(d)[d] = c
    <3> HIDE DEF c
    <3> QED BY <1>1 DEF CacheOK
  <2>2. QED
    <3> HIDE DEF c
    <3> QED BY <2>1, Entries
<1>3. CacheOK' /\ lists'[d] = c /\ \A e \in ListDbs \ {d} : lists'[e] = lists[e]
  <2> HIDE DEF c
  <2> QED BY <1>1, <1>2, EntryReplaced
<1>4. lists[d] \in CachedEntry /\ (~lists[d].fetching => lists[d].answer = Nothing)
  BY DEF CacheOK, EntryOK
<1>5. \A i \in SavedIds : EntryAgrees(lists[d], i, d) => EntryAgrees(c, i, d)
  BY <1>4 DEF EntryAgrees, CachedEntry
<1>6. QED
  <2> HIDE DEF c
  <2> QED BY <1>3, <1>5 DEF Touched

\* A list that nobody looks at is dropped.
LEMMA CollectTouches ==
  ASSUME PageOK, CacheOK, NEW d \in ListDbs, CollectList(d)
  PROVE  Touched(d)
<1>1. EntryOK(NoEntry, d) /\ lists' = [lists EXCEPT ![d] = NoEntry]
  BY Entries DEF CollectList
<1>2. CacheOK' /\ lists'[d] = NoEntry /\ \A e \in ListDbs \ {d} : lists'[e] = lists[e]
  BY <1>1, EntryReplaced
<1>3. \A i \in SavedIds : EntryAgrees(NoEntry, i, d)
  BY DEF EntryAgrees, NoEntry
<1>4. QED
  BY <1>2, <1>3 DEF Touched

\* The server reads the list.
LEMMA ListingTouches ==
  ASSUME PageOK, CacheOK, NEW d \in ListDbs, ServerListsSaved(d)
  PROVE  Touched(d)
<1> DEFINE c == [lists[d] EXCEPT !.answer = Listing(d)]
<1>1. EntryOK(c, d) /\ lists' = [lists EXCEPT ![d] = c]
  BY Entries DEF ServerListsSaved, CacheOK
<1>2. CacheOK' /\ lists'[d] = c /\ \A e \in ListDbs \ {d} : lists'[e] = lists[e]
  <2> HIDE DEF c
  <2> QED BY <1>1, EntryReplaced
<1>3. \A i \in SavedIds : EntryAgrees(lists[d], i, d) => EntryAgrees(c, i, d)
  <2>1. lists[d] \in CachedEntry /\ \A i \in SavedIds : Agrees(Listing(d), i, d)
    BY ListingIs DEF CacheOK, EntryOK
  <2>2. QED
    BY <2>1 DEF EntryAgrees, CachedEntry
<1>4. QED
  <2> HIDE DEF c
  <2> QED BY <1>2, <1>3 DEF Touched

\* The list arrives.
LEMMA ArrivalTouches ==
  ASSUME PageOK, CacheOK, NEW d \in ListDbs, ListArrives(d)
  PROVE  Touched(d)
<1> DEFINE c == [NoEntry EXCEPT !.data = lists[d].answer,
                                !.behind = IF "fetch" \in lists[d].behind THEN {"data"} ELSE {}]
<1>1. lists[d] \in CachedEntry /\ EntryOK(lists[d], d) /\ lists' = [lists EXCEPT ![d] = c]
  BY DEF ListArrives, CacheOK, EntryOK
<1>2. EntryOK(c, d)
  BY <1>1 DEF EntryOK, CachedEntry, NoEntry
<1>3. CacheOK' /\ lists'[d] = c /\ \A e \in ListDbs \ {d} : lists'[e] = lists[e]
  <2> HIDE DEF c
  <2> QED BY <1>1, <1>2, EntryReplaced
<1>4. \A i \in SavedIds : EntryAgrees(lists[d], i, d) => EntryAgrees(c, i, d)
  BY <1>1 DEF EntryAgrees, CachedEntry, NoEntry
<1>5. QED
  <2> HIDE DEF c
  <2> QED BY <1>3, <1>4 DEF Touched

\* The fetch fails, and is tried once more or given up.
LEMMA FailureTouches ==
  ASSUME PageOK, CacheOK, NEW d \in ListDbs, ListFails(d)
  PROVE  Touched(d)
<1>1. PICK again \in BOOLEAN :
        lists' = [lists EXCEPT ![d].fetching = again, ![d].answer = Nothing,
                               ![d].behind = @ \ {"fetch"}]
  BY DEF ListFails, OnScreenDb, PageOK
<1> DEFINE c == [lists[d] EXCEPT !.fetching = again, !.answer = Nothing,
                                 !.behind = @ \ {"fetch"}]
<1>2. EntryOK(c, d)
  BY Entries
<1>3. lists' = [lists EXCEPT ![d] = c]
  BY <1>1 DEF CacheOK
<1>4. CacheOK' /\ lists'[d] = c /\ \A e \in ListDbs \ {d} : lists'[e] = lists[e]
  <2> HIDE DEF c
  <2> QED BY <1>2, <1>3, EntryReplaced
<1>5. \A i \in SavedIds : EntryAgrees(lists[d], i, d) => EntryAgrees(c, i, d)
  <2>1. lists[d] \in CachedEntry
    BY DEF CacheOK, EntryOK
  <2>2. QED
    BY <2>1 DEF EntryAgrees, CachedEntry
<1>6. QED
  <2> HIDE DEF c
  <2> QED BY <1>4, <1>5 DEF Touched

\* A row of the list on the screen.
LEMMA RowOnScreen ==
  ASSUME PageOK, CacheOK, NEW i \in Rows(listDb)
  PROVE  /\ i \in SavedIds /\ lists[listDb].data \in Listings /\ lists[listDb].data # Nothing
         /\ i \in DOMAIN lists[listDb].data /\ lists[listDb].data[i] \in Row
         /\ lists[listDb].data[i].database \in {listDb, Global}
<1>1. lists[listDb].data # Nothing /\ i \in DOMAIN lists[listDb].data
  BY DEF Rows
<1>2. EntryOK(lists[listDb], listDb)
  BY DEF PageOK, CacheOK
<1>3. lists[listDb].data \in Listings
  BY <1>1, <1>2 DEF EntryOK, CachedEntry
<1>4. QED
  BY <1>1, <1>2, <1>3 DEF EntryOK, Listings

\* Every step keeps what the page has in order.
LEMMA NextPage == PageOK /\ CacheOK /\ [ListNext]_listVars => PageOK'
<1> SUFFICES ASSUME PageOK, CacheOK, [ListNext]_listVars PROVE PageOK'
  OBVIOUS
<1>1. CASE OpenSaved \/ LeaveSaved \/ SwitchAnswered \/ SayNo \/ CloseEdit
  BY <1>1 DEF OpenSaved, LeaveSaved, SwitchAnswered, SayNo, CloseEdit, PageOK, listUi
<1>2. CASE SaveEdit
  <2> DEFINE call == [kind |-> "update", written |-> FALSE, steady |-> editing.steady,
                      row |-> [database |-> listDb, sql |-> editing.row.sql]]
  <2>1. call \in Calls /\ call # Nothing /\ editing.id \in SavedIds
    <3>1. editing.id \in SavedIds /\ editing.row \in Row /\ editing.steady \in BOOLEAN
      BY <1>2 DEF SaveEdit, PageOK
    <3>2. [database |-> listDb, sql |-> editing.row.sql] \in Row
      BY <3>1 DEF PageOK, Row
    <3>3. call \in Calls
      BY <3>1, <3>2 DEF Calls
    <3>4. QED
      BY <3>1, <3>3, NothingDistinct
  <2>2. calls' = [calls EXCEPT ![editing.id] = call] /\ editing' = [editing EXCEPT !.sent = TRUE]
    BY <1>2 DEF SaveEdit, Send
  <2> HIDE DEF call
  <2>3. calls' \in [SavedIds -> Calls \cup {Nothing}] /\ calls'[editing'.id] # Nothing
    BY <1>2, <2>1, <2>2 DEF SaveEdit, PageOK
  <2>4. QED
    BY <1>2, <2>2, <2>3 DEF SaveEdit, PageOK, listUi
<1>3. ASSUME NEW d \in ListDbs,
             CollectList(d) \/ ServerListsSaved(d) \/ ListArrives(d) \/ ListFails(d)
      PROVE  PageOK'
  BY <1>3 DEF CollectList, ServerListsSaved, ListArrives, ListFails, PageOK, listUi
<1>4. ASSUME NEW d \in ListDbs, AskSwitch(d) PROVE PageOK'
  BY <1>4 DEF AskSwitch, PageOK, listUi
<1>5. ASSUME NEW i \in SavedIds, AskDelete(i) PROVE PageOK'
  BY <1>5 DEF AskDelete, PageOK
<1>6. ASSUME NEW i \in SavedIds, PressDelete(i) PROVE PageOK'
  BY <1>6, NothingDistinct DEF PressDelete, Send, PageOK, Calls
<1>7. ASSUME NEW i \in SavedIds, Edit(i) PROVE PageOK'
  <2> DEFINE steady == AtRest(listDb) /\ calls[i] = Nothing
  <2>1. i \in Rows(listDb) /\ steady \in BOOLEAN
        /\ editing' = [id |-> i, row |-> lists[listDb].data[i], sent |-> FALSE, steady |-> steady]
    BY <1>7 DEF Edit
  <2> HIDE DEF steady
  <2>2. QED
    BY <1>7, <2>1, RowOnScreen DEF Edit, PageOK, listUi
<1>8. ASSUME NEW i \in SavedIds, ServerWrites(i) PROVE PageOK'
  <2>1. calls[i] \in Calls /\ calls' = [calls EXCEPT ![i].written = TRUE]
    BY <1>8 DEF ServerWrites, PageOK
  <2>2. [calls[i] EXCEPT !.written = TRUE] \in Calls
    BY <2>1 DEF Calls
  <2>3. calls[i].kind # "delete" => calls[i].row \in Row
    BY <2>1 DEF Calls
  <2>4. stored' \in [SavedIds -> {Unborn, Gone} \cup Row]
    BY <1>8, <2>3 DEF ServerWrites, PageOK
  <2>5. calls' \in [SavedIds -> Calls \cup {Nothing}]
        /\ \A j \in SavedIds : calls[j] # Nothing => calls'[j] # Nothing
    BY <2>1, <2>2, NothingDistinct DEF PageOK
  <2>6. QED
    BY <1>8, <2>4, <2>5 DEF ServerWrites, PageOK, listUi
<1>9. ASSUME NEW i \in SavedIds, CallAnswered(i) PROVE PageOK'
  BY <1>9 DEF CallAnswered, PageOK
<1>10. ASSUME NEW i \in SavedIds, CallFails(i) PROVE PageOK'
  BY <1>10 DEF CallFails, PageOK
<1>11. ASSUME NEW i \in SavedIds, NEW sql \in SqlTexts, SaveFromTab(i, sql) PROVE PageOK'
  <2>1. PICK call \in Calls : calls' = [calls EXCEPT ![i] = call]
    <3>1. \A kind \in {"create", "update"} :
            [kind |-> kind, written |-> FALSE, steady |-> FALSE,
             row |-> [database |-> listDb, sql |-> sql]] \in Calls
      BY DEF Calls, Row, PageOK
    <3>2. QED
      BY <1>11, <3>1 DEF SaveFromTab, Send
  <2>2. QED
    BY <1>11, <2>1 DEF SaveFromTab, PageOK, listUi
<1>12. CASE UNCHANGED listVars
  BY <1>12 DEF listVars, PageOK
<1>13. QED
  BY <1>1, <1>2, <1>3, <1>4, <1>5, <1>6, <1>7, <1>8, <1>9, <1>10, <1>11, <1>12 DEF ListNext

\* A step that leaves the calls and the bucket alone, and touches one entry or none.
Refetching ==
  \/ \E d \in ListDbs : lists' = Observed(d) \/ CollectList(d) \/ ServerListsSaved(d)
                        \/ ListArrives(d) \/ ListFails(d)
  \/ UNCHANGED lists

\* All these change the entry of one database, or none.
LEMMA RefetchTouches ==
  ASSUME PageOK, CacheOK, Refetching
  PROVE  (\E d \in ListDbs : Touched(d)) \/ UNCHANGED lists
BY ObservedTouches, CollectTouches, ListingTouches, ArrivalTouches, FailureTouches
DEF Refetching

\* Which steps change the cache.
LEMMA StepsOfCache ==
  ASSUME PageOK, [ListNext]_listVars
  PROVE  \/ Refetching
         \/ \E i \in SavedIds : CallAnswered(i) \/ CallFails(i)
<1>1. CASE OpenSaved
  BY <1>1 DEF OpenSaved, Refetching, PageOK
<1>2. CASE SwitchAnswered
  BY <1>2 DEF SwitchAnswered, Refetching, PageOK
<1>3. QED
  BY <1>1, <1>2
  DEF ListNext, LeaveSaved, SayNo, CloseEdit, SaveEdit, AskSwitch, AskDelete, PressDelete,
      Edit, ServerWrites, SaveFromTab, Refetching, listVars

\* Every step keeps every entry of the cache in order.
LEMMA NextCache == PageOK /\ CacheOK /\ [ListNext]_listVars => CacheOK'
<1> SUFFICES ASSUME PageOK, CacheOK, [ListNext]_listVars PROVE CacheOK'
  OBVIOUS
<1>1. CASE Refetching
  <2>1. CASE UNCHANGED lists
    BY <2>1 DEF CacheOK, EntryOK, CachedEntry, Listings, Row
  <2>2. QED
    BY <1>1, <2>1, RefetchTouches DEF Touched
<1>2. ASSUME lists' = [d \in ListDbs |-> lists'[d]], \A d \in ListDbs : EntryOK(lists'[d], d)
      PROVE  CacheOK'
  BY <1>2 DEF CacheOK, EntryOK, CachedEntry, Listings, Row
<1>3. CASE lists' = [d \in ListDbs |-> Invalidated(d)]
  <2>1. \A d \in ListDbs : EntryOK(Invalidated(d), d)
    BY Entries
  <2>2. QED
    BY <1>2, <1>3, <2>1
<1>4. CASE lists' = [d \in ListDbs |-> Unheard(d)]
  <2>1. \A d \in ListDbs : EntryOK(Unheard(d), d)
    BY Entries
  <2>2. QED
    BY <1>2, <1>4, <2>1
<1>5. QED
  BY <1>1, <1>3, <1>4, StepsOfCache DEF CallAnswered, CallFails, Refetching

\* The cached lists have what is stored, for queries without a call under way.
Agreeing == \A d \in ListDbs, i \in SavedIds : Quiet(i) => EntryAgrees(lists[d], i, d)

\* What a step does to the calls and to what is stored: rows that change have a
\* call that is written afterwards.
LEMMA StepsOfCalls ==
  ASSUME PageOK, [ListNext]_listVars
  PROVE  \/ \A i \in SavedIds : Quiet(i)' => Quiet(i) /\ stored'[i] = stored[i]
         \/ \E i \in SavedIds : CallAnswered(i) \/ CallFails(i)
<1>1. CASE UNCHANGED <<stored, calls>>
  BY <1>1 DEF Quiet
<1>2. ASSUME NEW i \in SavedIds, NEW call, Send(i, call), UNCHANGED stored
      PROVE  \A j \in SavedIds : Quiet(j)' => Quiet(j) /\ stored'[j] = stored[j]
  BY <1>2 DEF Send, Quiet, PageOK
<1>3. CASE SaveEdit
  <2>1. editing.id \in SavedIds
    BY <1>3 DEF SaveEdit, PageOK
  <2>2. QED
    BY <1>2, <1>3, <2>1 DEF SaveEdit
<1>4. ASSUME NEW i \in SavedIds, PressDelete(i)
      PROVE  \A j \in SavedIds : Quiet(j)' => Quiet(j) /\ stored'[j] = stored[j]
  BY <1>2, <1>4 DEF PressDelete
<1>5. ASSUME NEW i \in SavedIds, NEW sql \in SqlTexts, SaveFromTab(i, sql)
      PROVE  \A j \in SavedIds : Quiet(j)' => Quiet(j) /\ stored'[j] = stored[j]
  BY <1>2, <1>5 DEF SaveFromTab
<1>6. ASSUME NEW i \in SavedIds, ServerWrites(i), NEW j \in SavedIds, Quiet(j)'
      PROVE  Quiet(j) /\ stored'[j] = stored[j]
  <2>1. calls'[i] # Nothing /\ calls'[i].written
    <3>1. calls'[i] = [calls[i] EXCEPT !.written = TRUE] /\ calls[i] \in Calls
      BY <1>6 DEF ServerWrites, PageOK
    <3>2. [calls[i] EXCEPT !.written = TRUE] \in Calls /\ [calls[i] EXCEPT !.written = TRUE].written
      BY <3>1 DEF Calls
    <3>3. QED
      BY <3>1, <3>2, NothingDistinct
  <2>2. j # i
    BY <1>6, <2>1 DEF Quiet
  <2>3. calls'[j] = calls[j] /\ stored'[j] = stored[j]
    BY <1>6, <2>2 DEF ServerWrites, PageOK
  <2>4. QED
    BY <1>6, <2>3 DEF Quiet
<1>7. QED
  BY <1>1, <1>3, <1>4, <1>5, <1>6
  DEF ListNext, OpenSaved, LeaveSaved, SwitchAnswered, SayNo, CloseEdit, CollectList,
      ServerListsSaved, ListArrives, ListFails, AskSwitch, AskDelete, Edit, listVars

\* They go on agreeing.
LEMMA NextAgrees == PageOK /\ CacheOK /\ Agreeing /\ [ListNext]_listVars => Agreeing'
<1> SUFFICES ASSUME PageOK, CacheOK, Agreeing, [ListNext]_listVars,
                    NEW d \in ListDbs, NEW i \in SavedIds, Quiet(i)'
             PROVE  EntryAgrees(lists[d], i, d)'
  BY DEF Agreeing
<1>1. EntryOK(lists[d], d) /\ lists[d] \in CachedEntry
  BY DEF CacheOK, EntryOK
<1>2. ASSUME NEW j \in SavedIds, CallAnswered(j) PROVE EntryAgrees(lists[d], i, d)'
  <2>1. lists'[d] = Invalidated(d)
    BY <1>2 DEF CallAnswered
  <2> DEFINE c == Invalidated(d)
  <2>2. /\ c.data # Nothing => c.outdated
        /\ c.answer # Nothing => "fetch" \in c.behind
    BY <1>1 DEF Invalidated, CachedEntry, EntryOK
  <2>3. QED
    BY <2>1, <2>2 DEF EntryAgrees
<1>3. ASSUME NEW j \in SavedIds, CallFails(j), calls[j].written
      PROVE  EntryAgrees(lists[d], i, d)'
  <2>1. lists'[d] = Unheard(d)
    BY <1>3 DEF CallFails
  <2>2. {"data", "fetch"} \subseteq Unheard(d).behind
    BY <1>1 DEF Unheard, CachedEntry
  <2>3. QED
    BY <2>1, <2>2 DEF EntryAgrees
<1>4. ASSUME NEW j \in SavedIds, CallFails(j), ~calls[j].written
      PROVE  EntryAgrees(lists[d], i, d)'
  <2>1. lists' = lists /\ stored' = stored /\ Quiet(i)
    BY <1>4 DEF CallFails, Quiet, PageOK
  <2>2. EntryAgrees(lists[d], i, d)
    BY <2>1 DEF Agreeing
  <2>3. QED
    BY <2>1, <2>2 DEF EntryAgrees, Agrees, Exists
<1>5. CASE ~ \E j \in SavedIds : CallAnswered(j) \/ CallFails(j)
  <2>1. Quiet(i) /\ stored'[i] = stored[i]
    BY <1>5, StepsOfCalls
  <2>2. EntryAgrees(lists'[d], i, d)
    <3>1. EntryAgrees(lists[d], i, d)
      BY <2>1 DEF Agreeing
    <3>2. (\E e \in ListDbs : Touched(e)) \/ UNCHANGED lists
      BY <1>5, StepsOfCache, RefetchTouches
    <3>3. CASE UNCHANGED lists
      BY <3>1, <3>3
    <3>4. ASSUME NEW e \in ListDbs, Touched(e) PROVE EntryAgrees(lists'[d], i, d)
      BY <2>1, <3>1, <3>4 DEF Touched
    <3>5. QED
      BY <3>2, <3>3, <3>4
  <2>3. QED
    BY <2>1, <2>2 DEF EntryAgrees, Agrees, Exists
<1>6. QED
  BY <1>2, <1>3, <1>4, <1>5

\* Every step keeps what is about to be saved in keeping with what is stored.
LEMMA NextSteady ==
  PageOK /\ CacheOK /\ Agreeing /\ SteadyKeeps /\ [ListNext]_listVars => SteadyKeeps'
<1> SUFFICES ASSUME PageOK, CacheOK, Agreeing, SteadyKeeps, [ListNext]_listVars
             PROVE  SteadyKeeps'
  OBVIOUS
<1> USE DEF SteadyKeeps, Keeps
<1>1. CASE \/ UNCHANGED <<stored, calls, editing, listDb>>
           \/ UNCHANGED <<stored, calls>> /\ editing' = Nothing
  BY <1>1
<1>2. CASE SwitchAnswered
  <2>1. editing' # Nothing => \/ ~editing'.steady
                              \/ editing' = editing /\ listDb' = listDb
    BY <1>2 DEF SwitchAnswered, PageOK
  <2>2. stored' = stored /\ calls' = calls
    BY <1>2 DEF SwitchAnswered
  <2>3. QED
    BY <2>1, <2>2
<1>3. CASE SaveEdit
  <2> DEFINE row == [database |-> listDb, sql |-> editing.row.sql]
             call == [kind |-> "update", written |-> FALSE, steady |-> editing.steady,
                      row |-> row]
  <2>1. /\ editing # Nothing /\ editing.id \in SavedIds /\ stored' = stored
        /\ listDb' = listDb
        /\ calls' = [calls EXCEPT ![editing.id] = call]
        /\ editing'.id = editing.id /\ editing'.row = editing.row
        /\ editing'.steady = editing.steady
    BY <1>3 DEF SaveEdit, Send, PageOK
  <2>2. /\ calls'[editing.id] = call
        /\ \A j \in SavedIds \ {editing.id} : calls'[j] = calls[j]
    BY <2>1 DEF PageOK
  <2>3. call.kind = "update" /\ call.row = row /\ (call.steady => editing.steady)
    OBVIOUS
  <2>4. editing.steady => Keeps(editing.id, row)
    BY <2>1
  <2> HIDE DEF call
  <2>5. QED
    BY <2>1, <2>2, <2>3, <2>4
<1>4. ASSUME NEW i \in SavedIds, PressDelete(i) PROVE SteadyKeeps'
  <2>1. /\ calls'[i].kind = "delete" /\ \A j \in SavedIds \ {i} : calls'[j] = calls[j]
        /\ stored' = stored /\ editing' = Nothing
    BY <1>4 DEF PressDelete, Send, PageOK
  <2>2. QED
    BY <2>1
<1>5. ASSUME NEW i \in SavedIds, NEW sql \in SqlTexts, SaveFromTab(i, sql) PROVE SteadyKeeps'
  <2>1. /\ ~calls'[i].steady /\ \A j \in SavedIds \ {i} : calls'[j] = calls[j]
        /\ stored' = stored /\ editing' = Nothing
    BY <1>5 DEF SaveFromTab, Send, PageOK
  <2>2. QED
    BY <2>1
<1>6. ASSUME NEW i \in SavedIds, Edit(i) PROVE SteadyKeeps'
  <2> DEFINE steady == AtRest(listDb) /\ calls[i] = Nothing
  <2>1. /\ editing' = [id |-> i, row |-> lists[listDb].data[i], sent |-> FALSE, steady |-> steady]
        /\ i \in Rows(listDb)
        /\ stored' = stored /\ calls' = calls /\ listDb' = listDb
    BY <1>6 DEF Edit
  <2>2. steady => /\ calls[i] = Nothing
                  /\ Keeps(i, [database |-> listDb, sql |-> lists[listDb].data[i].sql])
    <3> SUFFICES ASSUME steady
                 PROVE  Keeps(i, [database |-> listDb, sql |-> lists[listDb].data[i].sql])
      OBVIOUS
    <3>1. Agrees(lists[listDb].data, i, listDb)
      BY RowOnScreen DEF AtRest, Agreeing, Quiet, EntryAgrees, PageOK
    <3>2. /\ stored[i] \in Row /\ stored[i].database \in {listDb, Global}
          /\ lists[listDb].data[i] = stored[i]
      BY <2>1, <3>1, RowOnScreen DEF Agrees, Exists, PageOK
    <3>3. QED
      BY <3>2
  <2>3. editing'.id = i /\ editing'.row = lists[listDb].data[i] /\ (editing'.steady => steady)
    <3> HIDE DEF steady
    <3> QED BY <2>1
  <2> HIDE DEF steady
  <2>4. QED
    BY <2>1, <2>2, <2>3
<1>7. ASSUME NEW i \in SavedIds, ServerWrites(i) PROVE SteadyKeeps'
  <2>1. /\ calls[i] \in Calls
        /\ stored' = [stored EXCEPT
                         ![i] = IF calls[i].kind = "delete" THEN Gone ELSE calls[i].row]
        /\ calls' = [calls EXCEPT ![i].written = TRUE]
        /\ editing' = editing /\ listDb' = listDb
    BY <1>7 DEF ServerWrites, PageOK
  <2>2. /\ calls'[i].written /\ calls'[i].kind = calls[i].kind
        /\ calls[i].kind = "update" => calls'[i].row = calls[i].row /\ calls[i].row \in Row
    <3>1. calls'[i] = [calls[i] EXCEPT !.written = TRUE]
      BY <2>1 DEF PageOK
    <3>2. QED
      BY <2>1, <3>1 DEF Calls
  <2>3. \A j \in SavedIds \ {i} : calls'[j] = calls[j] /\ stored'[j] = stored[j]
    BY <2>1 DEF PageOK
  <2>4. calls[i].kind = "update" => stored'[i] = calls[i].row
    BY <2>1 DEF PageOK
  <2>5. calls[i] # Nothing
    BY <1>7 DEF ServerWrites
  <2>6. ASSUME editing # Nothing, editing.steady
        PROVE  LET row == [database |-> listDb, sql |-> editing.row.sql] IN
               /\ Keeps(editing.id, row)'
               /\ calls'[editing.id] # Nothing =>
                    calls'[editing.id].kind = "update" /\ calls'[editing.id].row = row
    <3>1. editing.id \in SavedIds
      BY <2>6 DEF PageOK
    <3>2. CASE editing.id # i
      BY <2>1, <2>3, <2>6, <3>1, <3>2
    <3>3. CASE editing.id = i
      <4> DEFINE row == [database |-> listDb, sql |-> editing.row.sql]
      <4>1. calls[i].kind = "update" /\ calls[i].row = row
        BY <2>5, <2>6, <3>3
      <4>2. stored'[i] = row /\ row \in Row /\ calls'[i].kind = "update" /\ calls'[i].row = row
        BY <2>2, <2>4, <4>1
      <4>3. QED
        BY <2>1, <3>3, <4>2
    <3>4. QED
      BY <3>2, <3>3
  <2>7. QED
    BY <2>1, <2>2, <2>3, <2>6
<1>8. ASSUME NEW i \in SavedIds, CallAnswered(i) \/ CallFails(i) PROVE SteadyKeeps'
  <2>1. /\ calls'[i] = Nothing /\ \A j \in SavedIds \ {i} : calls'[j] = calls[j]
        /\ stored' = stored /\ listDb' = listDb
    BY <1>8 DEF CallAnswered, CallFails, PageOK
  <2>2. editing' # Nothing => /\ editing # Nothing /\ editing'.id = editing.id
                              /\ editing'.row = editing.row /\ editing'.steady = editing.steady
    BY <1>8 DEF CallAnswered, CallFails, PageOK
  <2>3. QED
    BY <2>1, <2>2 DEF PageOK
<1>9. QED
  <2> HIDE DEF SteadyKeeps
  <2> QED
    BY <1>1, <1>2, <1>3, <1>4, <1>5, <1>6, <1>7, <1>8
    DEF ListNext, OpenSaved, LeaveSaved, SayNo, CloseEdit, CollectList, ServerListsSaved,
        ListArrives, ListFails, AskSwitch, AskDelete, listVars

\* The initial states satisfy the invariant.
LEMMA InitList == ListInit => ListInv
<1> SUFFICES ASSUME ListInit PROVE ListInv
  OBVIOUS
<1>1. PageOK /\ SteadyKeeps
  BY DEF ListInit, PageOK, SteadyKeeps
<1>2. CacheOK /\ ListsAgree
  BY DEF ListInit, CacheOK, EntryOK, CachedEntry, NoEntry, ListsAgree
<1>3. QED
  BY <1>1, <1>2, ByEntry DEF ListInv

\* What is proved once for all about the list in the sidebar.
THEOREM ListInvariance == ListSpec => []ListInv
<1>1. ListInv /\ [ListNext]_listVars => ListInv'
  <2>1. /\ ListInv <=> PageOK /\ CacheOK /\ Agreeing /\ SteadyKeeps
        /\ ListInv' <=> PageOK' /\ CacheOK' /\ Agreeing' /\ SteadyKeeps'
    <3>1. ListInv <=> PageOK /\ CacheOK /\ Agreeing /\ SteadyKeeps
      BY ByEntry DEF ListInv, Agreeing
    <3>2. QED
      BY <3>1, PTL
  <2>2. QED
    BY <2>1, NextPage, NextCache, NextAgrees, NextSteady
<1>2. QED
  BY InitList, <1>1, PTL DEF ListSpec

\* The list on the screen, at rest and with no written change unanswered, is what
\* ListSavedQueries would return now.
THEOREM ListFollows == ListSpec => []ListFollowsStore
<1>1. ASSUME ListInv PROVE ListFollowsStore
  <2> SUFFICES ASSUME AtRest(listDb), \A i \in SavedIds : Quiet(i)
               PROVE  lists[listDb].data = Listing(listDb)
    BY DEF ListFollowsStore, Quiet
  <2>1. PageOK /\ CacheOK /\ listDb \in ListDbs
    BY <1>1, ByEntry DEF ListInv, PageOK
  <2> DEFINE seen == lists[listDb].data
             kept == Listing(listDb)
  <2>2. seen \in Listings /\ kept \in Listings
    BY <2>1, ListingIs DEF AtRest, CacheOK, EntryOK, CachedEntry
  <2>3. \A i \in SavedIds : Agrees(seen, i, listDb) /\ Agrees(kept, i, listDb)
    BY <1>1, <2>1, ByEntry, ListingIs DEF AtRest, ListInv, EntryAgrees
  <2> HIDE DEF seen, kept
  <2>4. DOMAIN seen = DOMAIN kept /\ \A i \in DOMAIN seen : seen[i] = kept[i]
    BY <2>2, <2>3 DEF Agrees, Listings
  <2>5. seen = kept
    BY <2>2, <2>4 DEF Listings
  <2>6. QED
    BY <2>5 DEF seen, kept
<1>2. QED
  BY ListInvariance, <1>1, PTL

\* No row of another database is on the screen.
THEOREM RowsAreOfDatabase == ListSpec => []RowsOfDatabase
<1>1. ListInv => RowsOfDatabase
  BY ByEntry, RowOnScreen DEF ListInv, RowsOfDatabase
<1>2. QED
  BY ListInvariance, <1>1, PTL

\* A new title changes neither the SQL of a row nor its database, except that it
\* binds a global one to the connected database; if the row was up to date when
\* Edit was clicked and no switch was answered while the dialog was open.
THEOREM EditsKeep == ListSpec => EditsKeepTheQuery
<1> DEFINE Stays(i) == /\ stored'[i].sql = stored[i].sql
                       /\ stored'[i].database = stored[i].database \/ stored[i].database = Global
           Edited(i) == /\ calls[i] # Nothing /\ calls'[i] # Nothing
                        /\ ~calls[i].written /\ calls'[i].written
                        /\ calls[i].kind = "update" /\ calls[i].steady
<1>1. ASSUME ListInv, [ListNext]_listVars, NEW i \in SavedIds, Edited(i) PROVE Stays(i)
  <2>1. PageOK /\ SteadyKeeps
    BY <1>1, ByEntry DEF ListInv
  <2>2. ServerWrites(i)
    <3>1. calls'[i] # calls[i]
      BY <1>1
    <3>2. ASSUME NEW j \in SavedIds, NEW call, Send(j, call) PROVE FALSE
      BY <1>1, <2>1, <3>1, <3>2 DEF Send, PageOK
    <3>3. ~SaveEdit
      BY <2>1, <3>2 DEF SaveEdit, PageOK
    <3>4. \A j \in SavedIds : ~PressDelete(j) /\ \A sql \in SqlTexts : ~SaveFromTab(j, sql)
      BY <3>2 DEF PressDelete, SaveFromTab
    <3>5. \A j \in SavedIds : CallAnswered(j) \/ CallFails(j) => FALSE
      BY <1>1, <2>1, <3>1 DEF CallAnswered, CallFails, PageOK
    <3>6. \A j \in SavedIds : ServerWrites(j) => j = i
      BY <2>1, <3>1 DEF ServerWrites, PageOK
    <3> HIDE DEF Edited, Stays
    <3>7. QED
      BY <1>1, <3>1, <3>3, <3>4, <3>5, <3>6
      DEF ListNext, OpenSaved, LeaveSaved, SwitchAnswered, SayNo, CloseEdit, CollectList,
          ServerListsSaved, ListArrives, ListFails, AskSwitch, AskDelete, Edit, listVars
  <2>3. stored'[i] = calls[i].row
    BY <1>1, <2>1, <2>2 DEF ServerWrites, PageOK
  <2>4. Keeps(i, calls[i].row)
    BY <1>1, <2>1 DEF SteadyKeeps
  <2>5. QED
    BY <2>3, <2>4 DEF Keeps
<1>2. ListInv /\ [ListNext]_listVars => [\A i \in SavedIds : Edited(i) => Stays(i)]_listVars
  <2> HIDE DEF Edited, Stays
  <2> QED
    BY <1>1
<1>3. QED
  BY ListInvariance, <1>2, PTL DEF ListSpec, EditsKeepTheQuery

(***************************************************************************)
(* HistoryLog.                                                             *)
(***************************************************************************)
\* The loop of ListHistory: its states, one round, and all of it.
LoopStates == [skipped : Nat, entries : Seq(Entry)]

Round(s, k, limit, offset) ==
  IF Skips(s.skipped, offset) THEN [s EXCEPT !.skipped = @ + 1]
  ELSE IF Len(s.entries) >= limit THEN s
  ELSE [s EXCEPT !.entries = Append(@, log[Len(log) + 1 - k])]

IsLoop(G, limit, offset) ==
  G = [k \in 0 .. Len(log) |->
        IF k = 0 THEN [skipped |-> 0, entries |-> << >>] ELSE Round(G[k - 1], k, limit, offset)]

\* A round keeps the loop's state what it is.
LEMMA RoundTyped ==
  ASSUME log \in Seq(Entry), NEW limit \in Nat, NEW offset \in Nat,
         NEW k \in 1 .. Len(log), NEW s \in LoopStates
  PROVE  Round(s, k, limit, offset) \in LoopStates
<1>1. log[Len(log) + 1 - k] \in Entry
  BY Len(log) + 1 - k \in 1 .. Len(log)
<1>2. Append(s.entries, log[Len(log) + 1 - k]) \in Seq(Entry)
  BY <1>1 DEF LoopStates
<1>3. s.skipped \in Nat /\ s.skipped + 1 \in Nat /\ s.entries \in Seq(Entry)
  BY DEF LoopStates
<1>4. /\ [s EXCEPT !.skipped = @ + 1] \in LoopStates
      /\ [s EXCEPT !.entries = Append(@, log[Len(log) + 1 - k])] \in LoopStates
  BY <1>2, <1>3 DEF LoopStates
<1>5. QED
  BY <1>4 DEF Round

\* The loop, round by round.
LEMMA ListingLoop ==
  ASSUME log \in Seq(Entry), NEW limit \in Nat, NEW offset \in Nat
  PROVE  \E G : /\ G \in [0 .. Len(log) -> LoopStates]
                /\ G[0] = [skipped |-> 0, entries |-> << >>]
                /\ \A k \in 1 .. Len(log) : G[k] = Round(G[k - 1], k, limit, offset)
                /\ ListHistory(limit, offset) = [entries |-> G[Len(log)].entries,
                                                 total   |-> Len(log)]
<1> DEFINE n == Len(log)
           first == [skipped |-> 0, entries |-> << >>]
           step == [k \in Nat |-> [s \in LoopStates |->
                     IF k \in 1 .. n THEN Round(s, k, limit, offset) ELSE s]]
<1>1. n \in Nat /\ first \in LoopStates
  BY DEF LoopStates
<1>2. step \in Rounds(LoopStates)
  BY RoundTyped DEF Rounds
<1>3. PICK G : /\ G \in [0 .. n -> LoopStates] /\ G[0] = first
               /\ \A k \in 1 .. n : G[k] = step[k][G[k - 1]]
  <2> HIDE DEF n, first, step
  <2>1. \E G : IsRun(G, n, LoopStates, first, step)
    BY <1>1, <1>2, LoopRuns
  <2>2. QED
    BY <2>1 DEF IsRun
<1>4. ASSUME NEW k \in 1 .. n PROVE G[k] = Round(G[k - 1], k, limit, offset)
  <2>1. k \in Nat /\ k - 1 \in 0 .. n
    BY <1>1
  <2>2. QED
    BY <1>3, <2>1
<1>5. IsLoop(G, limit, offset)
  <2> DEFINE E == [k \in 0 .. n |-> IF k = 0 THEN first ELSE Round(G[k - 1], k, limit, offset)]
  <2>1. \A k \in 0 .. n : k = 0 \/ k \in 1 .. n
    BY <1>1
  <2>2. \A k \in 0 .. n : G[k] = E[k]
    BY <1>3, <1>4, <2>1
  <2>3. E = [k \in 0 .. n |-> E[k]] /\ G = [k \in 0 .. n |-> G[k]]
    BY <1>3
  <2> HIDE DEF E
  <2>4. G = E
    BY <2>2, <2>3
  <2>5. QED
    BY <2>4 DEF E, IsLoop
<1>6. PICK F : IsLoop(F, limit, offset) /\ ListHistory(limit, offset) =
                 [entries |-> F[Len(log)].entries, total |-> Len(log)]
  BY <1>5 DEF ListHistory, IsLoop, Round
<1>7. \A k \in 0 .. n : F[k] = IF k = 0 THEN first ELSE Round(F[k - 1], k, limit, offset)
  <2> DEFINE E(k) == IF k = 0 THEN first ELSE Round(F[k - 1], k, limit, offset)
  <2>1. F = [k \in 0 .. n |-> E(k)]
    BY <1>6 DEF IsLoop
  <2> HIDE DEF E
  <2>2. \A k \in 0 .. n : F[k] = E(k)
    BY <2>1
  <2>3. QED
    BY <2>2 DEF E
<1>8. F = [k \in 0 .. n |-> F[k]]
  <2> DEFINE E(k) == IF k = 0 THEN first ELSE Round(F[k - 1], k, limit, offset)
  <2>1. F = [k \in 0 .. n |-> E(k)]
    BY <1>6 DEF IsLoop
  <2> HIDE DEF E
  <2>2. QED
    BY <2>1
<1>9. \A k \in 0 .. n : F[k] \in LoopStates
  <2> DEFINE good == {x \in Nat \X LoopStates : TRUE}
  <2>1. <<0, F[0]>> \in good
    BY <1>1, <1>7
  <2>2. ASSUME NEW k \in 1 .. n, <<k - 1, F[k - 1]>> \in good PROVE <<k, F[k]>> \in good
    BY <1>1, <1>7, <2>2, RoundTyped
  <2> HIDE DEF good
  <2>3. \A k \in 0 .. n : <<k, F[k]>> \in good
    BY <1>1, <2>1, <2>2, LoopKeeps
  <2>4. QED
    BY <2>3 DEF good
<1>10. F \in [0 .. n -> LoopStates]
  BY <1>8, <1>9
<1>11. F[0] = first /\ \A k \in 1 .. n : F[k] = Round(F[k - 1], k, limit, offset)
  BY <1>1, <1>7
<1>12. QED
  BY <1>6, <1>10, <1>11

\* The number of entries after k keys.
Taken(limit, offset, k) ==
  IF k <= offset THEN 0 ELSE IF k - offset <= limit THEN k - offset ELSE limit

\* After k keys: what is skipped, and the entries from the end of the log.
Sliced(s, k, limit, offset) ==
  /\ s.skipped = IF k <= offset THEN k ELSE offset
  /\ Len(s.entries) = Taken(limit, offset, k)
  /\ \A j \in 1 .. Len(s.entries) : s.entries[j] = log[Len(log) + 1 - offset - j]

\* A round takes one key more.
LEMMA RoundSlices ==
  ASSUME log \in Seq(Entry), NEW limit \in Nat, NEW offset \in Nat,
         NEW k \in 1 .. Len(log), NEW s \in LoopStates, Sliced(s, k - 1, limit, offset)
  PROVE  Sliced(Round(s, k, limit, offset), k, limit, offset)
<1> DEFINE e == log[Len(log) + 1 - k]
<1>1. s.skipped \in Nat /\ s.entries \in Seq(Entry) /\ Len(s.entries) \in Nat
  BY DEF LoopStates
<1>2. e \in Entry
  BY Len(log) + 1 - k \in 1 .. Len(log)
<1>3. CASE k <= offset
  <2>1. s.skipped = k - 1 /\ s.skipped < offset /\ Taken(limit, offset, k - 1) = 0
        /\ Taken(limit, offset, k) = 0
    BY <1>3 DEF Sliced, Taken
  <2>2. Round(s, k, limit, offset) = [s EXCEPT !.skipped = @ + 1]
    BY <2>1 DEF Round, Skips
  <2>3. [s EXCEPT !.skipped = @ + 1].skipped = k /\ [s EXCEPT !.skipped = @ + 1].entries = s.entries
    BY <2>1 DEF LoopStates
  <2> HIDE DEF Round, Taken
  <2>4. QED
    BY <1>3, <2>1, <2>2, <2>3 DEF Sliced
<1>4. CASE k > offset /\ Len(s.entries) >= limit
  <2>1. s.skipped = offset /\ ~(s.skipped < offset)
    BY <1>4 DEF Sliced
  <2>2. Round(s, k, limit, offset) = s
    BY <1>4, <2>1 DEF Round, Skips
  <2>3. Taken(limit, offset, k) = Taken(limit, offset, k - 1)
    BY <1>4 DEF Sliced, Taken
  <2>4. QED
    BY <1>4, <2>1, <2>2, <2>3 DEF Sliced
<1>5. CASE k > offset /\ ~(Len(s.entries) >= limit)
  <2>1. s.skipped = offset /\ ~(s.skipped < offset)
    BY <1>5 DEF Sliced
  <2>2. Round(s, k, limit, offset) = [s EXCEPT !.entries = Append(@, e)]
    BY <1>5, <2>1 DEF Round, Skips
  <2>3. Len(s.entries) = k - 1 - offset /\ Taken(limit, offset, k) = k - offset
    BY <1>1, <1>5 DEF Sliced, Taken
  <2>4. /\ [s EXCEPT !.entries = Append(@, e)].skipped = s.skipped
        /\ [s EXCEPT !.entries = Append(@, e)].entries = Append(s.entries, e)
    BY DEF LoopStates
  <2> HIDE DEF e
  <2>5. /\ Len(Append(s.entries, e)) = k - offset
        /\ \A j \in 1 .. Len(s.entries) : Append(s.entries, e)[j] = s.entries[j]
        /\ Append(s.entries, e)[k - offset] = e
    BY <1>1, <1>2, <2>3, AppendProperties
  <2>6. \A j \in 1 .. k - offset : Append(s.entries, e)[j] = log[Len(log) + 1 - offset - j]
    <3>1. \A j \in 1 .. k - offset : j \in 1 .. Len(s.entries) \/ j = k - offset
      BY <1>5, <2>3
    <3>2. e = log[Len(log) + 1 - offset - (k - offset)]
      BY DEF e
    <3>3. QED
      BY <2>5, <3>1, <3>2 DEF Sliced
  <2>7. QED
    BY <1>5, <2>1, <2>2, <2>3, <2>4, <2>5, <2>6 DEF Sliced
<1>6. QED
  BY <1>1, <1>3, <1>4, <1>5

\* What ListHistory returns: a part of the log, from its end.
LEMMA ListedPage ==
  ASSUME log \in Seq(Entry), NEW limit \in Nat, NEW offset \in Nat
  PROVE  /\ ListHistory(limit, offset).total = Len(log)
         /\ ListHistory(limit, offset).entries \in Seq(Entry)
         /\ Len(ListHistory(limit, offset).entries) = Taken(limit, offset, Len(log))
         /\ \A j \in 1 .. Len(ListHistory(limit, offset).entries) :
              ListHistory(limit, offset).entries[j] = log[Len(log) + 1 - offset - j]
<1>1. PICK G : /\ G \in [0 .. Len(log) -> LoopStates]
               /\ G[0] = [skipped |-> 0, entries |-> << >>]
               /\ \A k \in 1 .. Len(log) : G[k] = Round(G[k - 1], k, limit, offset)
               /\ ListHistory(limit, offset) = [entries |-> G[Len(log)].entries,
                                                total   |-> Len(log)]
  BY ListingLoop
<1> DEFINE good == {x \in Nat \X LoopStates : Sliced(x[2], x[1], limit, offset)}
<1>2. Len(log) \in Nat /\ G[0] \in LoopStates
  BY <1>1
<1>3. <<0, G[0]>> \in good
  <2>1. Sliced(G[0], 0, limit, offset)
    BY <1>1 DEF Sliced, Taken
  <2>2. QED
    BY <1>2, <2>1
<1>4. ASSUME NEW k \in 1 .. Len(log), <<k - 1, G[k - 1]>> \in good PROVE <<k, G[k]>> \in good
  <2>1. k \in Nat /\ k - 1 \in 0 .. Len(log) /\ k \in 0 .. Len(log)
    BY <1>2
  <2>2. G[k - 1] \in LoopStates /\ G[k] \in LoopStates /\ Sliced(G[k - 1], k - 1, limit, offset)
    BY <1>1, <1>4, <2>1
  <2>3. Sliced(G[k], k, limit, offset)
    BY <1>1, <2>2, RoundSlices
  <2>4. QED
    BY <2>1, <2>2, <2>3
<1>5. \A k \in 0 .. Len(log) : <<k, G[k]>> \in good
  <2> HIDE DEF good
  <2> QED
    BY <1>2, <1>3, <1>4, LoopKeeps
<1>6. G[Len(log)] \in LoopStates /\ Sliced(G[Len(log)], Len(log), limit, offset)
  <2>1. <<Len(log), G[Len(log)]>> \in good
    BY <1>2, <1>5
  <2>2. QED
    BY <2>1
<1>7. QED
  BY <1>1, <1>6 DEF Sliced, LoopStates

\* The inductive invariant.
LogInv == LogTypeOK /\ PagesFollow

\* What invalidateQueries does to pages that follow the log: they are fetched anew,
\* or marked.
LEMMA PagesInvalidated ==
  ASSUME LogTypeOK, PagesFollow, Invalidate
  PROVE  /\ panel' = panel /\ (page' = page \/ page' = NoList)
         /\ listing' \in {"idle", "first", "retry"} /\ outdated' \in BOOLEAN
         /\ raced' \subseteq {"fetch", "panel"}
         /\ page' # NoList => listing' # "idle" /\ "fetch" \in raced'
         /\ panel' # NoList => outdated'
<1>1. /\ listing \in {"idle", "first", "retry"} /\ raced \subseteq {"fetch", "panel"}
      /\ outdated \in BOOLEAN /\ onScreen \in BOOLEAN
  BY DEF LogTypeOK
<1> DEFINE again == onScreen /\ (listing = "idle" \/ panel # NoList)
<1>2. panel' = panel /\ outdated' = (outdated \/ panel # NoList)
  BY DEF Invalidate
<1>3. CASE again
  <2>1. listing' = "first" /\ page' = NoList /\ raced' = raced \ {"fetch"}
    BY <1>3 DEF Invalidate
  <2>2. QED
    BY <1>1, <1>2, <2>1
<1>4. CASE ~again
  <2>1. /\ listing' = listing /\ page' = page
        /\ raced' = IF listing # "idle" THEN raced \cup {"fetch"} ELSE raced
    BY <1>4 DEF Invalidate
  <2>2. page # NoList => listing # "idle"
    BY DEF PagesFollow
  <2>3. QED
    BY <1>1, <1>2, <2>1, <2>2
<1>5. QED
  BY <1>3, <1>4

\* What the server lists now is a page of the log.
LEMMA ListedFollows ==
  ASSUME LogTypeOK
  PROVE  /\ HasNewest(ListHistory(PageSize, 0)) /\ IsOfLog(ListHistory(PageSize, 0))
         /\ ListHistory(PageSize, 0).entries \in Seq(Entry)
         /\ ListHistory(PageSize, 0).total \in Nat
<1> DEFINE p == ListHistory(PageSize, 0)
<1>1. log \in Seq(Entry) /\ Len(log) \in Nat /\ DOMAIN log = 1 .. Len(log) /\ PageSize \in Nat
  BY PageSizePositive DEF LogTypeOK
<1>2. /\ p.total = Len(log) /\ p.entries \in Seq(Entry)
      /\ Len(p.entries) = Taken(PageSize, 0, Len(log))
      /\ \A j \in 1 .. Len(p.entries) : p.entries[j] = log[Len(log) + 1 - 0 - j]
  BY <1>1, ListedPage
<1> HIDE DEF p
<1>3. DOMAIN p.entries = 1 .. Len(p.entries)
  BY <1>2
<1>4. Len(p.entries) = IF Len(log) <= PageSize THEN Len(log) ELSE PageSize
  BY <1>1, <1>2 DEF Taken
<1>5. ASSUME NEW i \in DOMAIN log, Len(log) - i < PageSize
      PROVE  \E k \in DOMAIN p.entries : p.entries[k] = log[i]
  <2>1. Len(log) + 1 - i \in 1 .. Len(p.entries)
    BY <1>1, <1>4, <1>5
  <2>2. Len(log) + 1 - 0 - (Len(log) + 1 - i) = i
    BY <1>1
  <2>3. QED
    BY <1>2, <1>3, <2>1, <2>2
<1>6. ASSUME NEW k \in DOMAIN p.entries PROVE \E i \in DOMAIN log : log[i] = p.entries[k]
  <2>1. Len(log) + 1 - 0 - k \in DOMAIN log
    BY <1>1, <1>3, <1>4
  <2>2. QED
    BY <1>2, <1>3, <2>1
<1>7. HasNewest(p) /\ IsOfLog(p)
  BY <1>5, <1>6 DEF HasNewest, IsOfLog
<1>8. QED
  BY <1>1, <1>2, <1>7 DEF p

\* A new entry makes no page wrong: its run is not answered yet.
LEMMA LoggedFollows ==
  ASSUME LogTypeOK, NEW r \in LoggedRuns, RunIsLogged(r), NEW p
  PROVE  /\ HasNewest(p) => HasNewest(p)'
         /\ IsOfLog(p) => IsOfLog(p)'
<1>1. log \in Seq(Entry) /\ Len(log) \in Nat /\ DOMAIN log = 1 .. Len(log) /\ sequence \in Nat
  BY DEF LogTypeOK
<1> DEFINE e == [id |-> sequence + 1, run |-> r]
<1>2. e \in Entry
  BY <1>1 DEF Entry
<1>3. PICK s \in {"succeeding", "failing"} : progress' = [progress EXCEPT ![r] = s]
  BY DEF RunIsLogged
<1>4. progress \in [LoggedRuns -> RunStates] /\ \A i \in DOMAIN log : log[i].run \in LoggedRuns
  <2>1. \A i \in DOMAIN log : log[i] \in Entry
    BY <1>1
  <2>2. QED
    BY <2>1 DEF LogTypeOK, Entry
<1>5. \A i \in DOMAIN log : progress'[log[i].run] = "succeeded" => progress[log[i].run] = "succeeded"
  BY <1>3, <1>4
<1>6. CASE log' = Append(log, e)
  <2> HIDE DEF e
  <2>1. /\ log' \in Seq(Entry) /\ Len(log') = Len(log) + 1 /\ DOMAIN log' = 1 .. Len(log) + 1
        /\ \A i \in DOMAIN log : log'[i] = log[i]
        /\ log'[Len(log) + 1] = e
    BY <1>1, <1>2, <1>6
  <2>2. progress'[e.run] # "succeeded"
    BY <1>3, <1>4 DEF e
  <2>3. ASSUME HasNewest(p), NEW i \in DOMAIN log', progress'[log'[i].run] = "succeeded",
               Len(log') - i < PageSize
        PROVE  \E k \in DOMAIN p.entries : p.entries[k] = log'[i]
    <3>1. i \in DOMAIN log
      BY <1>1, <2>1, <2>2, <2>3
    <3>2. Len(log) - i < PageSize
      BY <1>1, <2>1, <2>3, <3>1, PageSizePositive
    <3>3. QED
      BY <1>5, <2>1, <2>3, <3>1, <3>2 DEF HasNewest
  <2>4. ASSUME IsOfLog(p), NEW k \in DOMAIN p.entries
        PROVE  \E i \in DOMAIN log' : log'[i] = p.entries[k]
    BY <1>1, <2>1, <2>4 DEF IsOfLog
  <2>5. QED
    BY <2>3, <2>4 DEF HasNewest, IsOfLog
<1>7. CASE log' = log
  BY <1>5, <1>7 DEF HasNewest, IsOfLog
<1>8. QED
  BY <1>6, <1>7 DEF RunIsLogged, serverVars

\* LogInv is inductive: it holds at first,
LEMMA InitLogInv == LogInit => LogInv
<1> SUFFICES ASSUME LogInit PROVE LogInv
  OBVIOUS
<1>1. log = << >> /\ log \in Seq(Entry) /\ DOMAIN log = {}
  BY DEF LogInit
<1>2. progress \in [LoggedRuns -> RunStates]
  BY DEF LogInit, RunStates
<1>3. LogTypeOK
  BY <1>1, <1>2 DEF LogInit, LogTypeOK
<1>4. PagesFollow
  BY DEF LogInit, PagesFollow
<1>5. QED
  BY <1>3, <1>4 DEF LogInv

\* a run that is logged keeps the types,
LEMMA LoggedTypes ==
  ASSUME LogInv, NEW r \in LoggedRuns, RunIsLogged(r)
  PROVE  LogTypeOK'
<1>1. log \in Seq(Entry) /\ Len(log) \in Nat /\ DOMAIN log = 1 .. Len(log) /\ sequence \in Nat
  BY DEF LogInv, LogTypeOK
<1> DEFINE e == [id |-> sequence + 1, run |-> r]
<1>2. e \in Entry /\ e.id = sequence + 1 /\ e.run = r
  BY <1>1 DEF Entry
<1>3. PICK s \in {"succeeding", "failing"} : progress' = [progress EXCEPT ![r] = s]
  BY DEF RunIsLogged
<1>4. /\ progress \in [LoggedRuns -> RunStates] /\ progress[r] = "new"
      /\ \A i \in DOMAIN log : progress[log[i].run] # "new" /\ log[i].id <= sequence
      /\ \A i, j \in DOMAIN log : i < j => log[i].id < log[j].id /\ log[i].run # log[j].run
  BY DEF LogInv, LogTypeOK, RunIsLogged
<1>5. \A i \in DOMAIN log : log[i].run \in LoggedRuns /\ log[i].id \in Nat /\ log[i].run # r
  <2>1. \A i \in DOMAIN log : log[i] \in Entry
    BY <1>1
  <2>2. QED
    BY <1>4, <2>1 DEF Entry
<1>6. /\ progress' \in [LoggedRuns -> RunStates]
      /\ \A q \in LoggedRuns : progress'[q] = "new" => progress[q] = "new" /\ q # r
  BY <1>3, <1>4 DEF RunStates
<1>7. CASE log' = Append(log, e) /\ sequence' = sequence + 1
  <2> HIDE DEF e
  <2>1. /\ log' \in Seq(Entry) /\ DOMAIN log' = 1 .. Len(log) + 1
        /\ \A i \in DOMAIN log : log'[i] = log[i]
        /\ log'[Len(log) + 1] = e
    BY <1>1, <1>2, <1>7
  <2>2. \A i \in DOMAIN log' : i \in DOMAIN log \/ i = Len(log) + 1
    BY <1>1, <2>1
  <2>3. \A i \in DOMAIN log' : log'[i].id <= sequence'
    <3>1. \A i \in DOMAIN log : log[i].id <= sequence + 1
      BY <1>1, <1>4, <1>5
    <3>2. QED
      BY <1>1, <1>2, <1>7, <2>1, <2>2, <3>1
  <2>4. \A i \in DOMAIN log' : progress'[log'[i].run] # "new"
    BY <1>2, <1>4, <1>5, <1>6, <2>1, <2>2
  <2>5. ASSUME NEW i \in DOMAIN log', NEW j \in DOMAIN log', i < j
        PROVE  log'[i].id < log'[j].id /\ log'[i].run # log'[j].run
    <3>1. i \in DOMAIN log
      BY <1>1, <2>1, <2>2, <2>5
    <3>2. CASE j \in DOMAIN log
      BY <1>4, <2>1, <2>5, <3>1, <3>2
    <3>3. CASE j = Len(log) + 1
      <4>1. log'[i] = log[i] /\ log'[j] = e
        BY <2>1, <3>1, <3>3
      <4>2. log[i].id < sequence + 1
        BY <1>1, <1>4, <1>5, <3>1
      <4>3. QED
        BY <1>2, <1>5, <3>1, <4>1, <4>2
    <3>4. QED
      BY <2>2, <3>2, <3>3
  <2>6. sequence' \in Nat
    BY <1>1, <1>7
  <2>7. QED
    BY <1>6, <2>1, <2>3, <2>4, <2>5, <2>6 DEF LogInv, LogTypeOK, RunIsLogged, panelVars
<1>8. CASE log' = log /\ sequence' = sequence
  <2>1. \A i \in DOMAIN log : progress'[log[i].run] # "new"
    BY <1>4, <1>5, <1>6
  <2>2. QED
    BY <1>6, <1>8, <2>1 DEF LogInv, LogTypeOK, RunIsLogged, panelVars
<1>9. QED
  BY <1>7, <1>8 DEF RunIsLogged, serverVars

\* An answer, or the end of a clear: what does not change in the log, and whose
\* progress is not that of a success, keeps pages right.
LEMMA AnswerTypes ==
  ASSUME LogInv, NEW r \in LoggedRuns, NEW s \in {"succeeded", "failed"},
         progress' = [progress EXCEPT ![r] = s], UNCHANGED <<log, sequence>>
  PROVE  /\ progress' \in [LoggedRuns -> RunStates]
         /\ \A i \in DOMAIN log : progress'[log[i].run] # "new"
<1>1. /\ progress \in [LoggedRuns -> RunStates] /\ log \in Seq(Entry)
      /\ \A i \in DOMAIN log : progress[log[i].run] # "new"
  BY DEF LogInv, LogTypeOK
<1>2. \A i \in DOMAIN log : log[i].run \in LoggedRuns
  <2>1. \A i \in DOMAIN log : log[i] \in Entry
    BY <1>1
  <2>2. QED
    BY <2>1 DEF Entry
<1>3. QED
  BY <1>1, <1>2 DEF RunStates

\* and every step keeps all of it.
LEMMA NextLogInv == LogInv /\ [LogNext]_logVars => LogInv'
<1> SUFFICES ASSUME LogInv, [LogNext]_logVars PROVE LogInv'
  OBVIOUS
<1> USE DEF LogInv
<1>1. ASSUME NEW r \in LoggedRuns, RunIsLogged(r) PROVE LogInv'
  <2>1. LogTypeOK'
    BY <1>1, LoggedTypes
  <2>2. UNCHANGED <<clearing, panelVars>>
    BY <1>1 DEF RunIsLogged
  <2>3. \A p : (HasNewest(p) => HasNewest(p)') /\ (IsOfLog(p) => IsOfLog(p)')
    BY <1>1, LoggedFollows
  <2>4. (HasNewest(page) => HasNewest(page)') /\ (IsOfLog(page) => IsOfLog(page)')
    <3>1. page' = page
      BY <2>2 DEF panelVars
    <3>2. QED
      BY <2>3, <3>1 DEF HasNewest, IsOfLog
  <2>5. (HasNewest(panel) => HasNewest(panel)') /\ (IsOfLog(panel) => IsOfLog(panel)')
    <3>1. panel' = panel
      BY <2>2 DEF panelVars
    <3>2. QED
      BY <2>3, <3>1 DEF HasNewest, IsOfLog
  <2>6. PagesFollow'
    BY <2>2, <2>4, <2>5 DEF PagesFollow, panelVars
  <2>7. QED
    BY <2>1, <2>6
<1>2. ASSUME NEW r \in LoggedRuns, RunSucceeds(r) PROVE LogInv'
  <2>1. /\ progress' \in [LoggedRuns -> RunStates]
        /\ \A i \in DOMAIN log : progress'[log[i].run] # "new"
        /\ UNCHANGED <<log, sequence, clearing, onScreen>>
    BY <1>2, AnswerTypes DEF RunSucceeds, serverVars
  <2>2. /\ panel' = panel /\ (page' = page \/ page' = NoList)
        /\ listing' \in {"idle", "first", "retry"} /\ outdated' \in BOOLEAN
        /\ raced' \subseteq {"fetch", "panel"}
        /\ page' # NoList => listing' # "idle" /\ "fetch" \in raced'
        /\ panel' # NoList => outdated'
    BY <1>2, PagesInvalidated DEF RunSucceeds
  <2>3. LogTypeOK'
    BY <2>1, <2>2 DEF LogTypeOK
  <2>4. PagesFollow'
    BY <2>2 DEF PagesFollow
  <2>5. QED
    BY <2>3, <2>4
<1>3. ASSUME NEW r \in LoggedRuns, RunFails(r) PROVE LogInv'
  <2>1. /\ progress' = [progress EXCEPT ![r] = "failed"]
        /\ UNCHANGED <<log, sequence, clearing, onScreen, panelVars>>
    BY <1>3 DEF RunFails, serverVars
  <2>2. /\ progress' \in [LoggedRuns -> RunStates]
        /\ \A i \in DOMAIN log : progress'[log[i].run] # "new"
    BY <2>1, AnswerTypes
  <2>3. LogTypeOK'
    BY <2>1, <2>2 DEF LogTypeOK, panelVars
  <2>4. \A i \in DOMAIN log : progress'[log[i].run] = "succeeded" => progress[log[i].run] = "succeeded"
    <3>1. \A i \in DOMAIN log : log[i].run \in LoggedRuns
      <4>1. \A i \in DOMAIN log : log[i] \in Entry
        BY DEF LogTypeOK
      <4>2. QED
        BY <4>1 DEF Entry
    <3>2. QED
      BY <2>1, <3>1 DEF LogTypeOK
  <2>5. PagesFollow'
    BY <2>1, <2>4 DEF PagesFollow, HasNewest, IsOfLog, panelVars
  <2>6. QED
    BY <2>3, <2>5
<1>4. CASE OpenPanel
  BY <1>4 DEF OpenPanel, serverVars, LogTypeOK, PagesFollow, HasNewest, IsOfLog
<1>5. CASE LeavePanel
  <2>1. LogTypeOK'
    BY <1>5 DEF LeavePanel, serverVars, panelVars, LogTypeOK
  <2>2. PagesFollow'
    BY <1>5 DEF LeavePanel, serverVars, panelVars, PagesFollow, HasNewest, IsOfLog
  <2>3. QED
    BY <2>1, <2>2
<1>6. CASE CollectPanel
  <2>1. LogTypeOK'
    BY <1>6 DEF CollectPanel, serverVars, panelVars, LogTypeOK
  <2>2. PagesFollow'
    BY <1>6 DEF CollectPanel, serverVars, panelVars, PagesFollow, HasNewest, IsOfLog
  <2>3. QED
    BY <2>1, <2>2
<1>7. CASE ServerLists
  <2>1. /\ HasNewest(page') /\ IsOfLog(page')
        /\ page'.entries \in Seq(Entry) /\ page'.total \in Nat
    BY <1>7, ListedFollows DEF ServerLists
  <2>2. /\ listing # "idle"
        /\ UNCHANGED <<serverVars, progress, clearing, onScreen, panel, outdated, listing, raced>>
    BY <1>7 DEF ServerLists
  <2>3. LogTypeOK'
    BY <2>1, <2>2 DEF LogTypeOK, serverVars
  <2>4. PagesFollow'
    BY <2>1, <2>2 DEF PagesFollow, HasNewest, IsOfLog, serverVars
  <2>5. QED
    BY <2>3, <2>4
<1>8. CASE PageArrives
  <2>1. LogTypeOK'
    BY <1>8 DEF PageArrives, serverVars, LogTypeOK
  <2>2. PagesFollow'
    BY <1>8 DEF PageArrives, serverVars, PagesFollow, HasNewest, IsOfLog
  <2>3. QED
    BY <2>1, <2>2
<1>9. CASE ListingFails
  <2>1. LogTypeOK'
    BY <1>9 DEF ListingFails, serverVars, LogTypeOK
  <2>2. PagesFollow'
    BY <1>9 DEF ListingFails, serverVars, PagesFollow, HasNewest, IsOfLog
  <2>3. QED
    BY <2>1, <2>2
<1>10. CASE AskClear \/ AnswerAsk
  <2>1. LogTypeOK'
    <3>1. /\ clearing' \in {"no", "asked", "sent", "done"}
          /\ UNCHANGED <<log, sequence, progress, onScreen, panel, outdated, listing, page, raced>>
      BY <1>10 DEF AskClear, AnswerAsk, serverVars, panelVars
    <3>2. QED
      BY <3>1 DEF LogTypeOK
  <2>2. PagesFollow'
    BY <1>10 DEF AskClear, AnswerAsk, serverVars, panelVars, PagesFollow, HasNewest, IsOfLog
  <2>3. QED
    BY <2>1, <2>2
<1>11. CASE ServerClears
  <2>1. log' \in Seq(Entry) /\ DOMAIN log' = {} /\ sequence' \in Nat
    BY <1>11 DEF ServerClears
  <2>2. LogTypeOK'
    BY <1>11, <2>1 DEF ServerClears, panelVars, LogTypeOK
  <2>3. PagesFollow'
    BY <1>11, <2>1 DEF ServerClears, panelVars, PagesFollow, HasNewest, IsOfLog
  <2>4. QED
    BY <2>2, <2>3
<1>12. CASE ClearDone
  <2>1. clearing' = "no" /\ UNCHANGED <<log, sequence, progress, onScreen>>
    BY <1>12 DEF ClearDone, serverVars
  <2>2. /\ panel' = panel /\ (page' = page \/ page' = NoList)
        /\ listing' \in {"idle", "first", "retry"} /\ outdated' \in BOOLEAN
        /\ raced' \subseteq {"fetch", "panel"}
        /\ page' # NoList => listing' # "idle" /\ "fetch" \in raced'
        /\ panel' # NoList => outdated'
    BY <1>12, PagesInvalidated DEF ClearDone
  <2>3. LogTypeOK'
    BY <2>1, <2>2 DEF LogTypeOK
  <2>4. PagesFollow'
    BY <2>2 DEF PagesFollow
  <2>5. QED
    BY <2>3, <2>4
<1>13. CASE ClearFails
  <2>1. /\ clearing' \in {"no", "asked"}
        /\ UNCHANGED <<log, sequence, progress, onScreen, panel, outdated, listing, page>>
    BY <1>13 DEF ClearFails, serverVars
  <2>2. /\ raced \subseteq raced' /\ raced' \subseteq {"fetch", "panel"}
        /\ clearing = "done" /\ page # NoList => "fetch" \in raced'
        /\ clearing = "done" /\ panel # NoList => "panel" \in raced'
    BY <1>13 DEF ClearFails, LogTypeOK
  <2>3. LogTypeOK'
    BY <2>1, <2>2 DEF LogTypeOK
  <2>4. page' # NoList => listing' # "idle"
    BY <2>1 DEF PagesFollow
  <2>5. ASSUME page' # NoList, "fetch" \notin raced' PROVE HasNewest(page)' /\ IsOfLog(page)'
    <3>1. page # NoList /\ "fetch" \notin raced /\ clearing # "done"
      BY <2>1, <2>2, <2>5
    <3>2. HasNewest(page) /\ IsOfLog(page)
      BY <3>1 DEF PagesFollow
    <3>3. QED
      BY <2>1, <3>2 DEF HasNewest, IsOfLog
  <2>6. ASSUME panel' # NoList, ~outdated', "panel" \notin raced'
        PROVE  HasNewest(panel)' /\ IsOfLog(panel)'
    <3>1. panel # NoList /\ ~outdated /\ "panel" \notin raced /\ clearing # "done"
      BY <2>1, <2>2, <2>6
    <3>2. HasNewest(panel) /\ IsOfLog(panel)
      BY <3>1 DEF PagesFollow
    <3>3. QED
      BY <2>1, <3>2 DEF HasNewest, IsOfLog
  <2>7. PagesFollow'
    BY <2>4, <2>5, <2>6 DEF PagesFollow
  <2>8. QED
    BY <2>3, <2>7
<1>14. CASE UNCHANGED logVars
  <2>1. LogTypeOK'
    BY <1>14 DEF logVars, LogTypeOK
  <2>2. PagesFollow'
    BY <1>14 DEF logVars, PagesFollow, HasNewest, IsOfLog
  <2>3. QED
    BY <2>1, <2>2
<1>15. QED
  BY <1>1, <1>2, <1>3, <1>4, <1>5, <1>6, <1>7, <1>8, <1>9, <1>10, <1>11, <1>12, <1>13, <1>14
  DEF LogNext

\* The inductive invariant of HistoryLog: besides the types, the pages on their way
\* and in the cache follow the log, unless they are marked.
THEOREM LogInvariance == LogSpec => []LogInv
BY InitLogInv, NextLogInv, PTL DEF LogSpec

\* The open panel at rest has every newest run that was answered with success, and
\* nothing that was cleared, unless a change of the log has overtaken its page or
\* the answer to a clear was lost; for any number of runs and any page size
\* (HistoryPanel.tsx:6, 37).
THEOREM PanelFollows == LogSpec => []PanelFollowsLog
<1>1. LogInv => PanelFollowsLog
  BY DEF LogInv, PagesFollow, PanelFollowsLog, PanelAtRest
<1>2. QED
  BY <1>1, LogInvariance, PTL

\* Whatever the limit and the offset, ListHistory returns the part of the log that
\* begins there (history.go:44-78).
THEOREM PagesOfLog == LogSpec => []PagesTile
<1>1. ASSUME LogInv, NEW limit \in 1 .. Len(log) + 1, NEW offset \in 0 .. Len(log),
             NEW end, end = IF offset + limit <= Len(log) THEN offset + limit ELSE Len(log)
      PROVE  ListHistory(limit, offset).entries = SubSeq(Reverse(log), offset + 1, end)
  <2>1. log \in Seq(Entry) /\ Len(log) \in Nat
    BY <1>1 DEF LogInv, LogTypeOK
  <2>2. limit \in Nat /\ offset \in Nat /\ end \in Nat /\ end <= Len(log) /\ offset <= end
    BY <1>1, <2>1
  <2> DEFINE p == ListHistory(limit, offset).entries
             r == Reverse(log)
             s == SubSeq(r, offset + 1, end)
  <2>3. /\ p \in Seq(Entry) /\ Len(p) = Taken(limit, offset, Len(log))
        /\ \A j \in 1 .. Len(p) : p[j] = log[Len(log) + 1 - offset - j]
    BY <2>1, <2>2, ListedPage
  <2>4. \A i \in 1 .. Len(log) : r[i] = log[Len(log) - i + 1] /\ r[i] \in Entry
    <3>1. \A i \in 1 .. Len(log) : r[i] = log[Len(log) - i + 1]
      BY DEF Reverse
    <3>2. \A i \in 1 .. Len(log) : Len(log) - i + 1 \in 1 .. Len(log)
      BY <2>1
    <3> HIDE DEF r
    <3>3. QED
      BY <2>1, <3>1, <3>2
  <2> HIDE DEF p, r
  <2>5. Len(p) = end - offset
    <3>1. offset <= Len(log) /\ 1 <= limit
      BY <1>1, <2>1
    <3>2. Taken(limit, offset, Len(log)) = end - offset
      BY <1>1, <2>1, <2>2, <3>1 DEF Taken
    <3>3. QED
      BY <2>3, <3>2
  <2>6. \A i \in offset + 1 .. end : r[i] \in Entry
    BY <2>1, <2>2, <2>4
  <2>7. offset + 1 \in Int /\ end \in Int
    BY <2>2
  <2>8. /\ s \in Seq(Entry)
        /\ Len(s) = IF offset + 1 <= end THEN end - (offset + 1) + 1 ELSE 0
        /\ \A j \in 1 .. end - (offset + 1) + 1 : s[j] = r[offset + 1 + j - 1]
    BY <2>6, <2>7, SubSeqProperties
  <2> HIDE DEF s
  <2>9. Len(s) = end - offset
    BY <2>2, <2>8
  <2>10. ASSUME NEW j \in 1 .. end - offset PROVE p[j] = s[j]
    <3>1. /\ offset + j \in 1 .. Len(log) /\ offset + 1 + j - 1 = offset + j
          /\ Len(log) - (offset + j) + 1 = Len(log) + 1 - offset - j
          /\ j \in 1 .. end - (offset + 1) + 1
      BY <2>1, <2>2
    <3>2. s[j] = r[offset + j] /\ r[offset + j] = log[Len(log) + 1 - offset - j]
      BY <2>4, <2>8, <3>1
    <3>3. QED
      BY <2>3, <2>5, <3>2
  <2>11. p = s
    BY <2>3, <2>5, <2>8, <2>9, <2>10, SeqEqual
  <2>12. QED
    BY <2>11 DEF p, r, s
<1>2. LogInv => PagesTile
  BY <1>1 DEF PagesTile
<1>3. QED
  BY <1>2, LogInvariance, PTL

(***************************************************************************)
(* The parts together, as saved_import runs them.                          *)
(***************************************************************************)
\* A behaviour of all is one of each part.
LEMMA StoredParts == StoredSpec => Spec /\ LogSpec /\ ListSpec
<1>1. StoredInit => Init /\ LogInit /\ ListInit
  BY DEF StoredInit
<1>2. [StoredNext]_<<part, vars, logVars, listVars>>
        => [Next]_vars /\ [LogNext]_logVars /\ [ListNext]_listVars
  BY DEF StoredNext
<1>3. QED
  BY <1>1, <1>2, PTL DEF StoredSpec, Spec, LogSpec, ListSpec

\* What the parts keep beside the properties named above.
THEOREM StoredKept == StoredSpec => []StoredInv
<1>1. BucketInv /\ LogInv /\ PagesTile /\ ListInv /\ RowsOfDatabase => StoredInv
  BY DEF BucketInv, LogInv, ListInv, StoredInv
<1>2. QED
  BY <1>1, StoredParts, BucketInvariance, LogInvariance, PagesOfLog, ListInvariance,
     RowsAreOfDatabase, PTL
=============================================================================
