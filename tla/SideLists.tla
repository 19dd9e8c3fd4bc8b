----------------------------- MODULE SideLists ------------------------------
(***************************************************************************)
(* The sidebar's list of objects (components/layout/Sidebar.tsx), what a   *)
(* click in it makes the server read (splitTableName of pkg/client and     *)
(* splitQualifiedName of pkg/api), and the columns the SQL editor completes*)
(* from what was read (components/editor/autocomplete.ts).                 *)
(*                                                                         *)
(* All three pass a schema and a name around as one text.  A name is       *)
(* modelled by its parts between dots, all but a few names having one: the *)
(* text "a.b" is <<a, b>>.  Of the tabs only the active one is looked at,  *)
(* TabStore has them all; of a switch of the database, that the answers to *)
(* the list of schemas and to the list of objects change, one by one.      *)
(***************************************************************************)
EXTENDS Naturals, Sequences

CONSTANTS
  Catalogues,  \* per database, what is in it
  Schemas,     \* per database, the names of its schemas in order
  Public,      \* the text "public"
  NoText,      \* the empty search
  NoTab,       \* the active tab shows no object
  NotRead      \* nothing in the cache

CatalogueDbs == DOMAIN Catalogues
AllObjects   == UNION {Catalogues[d] : d \in CatalogueDbs}

\* Tables and views, functions, and what the sidebar only lists.
TableLike  == {"tables", "views", "materialized_views"}
ListTypes  == TableLike \cup {"functions", "sequences", "types"}
PartsOf(n) == {n[i] : i \in DOMAIN n}
SearchTexts == UNION {PartsOf(o.name) : o \in AllObjects}

NameParts   == {Public} \cup UNION {PartsOf(o.schema) \cup PartsOf(o.name) : o \in AllObjects}

\* Client.Objects fails as a whole for a table or a view whose names have a dot:
\* it casts them, put together, to regclass.
ASSUME ObjectsTyped ==
  \A o \in AllObjects : /\ o.type \in ListTypes
                        /\ {o.schema, o.name} \subseteq Seq(NameParts) \ {<<>>}
                        /\ o.type \in {"tables", "views"} => Len(o.schema) = 1 /\ Len(o.name) = 1
\* The role may use every schema it finds something in: Client.Schemas lists only
\* those, Client.Objects what is in others too.
ASSUME SchemasListed ==
  \A d \in CatalogueDbs : \A o \in Catalogues[d] : o.schema \in PartsOf(Schemas[d])
\* Functions aside, a schema has no two objects of one name.
ASSUME NamesDiffer ==
  \A d \in CatalogueDbs : \A o, p \in Catalogues[d] :
    o.schema = p.schema /\ o.name = p.name /\ o.type # "functions" /\ p.type # "functions"
      => o = p

\* What the parser makes of a name is never the mark of an empty cache.
ASSUME NotReadDistinct == NotRead \notin [schema : Seq(NameParts), name : Seq(NameParts)]

VARIABLES
  objectsOf,       \* the database whose objects are listed
  schemasOf,       \* the database whose schemas the selector offers
  selectedSchema,  \* schema of the list
  search,          \* the filter
  collapsed,       \* the groups that are folded, schema and type
  section,         \* objects, saved or history
  openTab,         \* type and name of the active tab; of: the object it was opened for
  columns          \* per name, the table whose columns are cached under it

sideVars == <<objectsOf, schemasOf, selectedSchema, search, collapsed, section, openTab,
              columns>>

(***************************************************************************)
(* Names.                                                                  *)
(***************************************************************************)
QualifiedName(o) == IF o.schema = <<Public>> THEN o.name ELSE o.schema \o o.name

\* Faulty: the name is what follows the last dot, as in most other places.
SplitAtLastDot(name) ==
  IF Len(name) = 1 THEN [schema |-> <<Public>>, name |-> name]
  ELSE [schema |-> SubSeq(name, 1, Len(name) - 1), name |-> <<name[Len(name)]>>]

\* splitTableName, splitQualifiedName: what follows the first dot.
SplitName(name) ==
  IF Len(name) = 1 THEN [schema |-> <<Public>>, name |-> name]
  ELSE [schema |-> <<name[1]>>, name |-> Tail(name)]

\* Names that survive: no dot in the schema's, nor in that of a public object.
Plain(o) == Len(o.schema) = 1 /\ (o.schema = <<Public>> => Len(o.name) = 1)

TableNames == {QualifiedName(o) : o \in {p \in AllObjects : p.type \in TableLike}}
ReadTables == {SplitName(n) : n \in TableNames}

(***************************************************************************)
(* The list.                                                               *)
(***************************************************************************)
InGroup(o) == o.schema = selectedSchema

\* Rows of filteredGroups whose group is not folded.
Rows == {o \in Catalogues[objectsOf] :
           /\ InGroup(o)
           /\ search = NoText \/ search \in PartsOf(o.name)
           /\ <<o.schema, o.type>> \notin collapsed}

\* isActive: the row is highlighted.
IsActive(o) ==
  /\ openTab # NoTab /\ openTab.name = QualifiedName(o)
  /\ \/ openTab.type = "table" /\ o.type \in TableLike
     \/ openTab.type = "function" /\ o.type = "functions"

\* A select whose value none of its options has shows the first of them.
Shown == IF selectedSchema \in PartsOf(Schemas[schemasOf]) THEN selectedSchema
         ELSE Schemas[schemasOf][1]

SideInit ==
  /\ objectsOf \in CatalogueDbs /\ schemasOf = objectsOf
  /\ selectedSchema = <<Public>>
  /\ search = NoText
  /\ collapsed = {}
  /\ section = "objects"
  /\ openTab = NoTab
  /\ columns = [n \in TableNames |-> NotRead]

ObjectsAnswered(d) ==
  /\ objectsOf' = d
  /\ UNCHANGED <<schemasOf, selectedSchema, search, collapsed, section, openTab, columns>>

SchemasAnswered(d) ==
  /\ schemasOf' = d
  /\ UNCHANGED <<objectsOf, selectedSchema, search, collapsed, section, openTab, columns>>

\* The heads of the sections; Ctrl+O of AppShell, which shows saved from anywhere.
SetSection(s) ==
  /\ section' = s
  /\ UNCHANGED <<objectsOf, schemasOf, selectedSchema, search, collapsed, openTab, columns>>

\* The browser reports a choice only if it differs from what it shows.
SelectSchema(s) ==
  /\ section = "objects" /\ s # Shown
  /\ selectedSchema' = s
  /\ UNCHANGED <<objectsOf, schemasOf, search, collapsed, section, openTab, columns>>

TypeSearch(text) ==
  /\ section = "objects"
  /\ search' = text
  /\ UNCHANGED <<objectsOf, schemasOf, selectedSchema, collapsed, section, openTab, columns>>

\* The head of the group of o, which is shown as long as the filter leaves a row.
ToggleGroup(o) ==
  /\ section = "objects"
  /\ LET group == <<o.schema, o.type>> IN
     collapsed' = IF group \in collapsed THEN collapsed \ {group} ELSE collapsed \cup {group}
  /\ UNCHANGED <<objectsOf, schemasOf, selectedSchema, search, section, openTab, columns>>

Heads == {o \in Catalogues[objectsOf] :
            InGroup(o) /\ (search = NoText \/ search \in PartsOf(o.name))}

\* A click or a double click on a row; sequences and types are not browsable.
ClickRow(o) ==
  /\ section = "objects" /\ o \in Rows
  /\ o.type \in TableLike \cup {"functions"}
  /\ openTab' = [type |-> IF o.type = "functions" THEN "function" ELSE "table",
                 name |-> QualifiedName(o), of |-> o]
  /\ UNCHANGED <<objectsOf, schemasOf, selectedSchema, search, collapsed, section, columns>>

\* Another tab, of a query, is activated.
LeaveObject ==
  /\ openTab' = NoTab
  /\ UNCHANGED <<objectsOf, schemasOf, selectedSchema, search, collapsed, section, columns>>

\* useTableColumns of the TableBrowser on the screen: cached for good.
ColumnsAnswered ==
  /\ openTab # NoTab /\ openTab.type = "table"
  /\ columns' = [columns EXCEPT ![openTab.name] = SplitName(openTab.name)]
  /\ UNCHANGED <<objectsOf, schemasOf, selectedSchema, search, collapsed, section, openTab>>

SideNext ==
  \/ \E d \in CatalogueDbs : ObjectsAnswered(d) \/ SchemasAnswered(d)
  \/ \E s \in {"objects", "saved", "history"} : SetSection(s)
  \/ \E s \in PartsOf(Schemas[schemasOf]) : SelectSchema(s)
  \/ \E t \in SearchTexts \cup {NoText} : TypeSearch(t)
  \/ \E o \in Heads : ToggleGroup(o)
  \/ \E o \in Rows : ClickRow(o)
  \/ LeaveObject
  \/ ColumnsAnswered

SideSpec == SideInit /\ [][SideNext]_sideVars

(***************************************************************************)
(* Completion: the references after FROM and JOIN have one part or two.    *)
(***************************************************************************)
References == {n \in TableNames \cup {<<Public>> \o m : m \in TableNames} : Len(n) <= 2}
Meant(ref) == SplitName(ref)  \* PostgreSQL, with the default search path

\* Faulty: the second lookup is by the bare name of the table.
LookupByTable(ref) == {ref, <<ref[Len(ref)]>>}

\* The cache keys tried: as it is written, then schema.table.
LookupNames(ref) == {ref, IF Len(ref) = 1 THEN <<Public>> \o ref ELSE ref}

Offered(ref) ==
  {columns[n] : n \in LookupNames(ref) \cap DOMAIN columns} \ {NotRead}

(***************************************************************************)
(* Properties.                                                             *)
(***************************************************************************)
\* Types; a table tab is opened for what the server can read as a table.
SideTypeOK ==
  /\ objectsOf \in CatalogueDbs /\ schemasOf \in CatalogueDbs
  /\ selectedSchema \in {<<Public>>} \cup UNION {PartsOf(Schemas[d]) : d \in CatalogueDbs}
  /\ search \in SearchTexts \cup {NoText}
  /\ collapsed \subseteq {<<o.schema, o.type>> : o \in AllObjects}
  /\ section \in {"objects", "saved", "history"}
  /\ openTab # NoTab /\ openTab.type = "table" => openTab.name \in TableNames
  /\ columns \in [TableNames -> ReadTables \cup {NotRead}]

\* The active tab of an object has the name and the type of a row that was clicked:
\* why the server reads what it does, and the row is found again.
TabOfRow ==
  openTab # NoTab =>
    /\ openTab.of \in AllObjects /\ openTab.of.type \in TableLike \cup {"functions"}
    /\ openTab.type = IF openTab.of.type = "functions" THEN "function" ELSE "table"
    /\ openTab.name = QualifiedName(openTab.of)

\* The server reads the object that was clicked, if and only if its name
\* survives being written with dots: splitTableName (client.go:650) undoes the
\* qualifiedName of Sidebar.tsx:176 except for a dot in the schema or in the
\* name of a public object.
ReadsWhatWasClicked ==
  openTab # NoTab =>
    (SplitName(openTab.name) = [schema |-> openTab.of.schema, name |-> openTab.of.name]
       <=> Plain(openTab.of))

\* The highlighted row is the object that the active tab reads (Sidebar.tsx:177),
\* whatever schema, filter, folding or database the list has come to since; and
\* the row that was clicked is highlighted whenever it is listed again.
HighlightNamesTab ==
  \A o \in Rows :
    /\ IsActive(o) /\ Plain(o) =>
         SplitName(openTab.name) = [schema |-> o.schema, name |-> o.name]
    /\ openTab # NoTab /\ openTab.of = o => IsActive(o)

\* Once both lists are of one database, the rows are of the schema that the
\* selector shows, also when that is not the one that is selected because the
\* database has none of its name (Sidebar.tsx:46 and 66): then there are none.
ListIsOfShownSchema ==
  objectsOf = schemasOf => \A o \in Rows : o.schema = Shown

\* A key of the cache has the columns of the table it is split into.
CachedUnderItsName ==
  /\ DOMAIN columns = TableNames
  /\ \A n \in TableNames : columns[n] \in {SplitName(n), NotRead}

\* The columns offered after a reference are of the table it names, although
\* they are cached under the names of the sidebar (autocomplete.ts:139); and the
\* columns of an open table are found by its reference, unless that spells out
\* the schema public.
ColumnsAreOfReference ==
  \A ref \in References :
    /\ Offered(ref) \subseteq {Meant(ref)}
    /\ Meant(ref) \in {columns[n] : n \in TableNames} =>
         Meant(ref) \in Offered(ref) \/ ref[1] = Public
=============================================================================
