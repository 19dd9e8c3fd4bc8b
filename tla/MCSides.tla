------------------------------ MODULE MCSides -------------------------------
(***************************************************************************)
(* Instances for TLC of the components about the connection: QueryCache,   *)
(* ConnectScreen and SideLists.  They share no state in the models, so     *)
(* that a behaviour is one of one of them, the part, while the others stay *)
(* as they were rendered; where those have several initial states, one is  *)
(* fixed, or those that remain are permutations of one.                    *)
(***************************************************************************)
EXTENDS QueryCache, ConnectScreen, SideLists, TLC

CONSTANTS TextA, TextT  \* texts without a dot

VARIABLE part

Parts == {"cache", "connect", "lists"}

Obj(s, y, n) == [schema |-> s, type |-> y, name |-> n]

\* Dots in the name of a schema, of an object of another schema and of a public
\* one; a function with the name of a table; a database without the schema public.
MCCatalogues ==
  [first  |-> {Obj(<<Public>>, "tables", <<TextT>>),
               Obj(<<TextA>>, "materialized_views", <<TextT>>),
               Obj(<<TextA>>, "functions", <<TextT>>),
               Obj(<<TextA>>, "sequences", <<TextA>>),
               Obj(<<Public>>, "materialized_views", <<TextA, TextT>>)},
   second |-> {Obj(<<TextA, TextT>>, "materialized_views", <<TextT>>),
               Obj(<<TextA>>, "materialized_views", <<TextT, TextA>>)}]
MCSchemas == [first  |-> << <<TextA>>, <<Public>> >>,
              second |-> << <<TextA>>, <<TextA, TextT>> >>]

SidesInit ==
  /\ part \in Parts
  /\ Init /\ ConnectInit /\ SideInit
  /\ part # "connect" => server = NoUrl
  /\ part # "lists" => objectsOf = "first"

SidesNext ==
  /\ part' = part
  /\ \/ part = "cache" /\ Next /\ UNCHANGED <<connectVars, sideVars>>
     \/ part = "connect" /\ ConnectNext /\ UNCHANGED <<vars, sideVars>>
     \/ part = "lists" /\ SideNext /\ UNCHANGED <<vars, connectVars>>

SidesSpec == SidesInit /\ [][SidesNext]_<<part, vars, connectVars, sideVars>>

\* The databases that QueryCache switches between are interchangeable.
SidesSymmetry == Permutations(Databases)

\* The types, and what the parts keep beside the properties that the run names
\* one by one: the dialog only for pages that need it (App.tsx:15), a list of
\* connections without duplicates and without the one that is edited, and rows
\* of the sidebar that are of the shown schema, are read by the server under
\* their names, and highlight the open tab.
SidesInv ==
  /\ CacheInv
  /\ ConnectInv /\ DialogOnlyIfUnconnected /\ EditingUnsaved
  /\ SideTypeOK /\ TabOfRow /\ CachedUnderItsName
  /\ ReadsWhatWasClicked /\ HighlightNamesTab /\ ListIsOfShownSchema
=============================================================================
