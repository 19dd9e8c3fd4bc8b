------------------------------ MODULE MCPanel -------------------------------
(***************************************************************************)
(* Instances for TLC of the components below TabPanel: QueryPanel and      *)
(* EditorPanel (what a query tab runs and shows), AiPanel, TableView, and  *)
(* TreeViews.  They share no state in the models, so that a behaviour is   *)
(* one of one of them, the part, while the others stay as they were        *)
(* rendered; where those have several initial states, one is fixed.        *)
(***************************************************************************)
EXTENDS QueryPanel, EditorPanel, AiPanel, TableView, TreeViews

CONSTANTS Orders, Countries

VARIABLE part

Parts == {"calls", "editor", "ai", "table", "tree"}

\* Eight rows take one page of any size, twenty-one take three of the smallest or
\* two of the others.
MCRowCount == [t \in Tables |-> IF t = Orders THEN 21 ELSE 8]

PlanLine(k, n) == [kind |-> k, indent |-> n]
PlanLines == {PlanLine("arrow", n) : n \in {2, 4, 8}} \cup {PlanLine("text", 0)}

\* Up to three rows below a plan's first, and a blank row before it.
MCPlans ==
  {<<PlanLine("text", 0)>> \o rest : rest \in UNION {[1 .. n -> PlanLines] : n \in 0 .. 3}}
  \cup {<<PlanLine("blank", 0), PlanLine("text", 0), PlanLine("arrow", 2)>>}

\* A document without members, and one nested four deep.
MCDocuments ==
  {{<<>>}, {<<>>, <<1>>, <<1, 1>>, <<1, 1, 1>>, <<1, 1, 1, 1>>, <<2>>}}

AnyOf(S) == CHOOSE x \in S : TRUE

PanelInit ==
  /\ part \in Parts
  /\ Init /\ EditorInit /\ AiInit /\ TableInit /\ TreeInit
  /\ part # "calls" => active = AnyOf(Tabs) /\ tabOf = [r \in Runs |-> AnyOf(Tabs)]
  /\ part # "editor" => front = AnyOf(EditorTabs)
  /\ part # "ai" => seen = NoTab
  /\ part # "table" => height = AnyOf(Heights)

PanelNext ==
  /\ part' = part
  /\ \/ part = "calls" /\ Next /\ UNCHANGED <<editorVars, aiVars, tableVars, treeVars>>
     \/ part = "editor" /\ EditorNext /\ UNCHANGED <<vars, aiVars, tableVars, treeVars>>
     \/ part = "ai" /\ AiNext /\ UNCHANGED <<vars, editorVars, tableVars, treeVars>>
     \/ part = "table" /\ TableNext /\ UNCHANGED <<vars, editorVars, aiVars, treeVars>>
     \/ part = "tree" /\ TreeNext /\ UNCHANGED <<vars, editorVars, aiVars, tableVars>>

PanelSpec == PanelInit /\ [][PanelNext]_<<part, vars, editorVars, aiVars, tableVars, treeVars>>

\* Bound: what lies over the grid, and the views of facts, are explored with two
\* requests for rows that are under way or answered, three and four with neither.
FewAtOnce ==
  Cardinality(asked) + Cardinality(cached) > 2 =>
    ~detail /\ ~menu /\ timers = 0 /\ facts = {}

\* The types, and what the parts of the panel keep at every moment beside the
\* properties that the run names one by one: no error under a newer question
\* (AiChatPanel.tsx:147), one overlay over the grid, no late error in front of rows
\* that are there, no two nodes of a plan at one place.
PanelInv ==
  /\ IndInv /\ EditorTypeOK /\ TitleIsOfTab
  /\ AiTypeOK /\ ContextStays /\ ErrorOfNewestQuestion
  /\ TableTypeOK /\ CachedUnderItsKey /\ GridFits
  /\ OneOverlay /\ FailedIsUnsettled /\ CopiedMarkLasts
  /\ TreeTypeOK /\ PlacesAreDistinct /\ OnlyVisibleFlipped
=============================================================================
