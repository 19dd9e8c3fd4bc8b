----------------------------- MODULE TreeViews ------------------------------
(***************************************************************************)
(* The two trees of the result area: the query plan, in                    *)
(* frontend/src/components/results/ExplainPlan.tsx, and the JSON value of  *)
(* a cell, in JsonbViewer.tsx.                                             *)
(*                                                                         *)
(* PostgreSQL sends a plan as lines of text; parsePlanLines makes a tree   *)
(* of them with a stack.  Whether a node is expanded is state of the       *)
(* component React keeps at its place: it survives a new plan with a node  *)
(* at that place, and is lost when a node above it is collapsed.           *)
(***************************************************************************)
EXTENDS Integers, Sequences, SequencesExt, FiniteSets

CONSTANTS
  Plans,      \* results of EXPLAIN: sequences of lines
  Documents   \* JSON values: the sets of the paths of their parts

\* A line: an arrow and how far it is indented, other text, or nothing.
Lines == [kind : {"arrow"}, indent : Nat] \cup [kind : {"text", "blank"}, indent : {0}]

ASSUME PlansAreLines == \A p \in Plans : p \in Seq(Lines)
ASSUME DocumentsHaveRoots ==
  \A d \in Documents :
    d \subseteq Seq(Nat) /\ <<>> \in d /\ \A p \in d : p = <<>> \/ Front(p) \in d

VARIABLES
  kind,   \* "plan" or "json", which decides what is expanded at first
  lines,  \* the rows of the result that is shown as a plan
  tree,   \* the paths of the nodes, each a sequence of places among siblings
  flipped \* the nodes whose expanded is not what it was at first

treeVars == <<kind, lines, tree, flipped>>

(***************************************************************************)
(* parsePlanLines.                                                         *)
(***************************************************************************)
\* The greatest of some numbers of lines or places, 0 if there is none.
Nearest(S) == IF S = {} THEN 0 ELSE CHOOSE j \in S : \A k \in S : k <= j

\* Pop until a parent with less indent is on top.
PopEqualToo(stack, indent) == SelectSeq(stack, LAMBDA e : e.indent <= indent)
PopTo(stack, indent) ==
  SubSeq(stack, 1, Nearest({k \in 1 .. Len(stack) : stack[k].indent < indent}))

Top(stack) == IF stack = << >> THEN 0 ELSE stack[Len(stack)].line

\* A node is named by its line; parent 0 is a root, owner is of a detail line, and
\* path has the places where children.map renders the node, each a child's index.
IsNode(s, line) == line.kind = "arrow" \/ (line.kind = "text" /\ s.stack = << >>)

AddNode(s, i, indent) ==
  LET stack == PopTo(s.stack, indent)
      above == IF stack = << >> THEN << >> ELSE s.path[Top(stack)]
      older == {j \in 1 .. i - 1 : s.parent[j] = Top(stack)}
  IN [stack  |-> Append(stack, [line |-> i, indent |-> indent]),
      parent |-> [s.parent EXCEPT ![i] = Top(stack)],
      owner  |-> s.owner,
      path   |-> [s.path EXCEPT ![i] = Append(above, Cardinality(older) + 1)]]

AddLine(s, i, line) ==
  IF IsNode(s, line) THEN AddNode(s, i, line.indent)
  ELSE IF line.kind = "text" THEN [s EXCEPT !.owner = [@ EXCEPT ![i] = Top(s.stack)]]
  ELSE s

NotOne == -1
Parse(p) ==
  LET none == [i \in 1 .. Len(p) |-> NotOne]
      loop[i \in 0 .. Len(p)] ==
        IF i = 0 THEN [stack |-> << >>, parent |-> none, owner |-> none,
                       path |-> [j \in 1 .. Len(p) |-> << >>]]
        ELSE AddLine(loop[i - 1], i, p[i])
  IN loop[Len(p)]

NodesOf(parsed) == {i \in DOMAIN parsed.parent : parsed.parent[i] # NotOne}

\* The places of the nodes: a component keeps its state at its path.
PathsOf(p) == LET parsed == Parse(p) IN {parsed.path[i] : i \in NodesOf(parsed)}

(***************************************************************************)
(* What is on the screen.                                                  *)
(***************************************************************************)
Above(q, p) == Len(q) < Len(p) /\ q = SubSeq(p, 1, Len(q))

\* useState(true) in a plan, useState(depth < 2) in a JSON value.
ExpandedAtFirst(p) == kind = "plan" \/ Len(p) < 2
Expanded(p) == ExpandedAtFirst(p) # (p \in flipped)

OnScreen == {p \in tree : \A q \in tree : Above(q, p) => Expanded(q)}
Inner == {p \in tree : \E q \in tree : Above(p, q)}

(***************************************************************************)
(* The components.                                                         *)
(***************************************************************************)
TreeInit == kind = "none" /\ lines = <<>> /\ tree = {} /\ flipped = {}

\* Another result, a plan too: what is at the same place keeps its state.
ShowPlan(p) ==
  /\ kind' = "plan" /\ lines' = p /\ tree' = PathsOf(p)
  /\ flipped' = IF kind = "plan" THEN flipped \cap tree' ELSE {}

\* A click on a cell of a grid with a JSON value opens a new dialog.
ShowJson(d) ==
  /\ kind = "none"
  /\ kind' = "json" /\ lines' = <<>> /\ tree' = d /\ flipped' = {}

\* Rows or an error instead of the plan; the dialog is closed.
Leave ==
  /\ kind # "none"
  /\ kind' = "none" /\ lines' = <<>> /\ tree' = {} /\ flipped' = {}

\* The chevron of a node with children.
Toggle(p) ==
  /\ p \in OnScreen \cap Inner
  /\ flipped' = {q \in IF p \in flipped THEN flipped \ {p} ELSE flipped \cup {p} : ~Above(p, q)}
  /\ UNCHANGED <<kind, lines, tree>>

TreeNext ==
  \/ \E p \in Plans : kind \in {"none", "plan"} /\ ShowPlan(p)
  \/ \E d \in Documents : ShowJson(d)
  \/ Leave
  \/ \E p \in tree : Toggle(p)

TreeSpec == TreeInit /\ [][TreeNext]_treeVars

(***************************************************************************)
(* Properties.                                                             *)
(***************************************************************************)
\* What is shown is of one kind, and a plan's tree is that of its lines.
TreeTypeOK ==
  /\ kind \in {"none", "plan", "json"}
  /\ lines \in Plans \cup {<< >>} /\ (kind # "plan" => lines = << >>)
  /\ kind = "none" => tree = {}
  /\ kind = "json" => tree \in Documents
  /\ kind = "plan" => tree = PathsOf(lines)

\* Of all lines with an arrow, the parent is the nearest line above with less
\* indent, whatever stood between them; a line without one belongs to the
\* nearest node above; and no line with text is lost (ExplainPlan.tsx:11-45).
PlanIsOutline ==
  LET parsed == Parse(lines)
      nodes  == NodesOf(parsed)
  IN \A i \in 1 .. Len(lines) :
       /\ i \in nodes => parsed.parent[i] =
            Nearest({j \in nodes : j < i /\ lines[j].indent < lines[i].indent})
       /\ lines[i].kind # "blank" /\ i \notin nodes =>
            parsed.owner[i] = Nearest({j \in nodes : j < i}) /\ parsed.owner[i] # 0

\* No two nodes of a plan are rendered at the same place, and every node but a
\* root has its parent above it (ExplainPlan.tsx:97-100, 144).
PlacesAreDistinct ==
  kind = "plan" =>
    /\ LET parsed == Parse(lines)
       IN \A i, j \in NodesOf(parsed) : parsed.path[i] = parsed.path[j] => i = j
    /\ \A p \in tree : Len(p) > 1 => Front(p) \in tree

\* Nobody has to look for state that cannot be seen: what differs from the first
\* rendering is on the screen, so that expanding a node shows what is below it
\* as it was at first (ExplainPlan.tsx:48, JsonbViewer.tsx:27).
OnlyVisibleFlipped == flipped \subseteq OnScreen
=============================================================================
