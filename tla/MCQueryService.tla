--------------------------- MODULE MCQueryService ---------------------------
(***************************************************************************)
(* Instances of QueryService for TLC.  Requests, tabs, databases and       *)
(* operations are interchangeable: the specification compares them only    *)
(* for equality, so the safety runs may identify states that differ by a   *)
(* permutation.                                                            *)
(***************************************************************************)
EXTENDS QueryService, TLC

Symmetry == Permutations(Requests) \cup Permutations(Tabs)
            \cup Permutations(Databases) \cup Permutations(Ops)
=============================================================================
