---------------------------- MODULE MCQueryPanel ----------------------------
(***************************************************************************)
(* Instances of QueryPanel for TLC; calls and tabs are interchangeable.    *)
(***************************************************************************)
EXTENDS QueryPanel, TLC

Symmetry == Permutations(Runs) \cup Permutations(Tabs)
=============================================================================
