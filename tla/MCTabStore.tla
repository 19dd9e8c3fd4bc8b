----------------------------- MODULE MCTabStore -----------------------------
(***************************************************************************)
(* Instances of TabStore for TLC: identifiers and names are compared only  *)
(* for equality, so permuting them is a symmetry.                          *)
(***************************************************************************)
EXTENDS TabStore

Symmetry == Permutations(TabIds) \cup Permutations(Tables) \cup Permutations(Functions)
=============================================================================
