----------------------------- MODULE MCTabSync ------------------------------
(***************************************************************************)
(* Instances of TabSync for TLC; edits are interchangeable.                *)
(***************************************************************************)
EXTENDS TabSync, TLC

Symmetry == Permutations(Edits)
=============================================================================
