----------------------------- MODULE MCShutdown -----------------------------
(***************************************************************************)
(* Instances of Shutdown for TLC; processes and requests are               *)
(* interchangeable.                                                        *)
(***************************************************************************)
EXTENDS Shutdown, TLC

Symmetry == Permutations(Procs) \cup Permutations(Requests)
=============================================================================
