------------------------------- MODULE Filters ------------------------------
(***************************************************************************)
(* Array.prototype.filter, for the tabs of TabStore and the connections of *)
(* ConnectScreen.  It is SelectSeq, with a set for the test, written as a  *)
(* recursive function that FilterTheorems can reason about.                *)
(***************************************************************************)
EXTENDS Integers, Sequences

\* The elements of s that are in S, in their order.
Kept(s, S) ==
  LET upTo[i \in 0 .. Len(s)] ==
        IF i = 0 THEN <<>>
        ELSE IF s[i] \in S THEN Append(upTo[i - 1], s[i]) ELSE upTo[i - 1]
  IN upTo[Len(s)]
=============================================================================
