---------------------------- MODULE MCOperation -----------------------------
(* Operation as TLC runs it.                                                *)
EXTENDS Operation

CONSTANTS e1, e2, e3, n1, n2

ThreeInOrder == <<e1, e2, e3>>

\* Two of the three extensions have the same name.
SharedName == [e \in {e1, e2, e3} |-> IF e = e2 THEN n2 ELSE n1]
=============================================================================
