--------------------------- MODULE MCWsConnection ---------------------------
(* WsConnection as TLC runs it: the configurations give the constants.      *)
EXTENDS WsConnection, TLC

\* Ids and operation goroutines are interchangeable; used by the runs that
\* check no liveness.
Symmetry == Permutations(Ids) \cup Permutations(Tasks)
=============================================================================
