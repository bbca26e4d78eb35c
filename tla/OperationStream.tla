--------------------------- MODULE OperationStream ---------------------------
(***************************************************************************)
(* What a client is promised about the operations of one connection,       *)
(* whatever goroutines and channels serve it: apollows/proto.go, 39-83 and *)
(* the comments of the error codes, 158-172.                               *)
(*                                                                         *)
(*   - an id belongs to one live operation at a time, and what the client  *)
(*     receives under an id is never a mix of two of its operations;       *)
(*   - per operation it sees data*, then how the operation ended, then     *)
(*     silence;                                                            *)
(*   - no operation ends silently, unless the connection was lost or the   *)
(*     client of graphql-transport-ws stopped it itself.                   *)
(***************************************************************************)
EXTENDS Sequences

CONSTANTS Protocols, Ids, Tasks, NoTask

VARIABLES
    protocol,
    phase,      \* new, live, draining (over, messages under way) or closed
    idOf,
    stopped,    \* stopped by the client or by its own error
    lost,       \* websocket or request gone: the end may go untold
    delivered   \* kinds the client received, repeated data once

streamVars == <<protocol, phase, idOf, stopped, lost, delivered>>

Init ==
    /\ protocol \in Protocols
    /\ phase = [t \in Tasks |-> "new"]
    /\ idOf = [t \in Tasks |-> NoTask]
    /\ stopped = [t \in Tasks |-> FALSE]
    /\ lost = FALSE
    /\ delivered = [t \in Tasks |-> <<>>]

LastOf(s) == IF s = <<>> THEN "nothing" ELSE s[Len(s)]

\* What may be received of an operation after s.  graphql-ws sends complete
\* after an error, graphql-transport-ws does not.
MayFollow(s, k) ==
    \/ k = "data" /\ LastOf(s) \in {"nothing", "data"}
    \/ k \in {"error", "connection_error"} /\ LastOf(s) = "nothing"
    \/ k = "complete" /\ LastOf(s) \in {"nothing", "data"}
    \/ k = "complete" /\ LastOf(s) = "error" /\ protocol = "graphql-ws"

Extended(s, k) == IF k = "data" /\ LastOf(s) = "data" THEN s ELSE Append(s, k)

Over(s) == \/ LastOf(s) = "complete"
           \/ LastOf(s) = "error" /\ protocol = "graphql-transport-ws"

Namesakes(t) == {u \in Tasks \ {t} : idOf[u] = idOf[t]}

Begin(t, i) ==
    /\ phase[t] = "new"
    /\ \A u \in Tasks : phase[u] = "live" => idOf[u] # i
    /\ phase' = [phase EXCEPT ![t] = "live"]
    /\ idOf' = [idOf EXCEPT ![t] = i]
    /\ UNCHANGED <<protocol, stopped, lost, delivered>>

Stop(t) ==
    /\ phase[t] # "new"
    /\ stopped' = [stopped EXCEPT ![t] = TRUE]
    /\ UNCHANGED <<protocol, phase, idOf, lost, delivered>>

\* The end of an operation must have been told, or be nobody's to tell.
MayClose(t) ==
    \/ Over(delivered'[t])
    \/ lost'
    \/ stopped[t] /\ protocol = "graphql-transport-ws"

Settle(t) ==
    \/ UNCHANGED phase
    \/ /\ phase[t] = "live"
       /\ phase' = [phase EXCEPT ![t] = "draining"]
    \/ /\ phase[t] \in {"live", "draining"} /\ MayClose(t)
       /\ phase' = [phase EXCEPT ![t] = "closed"]

\* A live operation is heard only after its predecessors under the same id
\* are done with, and no operation is heard again after its successor was.
InTurn(t) ==
    \A u \in Namesakes(t) :
        phase[u] \in {"live", "draining"} =>
            /\ delivered[u] = <<>>
            /\ phase[t] = "live" => phase[u] # "draining"

Deliver(t, k) ==
    /\ phase[t] \in {"live", "draining"}
    /\ InTurn(t) /\ MayFollow(delivered[t], k)
    /\ delivered' = [delivered EXCEPT ![t] = Extended(@, k)]
    /\ Settle(t)
    /\ UNCHANGED <<protocol, idOf, stopped, lost>>

End(t) ==
    /\ lost' \in {lost, TRUE}
    /\ Settle(t)
    /\ UNCHANGED <<protocol, idOf, stopped, delivered>>

Next == \E t \in Tasks :
    \/ \E i \in Ids : Begin(t, i)
    \/ Stop(t) \/ End(t)
    \/ \E k \in {"data", "error", "connection_error", "complete"} : Deliver(t, k)

Spec == Init /\ [][Next]_streamVars
=============================================================================
