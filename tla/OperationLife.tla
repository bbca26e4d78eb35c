---------------------------- MODULE OperationLife ----------------------------
(***************************************************************************)
(* The life of one operation goroutine, as far as the rest of the          *)
(* connection depends on it: server_websocket.go, 270-303.  Operation is   *)
(* what goes on inside of it; WsConnection runs many of them and tells     *)
(* nothing of their inside.  That both implement this module shows that    *)
(* they are models of the same goroutine.                                  *)
(***************************************************************************)

VARIABLES
    protocol,
    place,     \* decoding, preparing, results, ending, leaving or over
    failure,   \* while it is ending: none, other, or event (an apollows.Error)
    executed,  \* ContextKeyOperationExecuted
    stopped,   \* ContextKeyOperationStopped, here or on the request
    canceled   \* its context is done

lifeVars == <<protocol, place, failure, executed, stopped, canceled>>

Init ==
    /\ protocol \in {"graphql-ws", "graphql-transport-ws"}
    /\ place = "decoding" /\ failure = "none"
    /\ executed = FALSE /\ stopped = FALSE /\ canceled = FALSE

\* The payload of the start message, which must be an operation.
Decode ==
    /\ place = "decoding"
    /\ \/ place' = "preparing" /\ UNCHANGED failure
       \/ /\ place' = "ending"
          /\ failure' = IF protocol = "graphql-transport-ws" THEN "event" ELSE "other"
    /\ UNCHANGED <<protocol, executed, stopped, canceled>>

\* Interceptors and parsing fail in any way, and before the operation counts
\* as executed; what is executed has results.
Prepare ==
    /\ place = "preparing"
    /\ \/ place' = "ending" /\ failure' \in {"none", "other", "event"} /\ UNCHANGED executed
       \/ place' = "results" /\ executed' = TRUE /\ UNCHANGED failure
    /\ UNCHANGED <<protocol, stopped, canceled>>

\* A result fails, or an interceptor after the results, in any way.
EndResults ==
    /\ place = "results"
    /\ place' = "ending" /\ failure' \in {"none", "other", "event"}
    /\ UNCHANGED <<protocol, executed, stopped, canceled>>

Reports == failure # "none" /\ ~executed

\* handleError for what was not executed; an error message marks it stopped.
Report ==
    /\ place = "ending"
    /\ place' = "leaving" /\ failure' = "none"
    /\ stopped' = (stopped \/ (Reports /\ failure = "other"))
    /\ UNCHANGED <<protocol, executed, canceled>>

\* It releases its context before it leaves the table.
Leave ==
    /\ place = "leaving"
    /\ place' = "over" /\ canceled' = TRUE
    /\ UNCHANGED <<protocol, failure, executed, stopped>>

\* A stop, and the end of the connection or of the request, come at any time;
\* neither is ever taken back.
Environment ==
    /\ stopped' \in {stopped, TRUE} /\ canceled' \in {canceled, TRUE}
    /\ UNCHANGED <<protocol, place, failure, executed>>

Next == Decode \/ Prepare \/ EndResults \/ Report \/ Leave \/ Environment

Spec == Init /\ [][Next]_lifeVars
==============================================================================
