--------------------------- MODULE MCPlainRequest ---------------------------
(* PlainRequest as TLC runs it.                                             *)
EXTENDS PlainRequest

\* No callback, all of them, those of the results, and those around the request
\* and the operation.
AllHookSets ==
    {{}, Hooks, {"OnOperationResult", "OnOperationDone"},
     {"OnRequest", "OnRequestDone", "OnOperation", "OnOperationDone"}}

ResultHooks == {{"OnOperationResult", "OnOperationDone"}}
=============================================================================
