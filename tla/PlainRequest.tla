---------------------------- MODULE PlainRequest ----------------------------
(***************************************************************************)
(* One HTTP request, from ServeHTTP to its return: server.go,              *)
(* server_plain.go, the default interceptors, the legacy callbacks         *)
(* (callbacks.go) and WriteError.  Beside the handler run the source of    *)
(* the results (graphql-go), the goroutine that relays them through        *)
(* OnOperationResult, and the client, who may leave.  Of a request that is *)
(* upgraded to a websocket this is the outside: what goes on in the        *)
(* connection is WsConnection.                                             *)
(***************************************************************************)
EXTENDS Naturals, Sequences, FiniteSets

CONSTANTS
    HookSets,    \* the sets of callbacks an application may set
    MaxResults   \* bounds the results of a subscription

Hooks == {"OnRequest", "OnRequestDone", "OnConnect", "OnDisconnect", "OnOperation",
          "OnOperationValidation", "OnOperationResult", "OnOperationDone"}

ASSUME HookAssumption == HookSets \subseteq SUBSET Hooks
ASSUME ResultAssumption == MaxResults \in Nat \ {0}

VARIABLES
    conf,       \* the server's options and the request, fixed
    pc,         \* where the handler is
    failed,     \* err # nil at this point of the handler
    trace,      \* history: the callbacks called
    bodies,     \* history: what the client was sent
    declared,   \* a content-length header was set
    started,    \* ContextKeyHTTPResponseStarted of the request context
    opctx,      \* the operation context: none, live or canceled
    gone,       \* the client left: r.Context() is done, or the websocket gone
    produced,   \* results produced so far
    waiting,    \* a produced result waits in the results channel
    ended,      \* the results channel is closed, or not made yet
    relay,      \* the OnOperationResult goroutine
    relayed     \* the number of the result it holds

flowVars == <<conf, failed, trace, opctx, gone>>
respVars == <<bodies, declared, started>>
srcVars  == <<produced, waiting, ended, relay, relayed>>
vars == <<flowVars, pc, respVars, srcVars>>

\* upgrade: the request asks for one, and the server has an upgrader.
Configurations ==
    [hooks : HookSets, upgrade : BOOLEAN, rejects : BOOLEAN,
     subscription : BOOLEAN, flushes : BOOLEAN]

Init ==
    /\ conf \in Configurations
    /\ pc = "onRequest"
    /\ failed = FALSE
    /\ trace = <<>>
    /\ bodies = <<>>
    /\ declared = FALSE /\ started = FALSE
    /\ opctx = "none"
    /\ gone = FALSE
    /\ produced = 0 /\ waiting = FALSE /\ ended = TRUE
    /\ relay = "off" /\ relayed = 0

Goto(l) == pc' = l

\* Without WithCallbacks the default interceptors do what no callback does.
\* A callback that is not set changes nothing and does not fail.
Call(h) == trace' = IF h \in conf.hooks THEN Append(trace, h) ELSE trace
MayFail(h) == IF h \in conf.hooks THEN BOOLEAN ELSE {FALSE}

\* The error a callback returns in place of the one it was given.
Replaces(h) == IF h \in conf.hooks THEN BOOLEAN ELSE {failed}

-----------------------------------------------------------------------------
(* The handler, up to the execution of the operation.                      *)

\* legacyCallbackHTTPRequest, before the handler.
OnRequest ==
    /\ pc = "onRequest"
    /\ Call("OnRequest")
    /\ failed' \in MayFail("OnRequest")
    /\ Goto(IF failed' THEN "requestDone" ELSE "route")
    /\ UNCHANGED <<conf, opctx, gone, respVars, srcVars>>

\* WithoutHTTPQueries refuses what is not upgraded.
Route ==
    /\ pc = "route"
    /\ failed' = (conf.rejects /\ ~conf.upgrade)
    /\ Goto(CASE conf.upgrade -> "upgrade" [] failed' -> "requestDone" [] OTHER -> "onConnect")
    /\ UNCHANGED <<conf, trace, opctx, gone, respVars, srcVars>>

Reply(kind) == [kind |-> kind, n |-> 0]

\* The upgrader refused, and may have answered the request itself.
UpgradeFails ==
    /\ pc = "upgrade"
    /\ failed' = TRUE
    /\ bodies' \in {bodies} \cup (IF gone THEN {} ELSE {<<Reply("upgrader")>>})
    /\ Goto("requestDone")
    /\ UNCHANGED <<conf, trace, opctx, gone, declared, started, srcVars>>

\* The response is the upgrader's from here on.  A websocket of no known
\* subprotocol is closed; on another one the client may send connection_init
\* or not.
Upgrade ==
    /\ pc = "upgrade"
    /\ started' = TRUE
    /\ \/ /\ failed' = TRUE
          /\ bodies' = <<Reply("switching"), Reply("close")>>
          /\ Goto("requestDone")
       \/ /\ failed' = FALSE
          /\ bodies' = <<Reply("switching")>>
          /\ pc' \in {"onConnect", "connected"}
    /\ UNCHANGED <<conf, trace, opctx, gone, declared, srcVars>>

\* legacyCallbackInit, called here or by the reader of the websocket:
\* OnDisconnect is called on the way out of the initialisation, and what it
\* returns stands for what OnConnect returned.
OnConnect ==
    /\ pc = "onConnect"
    /\ Call("OnConnect")
    /\ failed' \in MayFail("OnConnect")
    /\ Goto("onDisconnect")
    /\ UNCHANGED <<conf, opctx, gone, respVars, srcVars>>

OnDisconnect ==
    /\ pc = "onDisconnect"
    /\ Call("OnDisconnect")
    /\ failed' \in Replaces("OnDisconnect")
    /\ Goto(CASE conf.upgrade -> "connected" [] failed' -> "requestDone" [] OTHER -> "decode")
    /\ UNCHANGED <<conf, opctx, gone, respVars, srcVars>>

\* serveWebsocketRequest returns what its last write returned.
ConnectionEnds ==
    /\ pc = "connected"
    /\ failed' \in BOOLEAN
    /\ Goto("requestDone")
    /\ UNCHANGED <<conf, trace, opctx, gone, respVars, srcVars>>

Decode ==
    /\ pc = "decode"
    /\ failed' \in BOOLEAN
    /\ IF failed' THEN Goto("requestDone") /\ UNCHANGED opctx
                  ELSE Goto("onOperation") /\ opctx' = "live"
    /\ UNCHANGED <<conf, trace, gone, respVars, srcVars>>

OnOperation_NoDone ==
    /\ pc = "onOperation"
    /\ Call("OnOperation")
    /\ failed' \in MayFail("OnOperation")
    /\ Goto(IF failed' THEN "cancelOperation" ELSE "parse")
    /\ UNCHANGED <<conf, opctx, gone, respVars, srcVars>>

OnOperation_Returns ==
    /\ pc = "onOperation"
    /\ Call("OnOperation")
    /\ failed' \in MayFail("OnOperation")
    /\ Goto(IF failed' THEN "requestDone" ELSE "parse")
    /\ UNCHANGED <<conf, opctx, gone, respVars, srcVars>>

\* legacyCallbackOperation: OnOperationDone follows even if this fails.
OnOperation ==
    /\ pc = "onOperation"
    /\ Call("OnOperation")
    /\ failed' \in MayFail("OnOperation")
    /\ Goto(IF failed' THEN "operationDone" ELSE "parse")
    /\ UNCHANGED <<conf, opctx, gone, respVars, srcVars>>

\* legacyCallbackOperationParse: validation is told of the failure too.
Parse ==
    /\ pc = "parse"
    /\ \E invalid \in BOOLEAN, rejected \in MayFail("OnOperationValidation") :
          failed' = (invalid \/ rejected)
    /\ Call("OnOperationValidation")
    /\ Goto(IF failed' THEN "operationDone" ELSE "execute")
    /\ UNCHANGED <<conf, opctx, gone, respVars, srcVars>>

Execute_MarksStarted ==
    /\ pc = "execute"
    /\ \/ failed' = TRUE /\ Goto("operationDone") /\ started' = TRUE /\ UNCHANGED srcVars
       \/ /\ Goto("results")
          /\ relay' = IF "OnOperationResult" \in conf.hooks THEN "receiving" ELSE "off"
          /\ produced' = IF conf.subscription THEN 0 ELSE 1
          /\ waiting' = ~conf.subscription
          /\ ended' = ~conf.subscription
          /\ UNCHANGED <<failed, started, relayed>>
    /\ UNCHANGED <<conf, trace, opctx, gone, bodies, declared>>

\* An interceptor of the application may refuse the execution.  A query is
\* executed here and leaves its one result in a closed channel.
Execute ==
    /\ pc = "execute"
    /\ \/ failed' = TRUE /\ Goto("operationDone") /\ UNCHANGED srcVars
       \/ /\ Goto("results")
          /\ relay' = IF "OnOperationResult" \in conf.hooks THEN "receiving" ELSE "off"
          /\ produced' = IF conf.subscription THEN 0 ELSE 1
          /\ waiting' = ~conf.subscription
          /\ ended' = ~conf.subscription
          /\ UNCHANGED <<failed, relayed>>
    /\ UNCHANGED <<conf, trace, opctx, gone, respVars>>

-----------------------------------------------------------------------------
(* The results of a subscription, and the goroutine that relays results.   *)

\* graphql.ExecuteSubscription's goroutine: it produces into an unbuffered
\* channel, whoever reads it, and closes it when the stream ends.
Produce ==
    /\ ~waiting /\ ~ended
    /\ produced < MaxResults
    /\ produced' = produced + 1
    /\ waiting' = TRUE
    /\ UNCHANGED <<flowVars, pc, respVars, ended, relay, relayed>>

EndSource ==
    /\ ~waiting /\ ~ended
    /\ ended' = TRUE
    /\ UNCHANGED <<flowVars, pc, respVars, produced, waiting, relay, relayed>>

Relay_Eager ==
    /\ relay \in {"receiving", "sending"} /\ waiting
    /\ waiting' = FALSE
    /\ Call("OnOperationResult")
    /\ relay' \in {"sending", "failing"}
    /\ relayed' = produced
    /\ UNCHANGED <<conf, failed, opctx, gone, pc, respVars, produced, ended>>

\* OnOperationResult may refuse a result: its error is sent instead, and the
\* goroutine ends.
Relay ==
    /\ relay = "receiving" /\ waiting
    /\ waiting' = FALSE
    /\ Call("OnOperationResult")
    /\ relay' \in {"sending", "failing"}
    /\ relayed' = produced
    /\ UNCHANGED <<conf, failed, opctx, gone, pc, respVars, produced, ended>>

RelayEnds ==
    /\ relay = "receiving" /\ ended /\ ~waiting
    /\ relay' = "exited"
    /\ UNCHANGED <<flowVars, pc, respVars, produced, waiting, ended, relayed>>

-----------------------------------------------------------------------------
(* processResults and writePlainResult.                                    *)

\* What the handler can receive: from the source, or from the relay.
Receivable == IF relay = "off" THEN waiting ELSE relay \in {"sending", "failing"}
Exhausted  == IF relay = "off" THEN ended /\ ~waiting ELSE relay = "exited"
Received ==
    CASE relay = "off"     -> [kind |-> "result", n |-> produced]
      [] relay = "failing" -> [kind |-> "refusal", n |-> relayed]
      [] OTHER             -> [kind |-> "result", n |-> relayed]

Consume ==
    IF relay = "off" THEN waiting' = FALSE /\ UNCHANGED relay
    ELSE /\ relay' = IF relay = "sending" THEN "receiving" ELSE "exited"
         /\ UNCHANGED waiting

\* A subscription is flushed result by result; else the first result sets
\* the content-length of the whole response, which net/http then enforces.
Declares == ~started /\ ~(conf.subscription /\ conf.flushes)
Hijacked == conf.upgrade /\ started
Fits     == ~Hijacked /\ (declared => bodies = <<>>)

WriteResult_Unmarked ==
    \/ failed' = TRUE /\ UNCHANGED respVars
    \/ /\ Fits
       /\ bodies' = Append(bodies, Received)
       /\ declared' = (declared \/ Declares)
       /\ failed' \in IF Received.kind = "refusal" THEN {TRUE} ELSE BOOLEAN
       /\ UNCHANGED started

\* writePlainResult and the end of processResult: the result does not marshal;
\* or it is written, and its errors, if it has any, are the operation's; or
\* the write fails.
WriteResult ==
    \/ failed' = TRUE /\ UNCHANGED respVars
    \/ /\ Fits
       /\ bodies' = Append(bodies, Received)
       /\ declared' = (declared \/ Declares)
       /\ started' = TRUE
       /\ failed' \in IF Received.kind = "refusal" THEN {TRUE} ELSE BOOLEAN
    \/ /\ gone \/ ~Fits
       /\ failed' = TRUE
       /\ declared' = (declared \/ Declares)
       /\ UNCHANGED <<bodies, started>>

\* The last case of processResults' select.
Result ==
    /\ pc = "results" /\ Receivable
    /\ Consume
    /\ WriteResult
    /\ Goto(IF failed' THEN "operationDone" ELSE "results")
    /\ UNCHANGED <<conf, trace, opctx, gone, produced, ended, relayed>>

ResultsEnd ==
    /\ pc = "results" /\ Exhausted
    /\ Goto("operationDone")
    /\ UNCHANGED <<flowVars, respVars, srcVars>>

ContextDone_Unwatched == FALSE /\ UNCHANGED vars

ContextDone ==
    /\ pc = "results" /\ gone
    /\ failed' = TRUE
    /\ Goto("operationDone")
    /\ UNCHANGED <<conf, trace, opctx, gone, respVars, srcVars>>

-----------------------------------------------------------------------------
(* The way out.                                                            *)

OnOperationDone ==
    /\ pc = "operationDone"
    /\ Call("OnOperationDone")
    /\ failed' \in Replaces("OnOperationDone")
    /\ Goto("cancelOperation")
    /\ UNCHANGED <<conf, opctx, gone, respVars, srcVars>>

CancelOperation ==
    /\ pc = "cancelOperation"
    /\ opctx' = "canceled"
    /\ Goto("requestDone")
    /\ UNCHANGED <<conf, failed, trace, gone, respVars, srcVars>>

\* WriteError leaves ContextKeyHTTPResponseStarted as it is.  The legacy
\* interceptor calls it twice: net/http refuses the second body, as it exceeds
\* the content-length of the first, unless the upgrader had already sent the
\* headers.
WriteError ==
    IF failed /\ ~started
    THEN /\ bodies' = IF gone \/ ~Fits THEN bodies
                      ELSE IF bodies # <<>> /\ conf.hooks # {} /\ "OnRequestDone" \notin conf.hooks
                      THEN bodies \o <<Reply("error"), Reply("error")>>
                      ELSE Append(bodies, Reply("error"))
         /\ declared' = TRUE
         /\ UNCHANGED started
    ELSE UNCHANGED respVars

\* The end of the HTTPRequest interceptor, the default one or the legacy
\* one with its deferred WriteError, and reqctx.Cancel().
RequestDone ==
    /\ pc = "requestDone"
    /\ Call("OnRequestDone")
    /\ WriteError
    /\ Goto("returned")
    /\ UNCHANGED <<conf, failed, opctx, gone, srcVars>>

ClientLeaves ==
    /\ ~gone /\ pc # "returned"
    /\ gone' = TRUE
    /\ UNCHANGED <<conf, failed, trace, opctx, pc, respVars, srcVars>>

HandlerStep ==
    \/ OnRequest \/ Route \/ UpgradeFails \/ Upgrade
    \/ OnConnect \/ OnDisconnect \/ Decode
    \/ OnOperation \/ Parse \/ Execute
    \/ Result \/ ResultsEnd \/ ContextDone
    \/ OnOperationDone \/ CancelOperation \/ RequestDone

Next ==
    \/ HandlerStep \/ ConnectionEnds
    \/ Produce \/ EndSource \/ Relay \/ RelayEnds
    \/ ClientLeaves
    \/ pc = "returned" /\ UNCHANGED vars

Spec == Init /\ [][Next]_vars

\* The handler and the relay run when they can; callbacks are taken to
\* return, and writes once the client is gone.  A source need not produce
\* anything.  A handler that could go on receiving results for ever still
\* notices, by the random choice of its select, that its context is done.  A
\* websocket connection need not end: that is WsConnection's to show.
Fairness ==
    /\ WF_vars(gone /\ HandlerStep) /\ SF_vars(ContextDone)
    /\ WF_vars(Relay \/ RelayEnds)

FairSpec == Spec /\ Fairness

-----------------------------------------------------------------------------
(* Properties.                                                             *)

InOperation == {"onOperation", "parse", "execute", "results", "operationDone", "cancelOperation"}
OutsideOperation == {"onRequest", "route", "upgrade", "onConnect", "onDisconnect", "connected",
                     "decode", "requestDone", "returned"}
Bodies == {"result", "refusal", "error", "upgrader", "switching", "close"}

Count(h) == Cardinality({i \in DOMAIN trace : trace[i] = h})

\* Types; and the operation context lives exactly as long as the operation,
\* whichever return leaves servePlainRequest (the deferred opctx.Cancel).
TypeOK ==
    /\ conf \in Configurations
    /\ pc \in InOperation \cup OutsideOperation
    /\ {failed, declared, started, gone, waiting, ended} \subseteq BOOLEAN
    /\ trace \in Seq(Hooks)
    /\ bodies \in Seq([kind : Bodies, n : 0..MaxResults])
    /\ opctx \in {"none", "live", "canceled"}
    /\ opctx = "live" <=> pc \in InOperation
    /\ produced \in 0..MaxResults /\ relayed \in 0..MaxResults
    /\ relay \in {"off", "receiving", "sending", "failing", "exited"}

\* A client that was sent a result is sent no error text after it: an error
\* body is the whole body.  ContextKeyHTTPResponseStarted is set by the write
\* (server_plain.go) and read by WriteError, two interceptors further out.
\* (An upgrader that refuses has answered already, and has not set the key.)
ErrorIsWholeBody ==
    \A i \in DOMAIN bodies :
        bodies[i].kind = "error" => Len(bodies) = 1 \/ bodies[1].kind = "upgrader"

\* A request that failed, and whose client is still there, got some body:
\* WriteError is never silenced by a response that was not started.
ErrorsAreTold ==
    pc = "returned" /\ failed /\ ~gone => bodies # <<>>

\* The client gets the results in the order they were produced, none left out
\* and none twice, also through the OnOperationResult goroutine; a refused
\* result ends them.
ResultsInOrder ==
    \A i \in DOMAIN bodies :
        /\ bodies[i].kind \in {"result", "refusal"} => bodies[i].n = i
        /\ bodies[i].kind = "refusal" => i = Len(bodies)

\* What is set up is torn down: a request that returned called OnRequestDone
\* once, OnDisconnect as often as OnConnect, and, if it reached the operation,
\* OnOperationDone once, whatever callback or step failed in between.
CallbacksPaired ==
    pc = "returned" =>
        /\ "OnRequestDone" \in conf.hooks => Count("OnRequestDone") = 1
        /\ {"OnConnect", "OnDisconnect"} \subseteq conf.hooks =>
              Count("OnConnect") = Count("OnDisconnect")
        /\ "OnOperationDone" \in conf.hooks =>
              Count("OnOperationDone") = IF opctx = "none" THEN 0 ELSE 1

\* A handler whose client left returns, also from a subscription that
\* produces nothing more (the ctx.Done case of processResults), unless it waits
\* for a websocket connection that never ends.
HandlerReturns == gone ~> (pc = "returned" \/ [](pc = "connected"))

\* The sequence the comment of Callbacks gives: OnOperationResult comes before
\* OnOperationDone.
ResultBeforeDone ==
    \A i, j \in DOMAIN trace :
        trace[i] = "OnOperationResult" /\ trace[j] = "OnOperationDone" => i < j
=============================================================================
