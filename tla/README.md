# wsgraphql in TLA+

This directory specifies, model-checks and proves properties of `wsgraphql`, a Go
HTTP handler that serves GraphQL over plain HTTP and over websockets (the
subprotocols `graphql-ws` and `graphql-transport-ws`). Line numbers refer to the
files under `src/v1/`.

## 1. Inventory

| Component | Source | State | Operations | Module |
|---|---|---|---|---|
| Websocket connection | `server_websocket.go`, `server.go` | the channel `outgoing` (one place), the table `operations`, `init`, the request context, four kinds of goroutines | read and dispatch a client message, send, write, end an operation, tear down | `WsConnection` |
| What a client is promised of an operation | `apollows/proto.go` comments | what was received per operation | begin, deliver, stop, end | `OperationStream` |
| One operation of a connection in detail | `server_websocket.go`, `interceptors.go` | its start message, its error, what the client was told | decode, intercept, parse, execute, report, remove | `Operation` |
| HTTP request | `server.go`, `server_plain.go`, `api_server.go` | error in flight, response, operation context, results channel | the steps from `ServeHTTP` to its return, with the upgrade and its refusals | `PlainRequest` |
| Legacy callbacks | `callbacks.go` | which callbacks are set, the relay goroutine | the calls around the steps above | `PlainRequest` |
| Mutable contexts | `mutable/api.go`, `context.go` | values per level, canceled contexts | `NewMutableContext`, `Set`, `Value`, `Cancel`, the accessors | `MutableContext` |
| Parsing and extensions | `ast.go` | errors, finish functions by name, `params.Context`, the document and its subscription flag | hooks, parser, finish functions, validator | `Extensions` |
| Options and interceptor chains | `api_server.go`, `interceptors.go` | `serverConfig` | options, defaults, a call through a chain | `ServerOptions` |
| Error formatting | `error.go`, `combineErrors` | none | pure functions on errors | `ErrorFormat`, used by `Operation` |
| JSON payloads | `apollows/proto.go` | `Data`: a value, or the text it was decoded from | encode, decode, the clients' readers of errors | `Payloads`, used by `Operation` |
| OpenTelemetry interceptor | `compat/otelwsgraphql` | a span | start and end around an operation | `Operation` |
| Websocket compatibility | `compat.go`, `compat/gorillaws` | none | I/O | by its effects in `WsConnection` and `PlainRequest` |
| Examples | `examples/` | none | demonstrations | not modelled |

How they interact. `ServeHTTP` makes the request context and calls the
`HTTPRequest` interceptor, which calls `handleHTTPRequest`; that one either upgrades
the connection and runs the websocket writer in the handler's own goroutine, with
the reader beside it, or serves one operation. Each operation has a context below
the request's. Goroutines talk through the channel `outgoing`, through flags on
mutable contexts and through cancellation. Interceptors, callbacks and extensions
are code of the application, called synchronously (`OnOperationResult` excepted);
graphql-go produces the results in a goroutine of its own.

What is hard here: the teardown of a connection while anyone may be sending; the
connect timer that races `connection_init` and the teardown; stops that race the
end of their operation; ids that are used again; payloads read after the reader
went on; a failure that both a result and an error message could tell, or neither;
callbacks in a goroutine nobody waits for; lookups that lock one level at a time;
panics of extensions in the middle of a phase. `PROJECT.json` lists every such
hazard at its line, with the properties that watch it.

## 2. Modules

### WsConnection

One connection after the upgrade. `rpc` is where the reader is
(`readWebsocket`, 353-416, and the handlers it calls), `pc[t]` where the goroutine of
operation `t` is (272-300), `timer` is `backgroundTimeout` (340-351) and `writer` the
loop of `serveWebsocketRequest` (92-116). `pending[g]` are the messages goroutine `g`
has still to put on the channel: it is blocked until they are gone, which is how one
action can stand for a handler that sends twice. A send of an ordinary message can
be given up once the request is canceled (`Drop`, 220); a message that closes the
websocket cannot (`handleError` 165, `readWebsocketTerminate` 329).

What is abstracted: payloads, and the text of errors (classes of errors: those that
close the websocket, of which the timeout and "already exists" are told apart, and
all others). The writer receives and writes in one step, since a writer that
blocks in a write only leaves the channel full for longer; the code can hold one message
more than the channel this way, and the theorems hold for any `ChanCap`. Interceptors and the
execution are free to fail at any point (`Prepare`, `ResultArrives`, `StreamEnds`);
`Operation` says what they do, and `OperationLife` that the two agree. Messages that were in flight when the client left
may still be read.

### OperationStream

What the comments of `apollows/proto.go` promise: under an id there is one live
operation at a time; of each the client receives data, then its end, then nothing;
no operation ends silently unless the connection is gone or a
`graphql-transport-ws` client stopped it itself. `WsConnection` implements it under
the refinement `Stream` (an operation over whose messages are still on their way is
`draining`); the runs check it as `StreamSpec`.

### OperationLife

What the rest of a connection depends on in one operation goroutine: when it fails and
with which class of error, when it counts as executed and as stopped, that it releases
its context before its id. `Operation` is such a goroutine in detail, `WsConnection` runs
many without their inside; that both implement `OperationLife` (as `Life`) is proved, and
shows that what `WsConnection` leaves open is what `Operation` does. The run `operation`
checks it of the one (`LifeSpec`); of the other, TLC was used on the configuration of
`ws_timeout`, and on two operations under one id of `graphql-ws`, before the proof.

### Operation, with ErrorFormat and Payloads

One operation of a connection, from the start message to the end of its goroutine,
while the reader reads on. `memory` are the variables `msg` of the reader's loop
(`readWebsocket`, 369-381), whose payload the goroutine decodes later: `Data` keeps
the text it was given without copying it, so what the operation sees is a question
of which `msg` it is. `step` follows the goroutine through the span of
`otelwsgraphql`, the interceptors, `parseAST` (the actions of `Extensions`, which the
module extends), `processResults` and `handleError`. `operr` is the error in flight and
`told` what the client was sent about failures; a failure is named by where it
happened, so that "told once" can be counted.

An interceptor, or a callback behind one, may fail before it calls its handler
(`Refused`), return nil without calling it (`InterceptOperation`), or make of what the
handler returned an error of its own, or none (`InterceptorReturns`, which is also where
`OnOperationDone` is): `swallowed` are the failures that nobody further out hears of. An
error that comes after the execution is dropped by `Report`, as `server_websocket.go` 284
drops it; `EveryFailureTold` says exactly which failures are told and which are not.

`ErrorFormat` has `wrapExtendedError`, `FormatError` and `combineErrors` on classes of
errors: the Go type of an error, whether it extends (graphql-go's `ExtendedError`)
and whether its extensions show in what is sent. graphql-go's own conversion
(`GqlFormat`) is external. `Payloads` has `Data.MarshalJSON`/`UnmarshalJSON` and the
clients' `ReadPayloadError(s)`.

The interceptor of `otelwsgraphql` is taken to be configured, outermost of its kind, so
that all others of the kind are inside the span.

### PlainRequest

`pc` follows the calls of the handler in order; each callback that is set may fail,
and those that are given an error may replace it. A query's one result is in a
closed channel; a subscription's come from the goroutine of
`graphql.ExecuteSubscription` (external). `relay` is the goroutine of
`legacyCallbackExecute`. `bodies` is what the client was sent. The content-length
that the first unflushed result declares limits the whole response, as `net/http`
enforces it. An upgraded request passes through here too: the upgrader refuses,
having answered or not (`UpgradeFails`); or the response is no longer the server's
(`Upgrade`, `Hijacked`), a websocket of unknown subprotocol is closed at once, and the
connection is one phase, `connected`, in which `legacyCallbackInit` may run. Without
`WithCallbacks` the default interceptors do the same as the legacy ones with no
callback set, so both are the configuration `hooks = {}`. Every callback is taken to
return, and none to panic.

### MutableContext

`values[c][k]` counts the sets of key `k` at context `c`. A lookup is a `job`: it reads
one level, and if nothing is there climbs to the request (`Value`, 31-45). Jobs are
plain reads, `processResults`'s question whether a canceled operation was stopped
(`Judge`), and the places where an accessor looks a context up in order to set a flag
on it (`Mark`):

| Action | Flag | Set where | Source |
|---|---|---|---|
| `MarkStarted` | `Started` | the request | `server_plain.go` 164 |
| `Execute` | `Executed` | the operation | `server.go` 66 |
| `Fail` | `Stopped` | the operation, for an error message of it | `server_websocket.go` 207 |
| `FailReading` | `Stopped` | nowhere: the reader's own error message goes with the request's context, in which there is no operation | 358, 185, 207 |
| `Terminate` | `Stopped` | the request | 327 |
| `StopMark` | `Stopped` | the operation, without an accessor | 315 |

So `Stopped` is set at both levels. Where an accessor finds no context,
`defaultMutcontext` makes one that nobody else has: the flag is lost with it, and
`AnswerMark` changes nothing. `marked` says which flags were meant for which context.
The context an interceptor derives with `context.WithValue` is
transparent to all keys and is not represented; one that is not derived from what
the interceptor was given is not modelled.

### Extensions

`parseAST`, one action per hook call. A hook that panics is recovered alone. `called`
records each call with the context it was given. Names may coincide: the finish
function of the last extension of a name is the one that is kept. `document` is
reduced to the types of its operations and the one `operationName` chooses.

### ServerOptions

Options act on nested chains exactly as the closures nest; a call is a stack of
interceptors still to pass, which is what the handlers closed over are. An
interceptor may return without calling its handler; one that calls it twice is not
modelled. The options that assign one field of the configuration are one action,
`WithField`, and `settings` says which option a field has its value from.

### MC and proof modules

`MC*` modules give TLC its symmetries and the definitions that a configuration
substitutes for constants. `WsConnectionProofs`, `WsHandshakeProofs`,
`WsStreamProofs`, `PlainRequestProofs`, `MutableContextProofs`, `ExtensionsProofs`, `OperationProofs` and
`ServerOptionsProofs` hold the theorems (section 5).

## 3. Runs

| Run | Instance | States | What it shows |
|---|---|---|---|
| `ws_operations` | `graphql-transport-ws`, 2 ids, 2 operations | 1.06 M | the safety of the connection, and refinement of `OperationStream` |
| `ws_timeout` | both protocols, 1 operation, timeout, keepalive, request canceled from outside | 382 k | `TimeoutExcludesAck`, `ContextNotRaced` |
| `ws_liveness` | both protocols, 1 operation | 80 k | `HandlerReturns`, `CanceledEnds`, `StopIsAnswered`, refinement |
| `ws_close_panic` | timeout | - | violates `NoSendOnClosed` |
| `ws_timer_stuck` | timeout | - | violates `HandlerReturns` |
| `ws_id_reuse` | 1 id, 1 operation | - | violates `ExistsMeansActive` |
| `http_request` | 4 sets of callbacks, 3 results, upgraded or not | 7.7 k | six properties of a request, one of them liveness |
| `http_late_result` | callbacks on results | - | violates `ResultBeforeDone` |
| `contexts` | 1 operation, 2 goroutines, 2 values | 1.03 M | linearizability, shadowing, stop and flag visibility, with flags at one level and at both |
| `operation` | 3 extensions of 2 names, 2 results, both protocols | 475 k | what the client and the span are told; whose payload is read; the five properties of parsing; refinement of `OperationLife` |
| `subscription_flag` | 3 extensions | - | violates `FlagIsOperations` |
| `options` | 2 kinds, 2 protocols, 2 fields, 4 options | 274 k | order of interceptors, defaults, the last setting counts |

Bounds. `Tasks` bounds the operations accepted in the life of a connection: two are
what it takes for an id to be reused while its first operation ends, and for two
operations to compete for the channel; two ids, for a stop to meet the wrong one.
Both protocols at that size are seven million states; `graphql-ws` is therefore
run with one operation (`ws_timeout`, `ws_liveness`), and its safety with any number
is proved (section 5). `ws_id_reuse` needs no second operation: the refused start
never becomes one. `ChanCap` is the code's own 1. One operation is enough for the
timer, which only interacts with the reader and with the shutdown. Three results
let the relay be one ahead of the handler and still have one to come. `MaxSets` = 2
lets a value change under a lookup. In `contexts` a second operation makes the state
space too large for a routine run; that operations do not disturb one another is
proved for any number. In `operation` three extensions, the first and last of one
name, let a finish function be replaced with another started in between, and two
results let an error follow a good one; one ping is enough for the
reader to decode a message while the goroutine holds its own. Four options are a
replacement with chains before and after it. Symmetry is used where no liveness is
checked: ids, operations and goroutines are interchangeable.

Deadlock is checked everywhere except in the runs with a connect timeout, whose
configuration has the deadlock that `ws_timer_stuck` reports (the handler of a
connection may stop there), and in `contexts`, where a request that is over has
nothing left to do.

Fairness. Every goroutine that can run is run by the Go scheduler: weak fairness
of the reader's own steps, the timer, the steps of an operation, the writer once the
websocket is no longer open, and the HTTP handler once its client is gone. Strong fairness of sends (senders on a channel queue in order),
of the `ctx.Done` case of a `select` (a select with several ready cases chooses at
random), and of reading the failure of a closed websocket (only finitely many
messages are in flight).

A write to an open websocket need not end. `compat/gorillaws` sets no write deadline, so
a client that stays connected and stops reading holds up the writer, with it the
channel, and with that every operation that is sending: `writeWebsocketMessage` (210-221)
waits for the channel and for the end of the request, not for the end of the
operation. `CanceledEnds` and `StopIsAnswered` therefore have `ClientReads` as their
premise, the weak fairness of the writer; without it both are false. The writer of an open
websocket is not needed for `HandlerReturns`, which is about what happens once the
websocket is gone.

In `PlainRequest` nothing forces the phase `connected` to end, and `HandlerReturns` says
that a handler whose client left returns or stays in that phase: whether the
connection ends is `WsConnection`'s to say, and with a connect timeout it may not (section
4, 2). Nothing is assumed of results or of the end of a subscription. Callbacks and
interceptors are taken to return.

## 4. Disagreements with the documentation

1. `ws_close_panic`. `readWebsocket` waits for operations only before it closes
   `outgoing` (364-367), but `backgroundTimeout` sends on it too: a timer that fires as
   the connection ends makes its goroutine panic. By `PanicsOnlyOfLateTimer` this is the only such
   panic there is.
2. `ws_timer_stuck`. A timer that fires as `connection_init` arrives is not there to
   receive from `connectSuccessful` (397): the reader blocks for ever, and with it the
   handler. By `OnlyLostSignalDeadlocks` and `LostSignalIsForGood` there is no other
   deadlock, and no way out of this one.
3. `ws_id_reuse`. The end of an operation is sent (290) before its id is free (296).
4. `http_late_result`. `OnOperationResult` may follow `OnOperationDone` (`callbacks.go`
   85-100), against the sequence in lines 27-30.
5. `subscription_flag`. The subscription flag is set if any definition of the document
   is a subscription (`ast.go` 227-242), not if the operation that `operationName`
   chooses is one (`context.go` 187): a query in such a document is executed as a
   subscription.

Noted while reading, and not runs:

- `legacyCallbackInit` calls `OnDisconnect` at the end of the initialisation, not of
  the connection (`callbacks.go` 163, against 27-30 and 46-47), and what it returns
  replaces the error of `OnConnect`.
- `legacyCallbackHTTPRequest` writes the error also when `OnRequestDone` is set, and
  twice when it is not (180-198, against 39); after an upgrader that refused and
  answered, the error is appended to that answer. `ErrorIsWholeBody` excludes the
  latter, since the upgrader writes through code that is not the server's.
- An interceptor of kind `HTTPRequest` added by `WithExtraInterceptors` takes the place
  of the default one that writes errors (`interceptors.go` 199-213).
- The context that extensions return reaches later hooks but not the execution
  (`ast.go` 187, `server_plain.go` 40).
- An error that `OnOperationDone` or an interceptor returns after the execution is told to
  nobody (`server_websocket.go` 284), although `callbacks.go` 61-62 says it closes the
  websocket. `Operation` models it (`InterceptorReturns`, `Report`), and `EveryFailureTold`
  states it: of an executed operation, `Late` is never told.
- A malformed message ends the reader without closing the websocket.
- A value of the application that is set at both levels is not read atomically: a
  lookup that has left the operation may answer with the request's value when the
  operation has got its own (`OvertakenBySet` in `LookupLinearizable`). The flags of the
  code are only raised, and it does not matter at which level one is found.
- An interceptor's plain error goes to a `graphql-transport-ws` client as one object
  (`server_websocket.go` 185), where its reader expects a list, and without its
  extensions, which `gqlerrors.FormatError` drops; `RejectionsReadable` and
  `ExtensionsKept` are about rejected documents and results, and say so.

## 5. Proofs

No theorem bounds the constants: each holds for every number of ids, operations,
extensions, callbacks, results and goroutines that the named assumptions of its
module allow. `TypeCorrect`, `TypesHold`, `ParseTypes`, `OperationTypes` and
`ServerOptionsTypes` are the type invariants; the
others each follow from an inductive strengthening, given here.

### WsConnectionProofs

- `TypeCorrect`: `[]TypeOK`. `TableAlwaysConsistent`: `[]TableConsistent`, inductive on top
  of it: only the reader inserts, and an id it inserts was absent.
- `PanicsOnlyOfLateTimer` and `OnlyTimerOutlivesHandler`, with or without a connect
  timeout: a send on the closed channel is the timer's, of a connection that was never
  initialised, and when the handler returns nobody else has anything left to send.
  The inductive invariant is `ShutdownInv`: once the reader waits, it has nothing left
  to send and the request is canceled; once the channel is closed no operation runs; an
  operation that does not run has nothing left to send; a writer that is done left a
  closed and empty channel. `TimerLate` adds that a timer not yet signaled keeps the
  reader of an initialised connection at its signal.
- `NeverSendsOnClosed` and `HandlerAlwaysReturnsLast` are their corollaries for
  `~ConnectTimeout` (with a timeout the first is false, section 4).
- `StopAlwaysMarksFirst`: `[]StopBeforeCancel`, from `StopInv`: the reader about to
  cancel an operation has marked it, and no step takes a mark away.

### WsHandshakeProofs

- `ContextNeverRaced`: `[]ContextNotRaced`, from `TimerInv`: once the reader is past its
  rendezvous the timer is over, and before `connection_init` it may be anywhere.
- `TimeoutAlwaysExcludesAck`: `[]TimeoutExcludesAck`. What was written says too little:
  the invariant, `TimeoutInv`, is over all kinds `InFlight`, those still to be sent, in
  the channel, or written. Of an ack and a timeout at most one is ever made, as one
  needs the rendezvous and the other its absence.
- `AckFirstUnlessCut`: `[](AckFirst \/ RequestCut)`, where the request is cut if its
  context was canceled from outside (it then may drop the ack); `AckAlwaysFirst` is
  its corollary for `~ParentCancels`. `HandshakeInv` says where the ack is: to be sent while no operation
  exists (`AckPending`, `Quiet`), ahead of everything about operations in the channel
  (`AckLeads`), or written, or never to be written as the websocket is closed.
  `OwnMessages`: a goroutine sends only messages of its own operation.
- `OnlyLostSignalDeadlocks`: `[]NeverDeadlocked`. `ServerCanStep` writes out the guards of
  the steps that depend on nobody else (the prover has no `ENABLED`); TLC confirmed
  that each part of it is true exactly where its actions are enabled. Whoever waits in
  a circle would wait for the channel, whose writer can then write, or for the
  operations, whose contexts are canceled by then (`WaitedForCanStep`), or for the timer
  (`TimerInv`), which is `SignalLost`.
- `LostSignalIsForGood`: `Spec => SignalStaysLost`, an action property: no step of any
  goroutine, and nothing the client does, ends `SignalLost`.

### WsStreamProofs

`ConnectionKeepsPromises`: `Spec => StreamSpec`, `WsConnection` implements
`OperationStream`, assuming `Tasks # {}` (with no operation at all the abstract
specification has nobody whose step the loss of the connection could be).

`StreamInv` is the strengthening, inductive with `TypeOK` and `TableConsistent`, checked
with TLC before it was proved:

- `KindsInv`: what an operation may have said, by where its goroutine is. `Said` is what
  it has to send, has in the channel, or was heard of; an executed operation says
  data and complete only, and one at its end has said complete, is stopped on
  `graphql-transport-ws`, or belongs to a connection that is `Gone`.
- `OrderInv`: an error comes first, complete last, and between a `connection_error` and a
  `complete` there is the message that closes the websocket (`CloseBefore`): the client
  of `graphql-ws` never hears a complete after a `connection_error`.
- `TurnsInv`: of two operations under one id one is over, its messages are ahead of the
  other's in the channel, and the other is not heard before they are gone.
- `ChannelInv` and `StopsInv` say who a message is about and whom a stop is for.

Each action of the connection then is a step of the abstract one (`BeginStep`,
`ReaderRefines`, `OthersRefine`, `TaskRefines`, `SendRefines`, `ReceiveRefines`): what is
written of an operation is `Deliver`, allowed by `MayFollowHeard` and `HeardInTurn`; the
removal of its entry and the loss of a message are `End`, which `ClosesTold` justifies.

`OperationsHaveLives`: `Spec => LivesSpec`, each operation implements `OperationLife`, from
`LifeInv`; what the other goroutines do reaches it only through the two contexts
(`Outside`).

`ClientIsToldEverything`: `[]ClientPromises`, what a client may conclude from this, and
also where there is no operation: it hears one of seven `Stories` of each; the end of
what is over was told (`EndTold`), unless the connection went or the client of
`graphql-transport-ws` stopped it; of two operations it heard of under one id, one will
not be heard again. The proof reads these off the steps of the abstract specification
alone (`StreamMoves`, `PromisesStep`), so they hold of whatever implements it.

### PlainRequestProofs

- `ErrorAlwaysWhole`, `ErrorsAlwaysTold`, `ResultsAlwaysInOrder` from `BodyInv`. Its parts:
  `UpgradeInv`, what the response is before, after and without an upgrade; `ResultsInv`,
  which counts the results between the source and the client: those written, plus
  `Held` by the channel or the relay, are those produced; `ReturnInv`, the properties
  themselves at the end, where nothing writes any more.
- `CallbacksAlwaysPaired` from `CallsInv`, which gives how often each callback was
  called at each place of the handler.

- `SuccessAlwaysComplete`: `[]SuccessIsComplete`. Where `OnOperationDone` is about to be told
  of no error, every result is written, the source has ended and the relay is gone. On
  top of `BodyInv` it needs `RelayInv`: a relay that exits while results are processed
  has read them all.
- `AbandonedForGood`: `Spec => LeftBehind`, an action property: a relay that offers a
  result after its handler went on never leaves its send.

### MutableContextProofs

The five invariants of `MutableContext` follow from `TreeAssumption`, `BoundAssumption`
and one inductive invariant, `IInv`. Its parts:

- `Levels`: the request's context is found on the request and an operation's on the
  operation, from the moment anyone has it, and an operation whose stop has begun has
  its flag. Nothing is said of the level of `Stopped`, which may be set on both.
- `Jobs`: a lookup under way has recorded what is visible now (`LookupInv`); it left the
  first level only if nothing was there, and then either saw nothing at that moment or
  will answer with what the request has; a flag's lookup finds the context it is meant
  for, or none (`MarkInv`, with `MarkTarget`); a judgement whose cause is the stop never
  climbs, since the mark preceded the cancel and is not taken back (`JudgeInv`).
- `Stops`: whatever the stop canceled it has marked, no verdict "canceled" is given
  about it, and a verdict "stopped" only where the operation or the request was marked.
  `FactsStay` gives that the cause of a cancellation is settled once.
- `MarksLand`, which is inductive on top of these.

`LookupsAreLinearizable` is exact about the keys that hold a context. About a flag, which
is only ever raised, it says that the answer, set or not, was true at one moment of the
lookup. About the key that an application sets at both levels (`App`) it allows one more
answer: the request's value, where the operation got its own while the lookup was
between the two.

### ExtensionsProofs

Each invariant is shown of `ParseOrStutter`, a step of `parseAST` or none, so that the
theorems about `Spec` and about `OperationSpec` share their lemmas.

- `NoFailureSwallowed` from `OutcomeInv`: every recorded panic is among the errors in
  every phase, not only at the end; what is accepted has no error, and what is
  rejected has some.
- `InputsAreThere` from `InputsInv`: what is stored, by phase.
- `ContextsAreThreaded` from `CallsInv` and `ContextInv`: the calls recorded of a phase are
  those before `idx`, once each, and the context of each call is that of the returned
  calls before it; the present context, of all of them.
- `FinishIsPaired` from `FinishInv`: while hooks start, the kept finish functions are those
  of the last starter of each name (`Opened`); while they finish, each such starter has
  either been called or is still kept (`Closing`); after that all have (`Closed`).

### OperationProofs

- `OperationParsing` carries the five theorems over to the parsing inside an operation.
- `OperationIsItsOwn`, `PongsEcho` from `MemoryInv` and `MessageInv`: the variable of the
  start message is never decoded into again.
- `FailuresAreTold`, `ExtensionsAreKept` from `StoryInv`: before an error there is nothing
  to tell; the error in flight is about what was raised and not swallowed; an error from
  a result has been told by it, exactly once, and the operation is marked executed
  (`ResultTold`); any other is told by the report, unless it came after the execution.
  `HandleErrorTells` is the lemma on `handleError` it rests on.
- `RejectionsAreRead` from `RejectionInv`: a rejected operation's error is that of its
  parsing, each failure once, unless an interceptor replaced or swallowed it.
- `SpansAgree` from `SpanInv`: the status is an error where something was raised that
  nobody swallowed, by what `StoryInv` says of the error in flight.
- `OperationTypes` from these, `FlagsInv`, and `FiniteInv`: finitely many errors at any
  time, although hooks, results and interceptors add to them in sets.
- `OperationHasLife`: `OperationSpec => LifeSpec`, from `StoryInv`: the whole of parsing and of
  the interceptors on the way in stutters or is `Prepare`; on the way out it ends the
  results, with any class of error.

### ServerOptionsProofs

- `SettingsAlwaysEffective`: `[]SettingsEffective`, from `SettingsInv`: while options are
  given the protocols are the named ones (`Named`) and each field has the number of the
  last option for it (`Assigned`); the defaults then fill in only what nobody asked for.
- `InterceptorsInOrder`, `HandlerReachedLast` and `ServerOptionsTypes` from `InterceptorInv`.
  Chains nest as deep as there are options, so an induction over them is out of reach;
  instead `ChainOf` says that there is a function `nest` from numbers of options to
  chains, whose last value is the chain at hand, and each option extends it by one
  value (`ChainGrows`). While a call is under way `CallInv` says that one number gives
  both what was called, the first so many of the effective interceptors, and what the
  stack still holds, the others. `OneEnumeration`: a set of numbers is enumerated upwards in one way only, which
  makes what was called the `Effective` of the property.

Only model-checked: liveness (`HandlerReturns` of either module, `CanceledEnds`,
`StopIsAnswered`), as the prover has no fairness or `ENABLED`. What can be said of it
without is proved: nothing deadlocks but the lost signal, no operation ends untold, and
no HTTP operation succeeds short of a result.

## 6. Not modelled

- The choice of a tracer and the names and attributes of spans
  (`compat/otelwsgraphql`): functions without state. The regular expression for the
  name may find the name of another operation of the document.
- `PayloadData` and `ReadPayloadData`: only clients decode results.
- The examples, and the JSON of messages beyond `Data`.
- Callbacks and interceptors that panic (only extensions are recovered by the
  code), that do not return, or that pass on a context which does not derive from
  theirs. An interceptor that calls its handler twice, or that goes on after a parse or
  an execution that failed as if it had not, or with a nil channel; interceptors around
  that of the span. (One that replaces the errors of a parse is as one further out that
  does.)
- gorilla's `Upgrade` failing after it has hijacked the connection: `UpgradeFails` still
  has the response.
- The loss of the connection in `Operation`, and the `complete` that follows an
  operation: both are `WsConnection`'s.
- The reflection on the private field of `graphql.Schema` that finds its extensions.
- `gorilla/websocket`, graphql-go and `net/http`, but for the effects named above.

## 7. Plan

Done: the modules above. Left, in this order: interceptors and callbacks that panic; an
`Init` interceptor whose context does not derive from the connection's; `PayloadData`
with the clients' reader of results.
