---------------------------- MODULE WsConnection ----------------------------
(***************************************************************************)
(* One websocket connection of the GraphQL server: server_websocket.go.    *)
(*                                                                         *)
(* The goroutines of a connection share one channel, req.outgoing:         *)
(*   writer   serveWebsocketRequest, the only one that writes to the       *)
(*            websocket; it drains the channel until it is closed          *)
(*   Reader   readWebsocket, dispatches the client's messages and, on its  *)
(*            way out, cancels the request, waits for the operations and   *)
(*            closes the channel                                           *)
(*   Timer    backgroundTimeout, when a connect timeout is configured;     *)
(*            nobody waits for it                                          *)
(*   Tasks    one goroutine per accepted start / subscribe                 *)
(*                                                                         *)
(* pending[g] holds the messages goroutine g has yet to put on the         *)
(* channel: g is blocked in its send until the sequence is empty.          *)
(***************************************************************************)
EXTENDS Integers, Sequences, FiniteSets

CONSTANTS
    Protocols,       \* the subprotocols the server accepts
    Ids,             \* operation ids the client uses
    Tasks,           \* operation goroutines: bounds the starts accepted
    Reader, Timer,   \* the two other senders on req.outgoing
    NoTask,          \* no operation: an absent table entry, an empty id
    ChanCap,         \* capacity of req.outgoing (the code makes it 1)
    ConnectTimeout,  \* is a connect timeout configured?
    Keepalive,       \* is a keepalive interval configured?
    ParentCancels    \* may the context of the HTTP request be cancelled?

GWS  == "graphql-ws"
GTWS == "graphql-transport-ws"

ASSUME ProtocolAssumption == Protocols \subseteq {GWS, GTWS}
ASSUME ChanCapAssumption == ChanCap \in Nat \ {0}
ASSUME OptionAssumption == {ConnectTimeout, Keepalive, ParentCancels} \subseteq BOOLEAN
ASSUME NameAssumption == /\ Reader \notin Tasks /\ Timer \notin Tasks
                         /\ Reader # Timer      /\ NoTask \notin Tasks

Goroutines == Tasks \cup {Reader, Timer}

\* An apollows.Error closes the websocket with a code of its own; of these
\* "timeout" (4408) and "exists" (4409) are told apart, "event" is any other.
EventErrors == {"event", "timeout", "exists"}
\* "other" is an error that is not an apollows.Error.
Errors == {"none", "other"} \cup EventErrors

\* Messages that only write, and those that close the websocket.
Kinds      == {"ack", "data", "error", "complete", "connection_error", "pong"}
CloseKinds == {"close", "timeout"}

Message == [kind : Kinds \cup CloseKinds, task : Tasks \cup {NoTask}]
IsClose(m) == m.kind \in CloseKinds

VARIABLES
    protocol,     \* req.protocol, negotiated by the upgrade
    init,         \* req.init
    operations,   \* req.operations
    idOf,         \* ContextKeyOperationID of a task's context
    pc,           \* where each operation goroutine is
    stopped,      \* ContextKeyOperationStopped of a task's context
    executed,     \* ContextKeyOperationExecuted of a task's context
    canceled,     \* opctx.Cancel() was called
    err,          \* operr of each operation goroutine
    reqStopped,   \* ContextKeyOperationStopped of the request context
    reqCanceled,  \* the request context is done
    rpc,          \* where the reader is
    target,       \* operation the reader's last stop or start found under its id
    failure,      \* err of readWebsocket
    timer,        \* where the timeout goroutine is
    pending,      \* messages each goroutine still has to send
    outgoing,     \* the buffer of req.outgoing
    closed,       \* close(req.outgoing) was called
    panicked,     \* a send on the closed channel crashed the process
    writer,       \* where the writer is
    ws,           \* the websocket, as the server sees it
    delivered,    \* history: kinds written for each operation, repeated data once
    notices       \* history: was the ack written, was the timeout?

taskVars   == <<operations, idOf, pc, stopped, executed, canceled, err>>
reqVars    == <<protocol, init, reqStopped, reqCanceled>>
readerVars == <<rpc, target, failure>>
chanVars   == <<outgoing, closed, panicked>>
writerVars == <<writer, ws, delivered, notices>>
vars == <<taskVars, reqVars, readerVars, timer, pending, chanVars, writerVars>>

Init ==
    /\ protocol \in Protocols
    /\ init = FALSE
    /\ operations = [i \in Ids |-> NoTask]
    /\ idOf = [t \in Tasks |-> NoTask]
    /\ pc = [t \in Tasks |-> "idle"]
    /\ stopped = [t \in Tasks |-> FALSE]
    /\ executed = [t \in Tasks |-> FALSE]
    /\ canceled = [t \in Tasks |-> FALSE]
    /\ err = [t \in Tasks |-> "none"]
    /\ reqStopped = FALSE
    /\ reqCanceled = FALSE
    /\ rpc = "read"
    /\ target = NoTask
    /\ failure = "none"
    /\ timer = IF ConnectTimeout THEN "waiting" ELSE "off"
    /\ pending = [g \in Goroutines |-> <<>>]
    /\ outgoing = <<>>
    /\ closed = FALSE
    /\ panicked = FALSE
    /\ writer = "loop"
    /\ ws = "open"
    /\ delivered = [t \in Tasks |-> <<>>]
    /\ notices = {}

-----------------------------------------------------------------------------
(* Contexts and the channel.                                               *)

\* A value is looked up in the operation's context, then in the request's;
\* cancelling the request cancels every operation context below it.
Stopped(t)  == stopped[t] \/ reqStopped
Canceled(t) == canceled[t] \/ reqCanceled

Live(t) == pc[t] \notin {"idle", "done"}
Idle(g) == pending[g] = <<>>

\* req.wg: every operation was added before its goroutine started.
AllTasksDone_LateAdd == \A t \in Tasks : pc[t] \in {"idle", "unmarshal", "done"}
AllTasksDone == \A t \in Tasks : ~Live(t)

HasRoom_OffByOne == Len(outgoing) <= ChanCap
HasRoom == Len(outgoing) < ChanCap

Queue(g, msgs) == pending' = [pending EXCEPT ![g] = msgs]
Msg(k, t) == [kind |-> k, task |-> t]

\* handleError: what goes on the channel for error e of operation t.
CloseMessage(e) == Msg(IF e = "timeout" THEN "timeout" ELSE "close", NoTask)

ErrorMessages(e, t) ==
    IF e \in EventErrors
    THEN IF protocol = GWS THEN <<Msg("connection_error", t), CloseMessage(e)>>
                           ELSE <<CloseMessage(e)>>
    ELSE <<Msg("error", t)>>

\* A blocked send completes when the channel has room.
Send(g) ==
    /\ pending[g] # <<>> /\ ~closed
    /\ HasRoom
    /\ outgoing' = Append(outgoing, Head(pending[g]))
    /\ pending' = [pending EXCEPT ![g] = Tail(@)]
    /\ UNCHANGED <<taskVars, reqVars, readerVars, timer, closed, panicked, writerVars>>

\* writeWebsocketMessage gives up when the request context is done; the
\* messages that close the websocket are sent without that alternative.
Drop(g) ==
    /\ pending[g] # <<>> /\ ~IsClose(Head(pending[g]))
    /\ reqCanceled
    /\ pending' = [pending EXCEPT ![g] = Tail(@)]
    /\ UNCHANGED <<taskVars, reqVars, readerVars, timer, chanVars, writerVars>>

\* Sending on a closed channel panics, and an unrecovered panic of a
\* goroutine ends the process.
SendPanics(g) ==
    /\ pending[g] # <<>> /\ closed
    /\ panicked' = TRUE
    /\ UNCHANGED <<taskVars, reqVars, readerVars, timer, pending, outgoing, closed, writerVars>>

-----------------------------------------------------------------------------
(* The reader.                                                             *)

Reading == rpc = "read" /\ Idle(Reader)

Fail(e) == rpc' = "fail" /\ failure' = e

NotReaderVars == <<timer, chanVars, writerVars>>

\* connection_init; req.init is set before the reader signals the timer.
ReadInit ==
    /\ Reading
    /\ IF init THEN Fail("event") /\ UNCHANGED init
       ELSE /\ init' = TRUE
            /\ rpc' = IF ConnectTimeout THEN "signal" ELSE "initialise"
            /\ UNCHANGED failure
    /\ UNCHANGED <<taskVars, protocol, reqStopped, reqCanceled, target, pending, NotReaderVars>>

Signal_Buffered ==
    /\ rpc = "signal"
    /\ rpc' = "initialise"
    /\ UNCHANGED <<taskVars, reqVars, target, failure, pending, NotReaderVars>>

\* connectSuccessful is unbuffered: the send needs the timer in its select.
Signal ==
    /\ rpc = "signal" /\ timer = "waiting"
    /\ rpc' = "initialise"
    /\ timer' = "done"
    /\ UNCHANGED <<taskVars, reqVars, target, failure, pending, chanVars, writerVars>>

\* readWebsocketInit: the payload or the interceptor may fail.
Initialise ==
    /\ rpc = "initialise"
    /\ \/ /\ \E e \in {"other", "event"} : Fail(e)
          /\ UNCHANGED pending
       \/ /\ rpc' = "read"
          /\ Queue(Reader, <<Msg("ack", NoTask)>>)
          /\ UNCHANGED failure
    /\ UNCHANGED <<taskVars, reqVars, target, NotReaderVars>>

Unauthorized_Unchecked == FALSE
Unauthorized == ~init /\ protocol = GTWS

IdInUse_Unchecked(i) == FALSE
IdInUse(i) == operations[i] # NoTask

\* start / subscribe: the reader alone inserts, so the look-up and the
\* insertion are one step.
StartTask(i, t) ==
    /\ pc[t] = "idle"
    /\ operations' = [operations EXCEPT ![i] = t]
    /\ idOf' = [idOf EXCEPT ![t] = i]
    /\ pc' = [pc EXCEPT ![t] = "unmarshal"]
    /\ UNCHANGED <<stopped, executed, canceled, err, readerVars>>

ReadStart(i) ==
    /\ Reading
    /\ \/ Unauthorized /\ Fail("event") /\ UNCHANGED <<taskVars, target>>
       \/ /\ ~Unauthorized /\ IdInUse(i)
          /\ Fail("exists") /\ target' = operations[i]
          /\ UNCHANGED taskVars
       \/ /\ ~Unauthorized /\ ~IdInUse(i)
          /\ \E t \in Tasks : StartTask(i, t)
    /\ UNCHANGED <<reqVars, pending, NotReaderVars>>

\* stop / the client's complete: look the operation up, mark it stopped,
\* cancel it; the operation may end between any two of the three.
ReadStop(i) ==
    /\ Reading
    /\ \/ Unauthorized /\ Fail("event") /\ UNCHANGED target
       \/ /\ ~Unauthorized /\ IdInUse(i)
          /\ target' = operations[i] /\ rpc' = "stopMark"
          /\ UNCHANGED failure
    /\ UNCHANGED <<taskVars, reqVars, pending, NotReaderVars>>

StopMark_Unmarked ==
    /\ rpc = "stopMark"
    /\ rpc' = "stopCancel"
    /\ UNCHANGED <<taskVars, reqVars, target, failure, pending, NotReaderVars>>

StopMark ==
    /\ rpc = "stopMark"
    /\ stopped' = [stopped EXCEPT ![target] = TRUE]
    /\ rpc' = "stopCancel"
    /\ UNCHANGED <<operations, idOf, pc, executed, canceled, err, reqVars, target, failure,
                   pending, NotReaderVars>>

StopCancel ==
    /\ rpc = "stopCancel"
    /\ canceled' = [canceled EXCEPT ![target] = TRUE]
    /\ rpc' = "read" /\ target' = NoTask
    /\ UNCHANGED <<operations, idOf, pc, stopped, executed, err, reqVars, failure,
                   pending, NotReaderVars>>

\* connection_terminate, a graphql-ws message; the reader reads on.
ReadTerminate ==
    /\ Reading
    /\ \/ protocol = GTWS /\ Fail("event") /\ UNCHANGED <<pending, reqStopped>>
       \/ /\ protocol = GWS /\ reqStopped' = TRUE
          /\ Queue(Reader, <<CloseMessage("event")>>)
          /\ UNCHANGED <<rpc, failure>>
    /\ UNCHANGED <<taskVars, protocol, init, reqCanceled, target, NotReaderVars>>

ReadPing ==
    /\ Reading
    /\ Queue(Reader, <<Msg("pong", NoTask)>>)
    /\ UNCHANGED <<taskVars, reqVars, readerVars, NotReaderVars>>

\* ReadJSON fails on a malformed message, which leaves the websocket open...
ReadMalformed ==
    /\ Reading
    /\ Fail("other")
    /\ UNCHANGED <<taskVars, reqVars, target, pending, NotReaderVars>>

\* ... or because the websocket is gone.  Messages that arrived before may
\* still be read first: no action above asks for an open websocket.
ReadFails ==
    /\ Reading /\ ws # "open"
    /\ Fail("other")
    /\ UNCHANGED <<taskVars, reqVars, target, pending, NotReaderVars>>

\* The deferred function of readWebsocket, in its four steps.
HandleReaderError ==
    /\ rpc = "fail"
    /\ Queue(Reader, ErrorMessages(failure, NoTask))
    /\ rpc' = "cancel" /\ failure' = "none"
    /\ UNCHANGED <<taskVars, reqVars, target, NotReaderVars>>

CancelRequest_Forgotten ==
    /\ rpc = "cancel" /\ Idle(Reader)
    /\ rpc' = "wait"
    /\ UNCHANGED <<taskVars, reqVars, target, failure, pending, NotReaderVars>>

CancelRequest ==
    /\ rpc = "cancel" /\ Idle(Reader)
    /\ reqCanceled' = TRUE
    /\ rpc' = "wait"
    /\ UNCHANGED <<taskVars, protocol, init, reqStopped, target, failure, pending, NotReaderVars>>

CloseOutgoing ==
    /\ rpc = "wait" /\ AllTasksDone
    /\ closed' = TRUE
    /\ rpc' = "done"
    /\ UNCHANGED <<taskVars, reqVars, target, failure, timer, pending, outgoing, panicked, writerVars>>

ReaderMessage ==
    \/ ReadInit \/ ReadTerminate \/ ReadPing \/ ReadMalformed
    \/ \E i \in Ids : ReadStart(i) \/ ReadStop(i)

ReaderStep ==
    \/ Signal \/ Initialise \/ StopMark \/ StopCancel
    \/ ReadFails \/ HandleReaderError \/ CancelRequest \/ CloseOutgoing

-----------------------------------------------------------------------------
(* The connect timeout.                                                    *)

TimerFires ==
    /\ timer = "waiting"
    /\ timer' = "fired"
    /\ Queue(Timer, ErrorMessages("timeout", NoTask))
    /\ UNCHANGED <<taskVars, reqVars, readerVars, chanVars, writerVars>>

TimerCanceled ==
    /\ timer = "waiting" /\ reqCanceled
    /\ timer' = "done"
    /\ UNCHANGED <<taskVars, reqVars, readerVars, pending, chanVars, writerVars>>

TimerReturns ==
    /\ timer = "fired" /\ Idle(Timer)
    /\ timer' = "done"
    /\ UNCHANGED <<taskVars, reqVars, readerVars, pending, chanVars, writerVars>>

-----------------------------------------------------------------------------
(* An operation goroutine.                                                 *)

NotTaskVars == <<reqVars, readerVars, timer, chanVars, writerVars>>

Goto(t, l) == pc' = [pc EXCEPT ![t] = l]

\* The payload of the start message may not be an operation.
Unmarshal(t) ==
    /\ pc[t] = "unmarshal"
    /\ \/ Goto(t, "prepare") /\ UNCHANGED err
       \/ /\ Goto(t, "finish")
          /\ err' = [err EXCEPT ![t] = IF protocol = GTWS THEN "event" ELSE "other"]
    /\ UNCHANGED <<operations, idOf, stopped, executed, canceled, pending, NotTaskVars>>

\* Interceptors, parsing and the start of the execution: any of them may
\* fail or return without calling the next one.
Prepare(t) ==
    /\ pc[t] = "prepare"
    /\ \/ /\ Goto(t, "finish")
          /\ \E e \in {"none", "other", "event"} : err' = [err EXCEPT ![t] = e]
          /\ UNCHANGED executed
       \/ /\ Goto(t, "results")
          /\ executed' = [executed EXCEPT ![t] = TRUE]
          /\ UNCHANGED err
    /\ UNCHANGED <<operations, idOf, stopped, canceled, pending, NotTaskVars>>

\* processResults: one result, written as data; a result with errors is
\* written too and ends the operation.
ResultArrives(t, bad) ==
    /\ pc[t] = "results" /\ Idle(t)
    /\ IF protocol = GTWS /\ Stopped(t) THEN UNCHANGED pending
                                        ELSE Queue(t, <<Msg("data", t)>>)
    /\ IF bad THEN Goto(t, "finish") /\ err' = [err EXCEPT ![t] = "other"]
              ELSE UNCHANGED <<pc, err>>
    /\ UNCHANGED <<operations, idOf, stopped, executed, canceled, NotTaskVars>>

StreamEnds(t) ==
    /\ pc[t] = "results" /\ Idle(t)
    /\ Goto(t, "finish")
    /\ UNCHANGED <<operations, idOf, stopped, executed, canceled, err, pending, NotTaskVars>>

ContextDone_Unwatched(t) == FALSE /\ UNCHANGED vars
ContextDone(t) ==
    /\ pc[t] = "results" /\ Idle(t) /\ Canceled(t)
    /\ Goto(t, "finish")
    /\ err' = [err EXCEPT ![t] = IF Stopped(t) THEN "none" ELSE "other"]
    /\ UNCHANGED <<operations, idOf, stopped, executed, canceled, pending, NotTaskVars>>

\* Errors are reported only while no result was produced; an error message
\* also marks the operation stopped.
Reports(t) == err[t] # "none" /\ ~executed[t]

Finish(t) ==
    /\ pc[t] = "finish" /\ Idle(t)
    /\ Goto(t, "complete")
    /\ IF Reports(t)
       THEN /\ Queue(t, ErrorMessages(err[t], t))
            /\ stopped' = [stopped EXCEPT ![t] = @ \/ err[t] = "other"]
       ELSE UNCHANGED <<pending, stopped>>
    /\ err' = [err EXCEPT ![t] = "none"]
    /\ UNCHANGED <<operations, idOf, executed, canceled, NotTaskVars>>

Completes_Always(t) == TRUE
Completes_UnlessStopped(t) == ~Stopped(t)
Completes(t) == ~Stopped(t) \/ protocol = GWS

Complete(t) ==
    /\ pc[t] = "complete" /\ Idle(t)
    /\ Goto(t, "cancel")
    /\ IF Completes(t) THEN Queue(t, <<Msg("complete", t)>>) ELSE UNCHANGED pending
    /\ UNCHANGED <<operations, idOf, stopped, executed, canceled, err, NotTaskVars>>

CancelOperation(t) ==
    /\ pc[t] = "cancel" /\ Idle(t)
    /\ Goto(t, "delete")
    /\ canceled' = [canceled EXCEPT ![t] = TRUE]
    /\ UNCHANGED <<operations, idOf, stopped, executed, err, pending, NotTaskVars>>

Delete_KeepsEntry(t) ==
    /\ pc[t] = "delete"
    /\ Goto(t, "done")
    /\ UNCHANGED <<operations, idOf, stopped, executed, canceled, err, pending, NotTaskVars>>

\* delete(req.operations, id) and wg.Done().
Delete(t) ==
    /\ pc[t] = "delete"
    /\ Goto(t, "done")
    /\ operations' = [operations EXCEPT ![idOf[t]] = NoTask]
    /\ UNCHANGED <<idOf, stopped, executed, canceled, err, pending, NotTaskVars>>

TaskStep(t) ==
    \/ Unmarshal(t) \/ Prepare(t)
    \/ \E bad \in BOOLEAN : ResultArrives(t, bad)
    \/ StreamEnds(t) \/ ContextDone(t)
    \/ Finish(t) \/ Complete(t) \/ CancelOperation(t) \/ Delete(t)

-----------------------------------------------------------------------------
(* The writer and the websocket.                                           *)

NotWriterVars == <<taskVars, reqVars, readerVars, timer, pending, closed, panicked>>

\* The writer receives a message and writes it in one step: while a write
\* blocks, the channel just stays as full as a slow writer leaves it.
Receive ==
    /\ writer = "loop" /\ outgoing # <<>>
    /\ outgoing' = Tail(outgoing)
    /\ UNCHANGED <<writer, NotWriterVars>>

\* The client's view of an operation: runs of data count once.
Recorded(s, k) == IF k = "data" /\ s # <<>> /\ s[Len(s)] = "data" THEN s ELSE Append(s, k)

Noted(m) == {m.kind} \cap {"ack", "timeout"}

\* WriteJSON succeeds only on a websocket the server has not closed; the
\* client sees what is written before it leaves...
WriteOk ==
    /\ Receive /\ ~IsClose(Head(outgoing)) /\ ws # "closed"
    /\ LET m == Head(outgoing) IN
       IF ws = "broken" THEN UNCHANGED <<delivered, notices>>
       ELSE IF m.task = NoTask
       THEN notices' = notices \cup Noted(m) /\ UNCHANGED delivered
       ELSE /\ delivered' = [delivered EXCEPT ![m.task] = Recorded(@, m.kind)]
            /\ UNCHANGED notices
    /\ UNCHANGED ws

\* ... and any failure, of the connection or of the encoder, closes it.
WriteFails ==
    /\ Receive /\ ~IsClose(Head(outgoing))
    /\ ws' = "closed"
    /\ UNCHANGED <<delivered, notices>>

WriteClose ==
    /\ Receive /\ IsClose(Head(outgoing))
    /\ notices' = IF ws = "open" THEN notices \cup Noted(Head(outgoing)) ELSE notices
    /\ ws' = "closed"
    /\ UNCHANGED delivered

\* A keepalive that is written changes nothing here; one that fails does.
KeepaliveFails ==
    /\ Keepalive /\ writer = "loop"
    /\ ws' = "closed"
    /\ UNCHANGED <<writer, outgoing, delivered, notices, NotWriterVars>>

WriterExits ==
    /\ writer = "loop" /\ closed /\ outgoing = <<>>
    /\ writer' = "done"
    /\ UNCHANGED <<ws, delivered, notices, outgoing, NotWriterVars>>

WriterStep == WriteOk \/ WriteFails \/ WriteClose \/ WriterExits

\* The client, or the network, goes away.
PeerLeaves ==
    /\ ws = "open"
    /\ ws' = "broken"
    /\ UNCHANGED <<writer, outgoing, delivered, notices, NotWriterVars>>

\* The context of the HTTP request ends: nothing in the connection watches
\* it but the contexts derived from it.
ParentCancel ==
    /\ ParentCancels /\ ~reqCanceled /\ rpc # "done"
    /\ reqCanceled' = TRUE
    /\ UNCHANGED <<taskVars, protocol, init, reqStopped, readerVars, timer, pending, chanVars, writerVars>>

-----------------------------------------------------------------------------
\* The handler has returned and every goroutine of the connection is over.
Terminated ==
    \/ panicked
    \/ writer = "done" /\ timer \in {"off", "done"}

Step ==
    \/ ReaderMessage \/ ReaderStep
    \/ TimerFires \/ TimerCanceled \/ TimerReturns
    \/ \E t \in Tasks : TaskStep(t)
    \/ \E g \in Goroutines : Send(g) \/ Drop(g) \/ SendPanics(g)
    \/ WriterStep \/ KeepaliveFails
    \/ PeerLeaves \/ ParentCancel

Next ==
    \/ ~panicked /\ Step
    \/ Terminated /\ UNCHANGED vars

Spec == Init /\ [][Next]_vars

\* The Go scheduler runs every goroutine that can run.  Senders wait in
\* order, and a select that is ready for two reasons chooses at random: a
\* send, and the end of a cancelled operation, are not put off for ever.
\* Only finitely many messages can have arrived before the websocket went.
\* Interceptors and resolvers are taken to return; results, and the end of
\* an operation's results, need never come.  Nor need a write: there is no
\* deadline on it, and a client that stays and does not read holds it up for
\* as long as it likes.
Fairness ==
    /\ WF_vars(~panicked /\ ReaderStep) /\ SF_vars(~panicked /\ ReadFails)
    /\ WF_vars(~panicked /\ ws # "open" /\ WriterStep) /\ WF_vars(~panicked /\ WriterExits)
    /\ WF_vars(~panicked /\ (TimerFires \/ TimerCanceled \/ TimerReturns))
    /\ \A g \in Goroutines : SF_vars(~panicked /\ (Send(g) \/ Drop(g)))
    /\ \A t \in Tasks :
          /\ WF_vars(~panicked /\ (Unmarshal(t) \/ Prepare(t) \/ Finish(t) \/ Complete(t)
                                   \/ CancelOperation(t) \/ Delete(t)))
          /\ SF_vars(~panicked /\ ContextDone(t))

FairSpec == Spec /\ Fairness

-----------------------------------------------------------------------------
(* Properties.                                                             *)

Pcs == {"idle", "unmarshal", "prepare", "results", "finish", "complete", "cancel", "delete", "done"}
ReaderPcs == {"read", "signal", "initialise", "stopMark", "stopCancel", "fail", "cancel", "wait", "done"}

\* The type of the state of a connection.
TypeOK ==
    /\ protocol \in Protocols
    /\ operations \in [Ids -> Tasks \cup {NoTask}]
    /\ idOf \in [Tasks -> Ids \cup {NoTask}]
    /\ pc \in [Tasks -> Pcs]
    /\ stopped \in [Tasks -> BOOLEAN] /\ executed \in [Tasks -> BOOLEAN]
    /\ canceled \in [Tasks -> BOOLEAN]
    /\ err \in [Tasks -> Errors]
    /\ {init, reqStopped, reqCanceled, closed, panicked} \subseteq BOOLEAN
    /\ rpc \in ReaderPcs
    /\ target \in Tasks \cup {NoTask}
    /\ failure \in Errors
    /\ timer \in {"off", "waiting", "fired", "done"}
    /\ pending \in [Goroutines -> Seq(Message)]
    /\ outgoing \in Seq(Message) /\ Len(outgoing) <= ChanCap
    /\ writer \in {"loop", "done"}
    /\ ws \in {"open", "broken", "closed"}
    /\ delivered \in [Tasks -> Seq(Kinds)]
    /\ notices \subseteq {"ack", "timeout"}

\* "nothing will write to req.outgoing from this point" (server_websocket.go,
\* 364): no goroutine sends on the channel after the reader closed it.
NoSendOnClosed == ~panicked

\* The operations table holds exactly the operations under way, each under
\* its own id: deleting by id never removes a successor's entry, so a stop
\* always reaches the operation the client means.
TableConsistent ==
    /\ \A i \in Ids : operations[i] # NoTask =>
          Live(operations[i]) /\ idOf[operations[i]] = i
    /\ \A t \in Tasks : Live(t) => idOf[t] \in Ids /\ operations[idOf[t]] = t

\* The handler returns last: when the writer leaves its loop no operation
\* runs, nobody is left with a message to send, none is left unread, and the
\* contexts of the operations are released.
HandlerReturnsLast ==
    writer = "done" => /\ AllTasksDone /\ reqCanceled
                       /\ \A g \in Goroutines : Idle(g)
                       /\ outgoing = <<>>

\* A graphql-transport-ws client receives nothing of an operation before the
\* acknowledgement of its connection_init.  (Of a connection whose request
\* context nobody else cancels: a cancelled request drops the ack.)
AckFirst ==
    protocol = GTWS /\ (\E t \in Tasks : delivered[t] # <<>>) => "ack" \in notices

\* When a stop has cancelled an operation that still runs, the operation can
\* see that it was stopped: it must neither report the cancellation nor
\* complete a graphql-transport-ws operation the client already completed.
StopBeforeCancel ==
    \A t \in Tasks : canceled[t] /\ pc[t] \notin {"delete", "done"} => stopped[t]

\* The client is never both told that the connection is initialised and
\* closed for not initialising it in time.
TimeoutExcludesAck == ~ ({"ack", "timeout"} \subseteq notices)

\* readWebsocketInit puts the context of the Init interceptor in place of
\* req.ctx, under no lock, and backgroundTimeout reads req.ctx when it waits
\* and when it reports: it is over before the reader gets there.
ContextNotRaced == rpc = "initialise" => timer \in {"off", "done"}

\* "readWebsocket exit is ensured by closing a websocket on any error"
\* (server_websocket.go, 93): once the websocket is closed, or its client
\* gone, the reader ends and the handler returns.
HandlerReturns == (ws # "open") ~> (writer = "done")

\* The client goes on reading what it is sent, so that every write ends.
ClientReads == WF_vars(~panicked /\ WriterStep)

\* An operation whose context was cancelled, by a stop, by the end of the
\* connection or by the request's own context, ends, unless the client stops
\* reading: writeWebsocketMessage waits for the channel and for the end of the
\* request, but not for the end of the operation.
CanceledEnds ==
    ClientReads => \A t \in Tasks : (Live(t) /\ Canceled(t)) ~> (pc[t] = "done")

\* A graphql-ws client that stops an operation is told that it is complete,
\* for as long as there is a connection to tell it on and it reads.
StopIsAnswered ==
    ClientReads =>
        \A t \in Tasks :
            (protocol = GWS /\ canceled[t]) ~>
                \/ delivered[t] # <<>> /\ delivered[t][Len(delivered[t])] = "complete"
                \/ ws # "open" \/ reqCanceled

\* Refinement: messages of a task that were not written yet.
Undelivered(t) ==
    \/ \E n \in DOMAIN pending[t] : pending[t][n].task = t
    \/ \E n \in DOMAIN outgoing : outgoing[n].task = t

Phase(t) == IF pc[t] = "idle" THEN "new"
            ELSE IF Live(t) THEN "live"
            ELSE IF Undelivered(t) THEN "draining" ELSE "closed"

Stream == INSTANCE OperationStream WITH
              phase <- [t \in Tasks |-> Phase(t)],
              lost  <- ws # "open" \/ reqCanceled

\* The connection keeps the promises of OperationStream to its client.
StreamSpec == Stream!Spec

\* Refinement: each operation by itself lives as OperationLife says, which
\* Operation implements too.
Place(t) ==
    CASE pc[t] \in {"idle", "unmarshal"} -> "decoding"
      [] pc[t] = "prepare" -> "preparing"
      [] pc[t] = "results" -> "results"
      [] pc[t] = "finish"  -> "ending"
      [] pc[t] = "done"    -> "over"
      [] OTHER             -> "leaving"

Life(t) == INSTANCE OperationLife WITH
               place    <- Place(t),
               failure  <- err[t],
               executed <- executed[t],
               stopped  <- Stopped(t),
               canceled <- Canceled(t)

\* \A t \in Tasks : Life(t)!Spec, as one formula.
LivesSpec ==
    /\ \A t \in Tasks : Life(t)!Init
    /\ [][\A t \in Tasks : [Life(t)!Next]_(Life(t)!lifeVars)]_vars

\* EventSubscriberAlreadyExists is for an id "not yet terminated by either
\* OperationComplete or OperationError" (apollows/proto.go, 170-171): a start
\* is not refused for an operation whose end its client has been told.
ExistsMeansActive ==
    [][failure # "exists" /\ failure' = "exists"
         => ~Stream!Over(delivered[target'])]_vars
=============================================================================
