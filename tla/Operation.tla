----------------------------- MODULE Operation ------------------------------
(***************************************************************************)
(* One operation of a websocket connection, from its start message to the  *)
(* end of its goroutine: readWebsocketStart, the interceptor of            *)
(* otelwsgraphql around serveWebsocketOperation, the parsing of Extensions,*)
(* processResult and handleError, with what the reader does meanwhile: it  *)
(* reads a ping into a message of its own, and may stop the operation.     *)
(* That the connection may go down, and the complete that follows, are     *)
(* WsConnection's matter.                                                  *)
(***************************************************************************)
EXTENDS Extensions, ErrorFormat, Payloads

CONSTANTS
    Garbage,    \* a JSON text that is no operation
    MaxResults  \* bounds the results

ASSUME ResultAssumption == MaxResults \in Nat \ {0}

GWS  == "graphql-ws"
GTWS == "graphql-transport-ws"

VARIABLES
    protocol,  \* of the connection
    sent,      \* what the client put on the wire: the start message, the ping
    memory,    \* the variables msg that the reader decoded into
    step,      \* where the goroutine of the operation is
    operr,     \* its error
    executed,  \* ContextKeyOperationExecuted
    stopped,   \* ContextKeyOperationStopped
    canceled,  \* opctx.Cancel() was called
    table,     \* the ids in req.operations
    span,      \* the span of the operation
    results,   \* results received so far
    raised,    \* history: the failures there were
    swallowed, \* history: those that an interceptor took or replaced
    told,      \* history: the messages about failures, as sent
    pong       \* history: the payload of the pong, in a sequence

goVars   == <<protocol, sent>>
readVars == <<memory, pong>>
opVars   == <<operr, executed, stopped, canceled, table, span, results, raised, swallowed, told>>
operationVars == <<vars, goVars, readVars, step, opVars>>

NoMessage == [ID |-> Nil, Payload |-> EmptyData]
NoError   == [type |-> "nil", errors |-> {}]

\* The payload of the start message may be no operation, or be left out.
Texts == Documents \cup {Garbage, Nil}

\* Nil is no text, and no payload.
ASSUME NilAssumption ==
    /\ Nil # Null /\ {Nil, Garbage} \cap Documents = {}
    /\ \A text \in Documents \cup {Null} : Nil # [Value |-> text, RawMessage |-> Nil]

OperationInit ==
    /\ Init
    /\ protocol \in {GWS, GTWS}
    /\ sent \in [start : Texts, ping : Documents \cup {Null, Nil}]
    /\ sent.start \in Documents => document = sent.start
    /\ sent.start \notin Documents => document = [ops |-> {"query"}, chosen |-> "query"]
    /\ memory = [n \in {1, 2} |-> IF n = 1 THEN [ID |-> "1", Payload |-> Decode(EmptyData, sent.start)]
                                           ELSE NoMessage]
    /\ step = "unmarshal"
    /\ operr = NoError
    /\ executed = FALSE /\ stopped = FALSE /\ canceled = FALSE
    /\ table = {"1"}
    /\ span = [open |-> FALSE, status |-> "unset", ends |-> 0]
    /\ results = 0
    /\ raised = {} /\ swallowed = {} /\ told = <<>> /\ pong = <<>>

Goto(s) == step' = s

-----------------------------------------------------------------------------
(* The reader.                                                             *)

\* msg is declared in the loop of readWebsocket: the goroutine of an
\* operation keeps the one its start was read into.
Slot_Shared(n) == 1
Slot(n) == n

\* A ping without an id, answered with its payload.
ReadPing ==
    /\ pong = <<>>
    /\ LET old == memory[Slot(2)]
           msg == [ID |-> old.ID, Payload |-> Decode(old.Payload, sent.ping)]
       IN  /\ memory' = [memory EXCEPT ![Slot(2)] = msg]
           /\ pong' = <<Encode([Value |-> msg.Payload.Value, RawMessage |-> Nil])>>
    /\ UNCHANGED <<vars, goVars, step, opVars>>

ReadStop ==
    /\ "1" \in table /\ ~canceled
    /\ stopped' = TRUE /\ canceled' = TRUE
    /\ UNCHANGED <<vars, goVars, readVars, step, operr, executed, table, span, results,
                   raised, swallowed, told>>

-----------------------------------------------------------------------------
(* The goroutine, up to the execution.                                     *)

notEarly == <<executed, stopped, canceled, table, results, swallowed, told>>

Raise(type, errs) ==
    /\ operr' = [type |-> type, errors |-> errs]
    /\ raised' = raised \cup {e.about : e \in errs}

Undecodable(text) == text \notin Documents

Unmarshal ==
    /\ step = "unmarshal"
    /\ LET text == memory[Slot(1)].Payload.RawMessage IN
       IF Undecodable(text)
       THEN /\ Goto("report")
            /\ Raise(IF protocol = GTWS THEN "close" ELSE "plain",
                     {GoError(Panic("Unmarshal", "query"), FALSE, "raw")})
            /\ UNCHANGED document
       ELSE Goto("span") /\ document' = text /\ UNCHANGED <<operr, raised>>
    /\ UNCHANGED <<pc, idx, context, finishers, errors, parsed, ast, flag, called,
                   goVars, readVars, notEarly, span>>

StartSpan ==
    /\ step = "span"
    /\ span' = [span EXCEPT !.open = TRUE]
    /\ Goto("operation")
    /\ UNCHANGED <<vars, goVars, readVars, notEarly, operr, raised>>

\* An interceptor further in may refuse the operation, what was parsed of it,
\* or its execution, with an error that has extensions or not, or with one that
\* closes the websocket.
Refused(place) ==
    /\ \E extends \in BOOLEAN, type \in {"plain", "close"} :
          Raise(type, {GoError(Panic(place, "interceptor"), extends, "raw")})
    /\ Goto("return")

\* Or return without an error and without calling its handler.
InterceptOperation ==
    /\ step = "operation"
    /\ \/ Refused("Operation")
       \/ Goto("return") /\ UNCHANGED <<operr, raised>>
       \/ Goto("parse") /\ UNCHANGED <<operr, raised>>
    /\ UNCHANGED <<vars, goVars, readVars, notEarly, span>>

\* parseAST, step by step; its errors are formatted already.
Parse ==
    /\ step = "parse" /\ ParseStep
    /\ UNCHANGED <<goVars, readVars, step, opVars>>

ParseReturns ==
    /\ step = "parse" /\ Ended
    /\ \/ /\ pc = "rejected"
          /\ Raise("result", {GqlFormat(GoError(e, FALSE, "raw")) : e \in errors})
          /\ Goto("return")
       \/ pc # "rejected" /\ Refused("OperationParse")
       \/ pc # "rejected" /\ Goto("execute") /\ UNCHANGED <<operr, raised>>
    /\ UNCHANGED <<vars, goVars, readVars, notEarly, span>>

notExecuted == <<stopped, canceled, table, results, swallowed, told>>

Execute_MarksEarly ==
    /\ step = "execute"
    /\ executed' = TRUE
    /\ \/ Refused("OperationExecute")
       \/ Goto("results") /\ UNCHANGED <<operr, raised>>
    /\ UNCHANGED <<vars, goVars, readVars, notExecuted, span>>

\* processResults marks the operation, so that its errors are not told again.
Execute ==
    /\ step = "execute"
    /\ \/ Refused("OperationExecute") /\ UNCHANGED executed
       \/ Goto("results") /\ executed' = TRUE /\ UNCHANGED <<operr, raised>>
    /\ UNCHANGED <<vars, goVars, readVars, notExecuted, span>>

-----------------------------------------------------------------------------
(* processResults.                                                         *)

\* Resolvers fail with located errors, subscriptions with raw ones; a result
\* of OnOperationResult has an error in place of its data.
FieldErrors == {{}} \cup {{GqlFormat(GoError(Panic("Result", "field"), extends, shape))} :
                             extends \in BOOLEAN, shape \in {"raw", "located"}}
DataErrors  == {{}} \cup {{GoError(Panic("Result", "data"), extends, "raw")} : extends \in BOOLEAN}

\* writeWebsocketData: a stopped graphql-transport-ws client gets no more.
WriteData(errs) ==
    told' = IF errs = {} \/ (protocol = GTWS /\ stopped) THEN told
            ELSE Append(told, [type |-> "data", payload |-> "object", errors |-> errs])

notLate == <<executed, stopped, canceled, table, swallowed>>

Result_Swallowed ==
    /\ step = "results" /\ results < MaxResults
    /\ results' = results + 1
    /\ \E field \in FieldErrors, data \in DataErrors :
          LET errs == {FormatError(e) : e \in field \cup data} IN
          /\ WriteData(errs)
          /\ raised' = raised \cup {e.about : e \in errs}
    /\ UNCHANGED <<vars, goVars, readVars, step, operr, notLate, span>>

\* processResult: a result with errors is written, and ends the operation.
Result ==
    /\ step = "results" /\ results < MaxResults
    /\ results' = results + 1
    /\ \E field \in FieldErrors, data \in DataErrors :
          LET errs == {FormatError(e) : e \in field \cup data} IN
          /\ WriteData(errs)
          /\ IF errs = {} THEN UNCHANGED <<step, operr, raised>>
                          ELSE Raise("result", errs) /\ Goto("return")
    /\ UNCHANGED <<vars, goVars, readVars, notLate, span>>

\* The results end, or the context does, which a stop has marked.
ResultsEnd ==
    /\ step = "results"
    /\ Goto("return")
    /\ UNCHANGED <<vars, goVars, readVars, opVars>>

-----------------------------------------------------------------------------
(* The way out.                                                            *)

About(m) == {e.about : e \in m.errors}

Late == Panic("OperationReturn", "interceptor")

\* What the interceptors further in return after their handler has returned,
\* OnOperationDone among them: the error they got, one of their own, or none.
InterceptorReturns ==
    /\ step = "return"
    /\ Goto("endSpan")
    /\ \/ UNCHANGED <<operr, raised, swallowed>>
       \/ /\ \E extends \in BOOLEAN, type \in {"plain", "close"} :
                Raise(type, {GoError(Late, extends, "raw")})
          /\ swallowed' = swallowed \cup About(operr)
       \/ operr' = NoError /\ swallowed' = swallowed \cup About(operr) /\ UNCHANGED raised
    /\ UNCHANGED <<vars, goVars, readVars, executed, stopped, canceled, table, results, told, span>>

\* The interceptor of the span reports on it what the operation returns.
EndSpan ==
    /\ step = "endSpan"
    /\ span' = [open |-> FALSE, status |-> IF operr # NoError THEN "error" ELSE "ok",
                ends |-> span.ends + 1]
    /\ Goto("report")
    /\ UNCHANGED <<vars, goVars, readVars, notEarly, operr, raised>>

Message(type, payload, errs) == <<[type |-> type, payload |-> payload, errors |-> errs]>>

handleError_AlwaysCombines(err) ==
    IF err.type = "close" THEN Message("close", "text", err.errors)
    ELSE Message("error", "object", IF err.type = "result" THEN combineErrors(err.errors)
                                    ELSE {GqlFormat(e) : e \in err.errors})

handleError(err) ==
    LET formatted == {GqlFormat(e) : e \in err.errors} IN
    CASE err.type = "close" ->
            (IF protocol = GWS THEN Message("connection_error", "object", formatted) ELSE <<>>)
                \o Message("close", "text", err.errors)
      [] err.type = "result" ->
            IF protocol = GWS THEN Message("error", "object", combineErrors(err.errors))
                              ELSE Message("error", "list", err.errors)
      [] OTHER -> Message("error", "object", formatted)

\* Errors are told unless results were; an error message marks the operation.
Report ==
    /\ step = "report"
    /\ Goto("cancel")
    /\ IF operr # NoError /\ ~executed
       THEN told' = told \o handleError(operr) /\ stopped' = (stopped \/ operr.type # "close")
       ELSE UNCHANGED <<told, stopped>>
    /\ UNCHANGED <<vars, goVars, readVars, operr, executed, canceled, table, span, results,
                   raised, swallowed>>

CancelAndDelete_Unreleased ==
    /\ step = "cancel"
    /\ table' = table \ {memory[Slot(1)].ID}
    /\ Goto("done")
    /\ UNCHANGED <<vars, goVars, readVars, operr, executed, stopped, canceled, span, results,
                   raised, swallowed, told>>

CancelAndDelete ==
    /\ step = "cancel"
    /\ canceled' = TRUE
    /\ table' = table \ {memory[Slot(1)].ID}
    /\ Goto("done")
    /\ UNCHANGED <<vars, goVars, readVars, operr, executed, stopped, span, results,
                   raised, swallowed, told>>

OperationNext ==
    \/ ReadPing \/ ReadStop
    \/ Unmarshal \/ StartSpan \/ InterceptOperation \/ Parse \/ ParseReturns \/ Execute
    \/ Result \/ ResultsEnd \/ InterceptorReturns \/ EndSpan \/ Report \/ CancelAndDelete
    \/ step = "done" /\ UNCHANGED operationVars

OperationSpec == OperationInit /\ [][OperationNext]_operationVars

-----------------------------------------------------------------------------
(* Properties.                                                             *)

Steps == {"unmarshal", "span", "operation", "parse", "execute", "results",
          "return", "endSpan", "report", "cancel", "done"}

\* Types, those of Extensions among them; and the span is open exactly while
\* the operation is handled inside the interceptor.
OperationTypeOK ==
    /\ TypeOK
    /\ protocol \in {GWS, GTWS}
    /\ step \in Steps
    /\ operr.type \in {"nil", "plain", "close", "result"} /\ IsFiniteSet(operr.errors)
    /\ {executed, stopped, canceled} \subseteq BOOLEAN
    /\ table \subseteq {"1"}
    /\ results \in 0..MaxResults
    /\ swallowed \subseteq raised
    /\ span.open <=> step \in {"operation", "parse", "execute", "results", "return", "endSpan"}

\* An error that is not part of a result is told unless an interceptor kept it
\* from the caller, or returned it when the operation had been executed.
MustBeTold(f) ==
    \/ f.hook = "Result"
    \/ f \notin swallowed /\ ~(executed /\ f = Late)

\* Whatever fails, in a hook of an extension, an interceptor or a resolver, is
\* told to the client once, by the result it is part of, or by the error of the
\* operation, or in closing the websocket (which graphql-ws announces); but what
\* an interceptor swallowed, or returned after the execution, is told to nobody,
\* although callbacks.go 61-62 says that what OnOperationDone returns closes the
\* websocket.  Only the results of a stopped operation need not be told.
EveryFailureTold ==
    /\ step = "done" /\ ~(executed /\ stopped) =>
          \A f \in raised :
              Cardinality({i \in DOMAIN told : f \in About(told[i])
                                               /\ told[i].type # "connection_error"})
                = IF MustBeTold(f) THEN 1 ELSE 0
    /\ \A i \in DOMAIN told : About(told[i]) \subseteq raised

\* An operation whose payload could be read has one span, which ends with it;
\* its status is an error if and only if something failed, be it in a result
\* that was sent as data, and no interceptor swallowed it.
SpanAgrees ==
    step = "done" =>
        IF sent.start \in Documents
        THEN span.ends = 1 /\ (span.status = "error" <=> raised \ swallowed # {})
        ELSE span.ends = 0

\* The extensions of an error that was raised by a resolver, or returned by
\* OnOperationResult, reach the client, though graphql-go drops those of an
\* error that it does not find inside a located one (wrapExtendedError).
ExtensionsKept ==
    \A i \in DOMAIN told :
        told[i].type = "data" => \A e \in told[i].errors : e.extends => e.shows

\* A client of a graphql-ws server reads the errors of a rejected operation as
\* one (ReadPayloadError), one of graphql-transport-ws as a list
\* (ReadPayloadErrors), and finds all of them, if no interceptor replaced them.
RejectionsReadable ==
    \A i \in DOMAIN told :
        told[i].type = "error" /\ pc = "rejected" /\ Late \notin raised =>
            LET m == told[i]
                read == IF protocol = GWS THEN ReadPayloadError(m.payload, m.errors)
                                          ELSE ReadPayloadErrors(m.payload, m.errors)
            IN  {e.about : e \in read} = errors

\* An operation is that of its own start message, although the goroutine reads
\* the payload when the reader may have read on: Data keeps the text it was
\* given without copying it.
OwnMessage ==
    step # "unmarshal" =>
        /\ sent.start \in Documents <=> Panic("Unmarshal", "query") \notin raised
        /\ sent.start \in Documents => document = sent.start

\* "identity re-serialization" (UnmarshalJSON of Data): a pong has the payload
\* of its ping, and none if the ping had none.
PongEchoes == pong # <<>> => pong[1] = sent.ping

\* Where the goroutine is, and how it fails, for the rest of the connection.
Place ==
    CASE step = "unmarshal" -> "decoding"
      [] step \in {"span", "operation", "parse", "execute"} -> "preparing"
      [] step = "results" -> "results"
      [] step = "return" -> IF executed THEN "results" ELSE "preparing"
      [] step \in {"endSpan", "report"} -> "ending"
      [] step = "cancel" -> "leaving"
      [] OTHER -> "over"

Failure == IF Place # "ending" \/ operr = NoError THEN "none"
           ELSE IF operr.type = "close" THEN "event" ELSE "other"

Life == INSTANCE OperationLife WITH place <- Place, failure <- Failure

\* Refinement: the operation lives as those of WsConnection do, whatever its
\* extensions, interceptors and results do inside of it: it is executed at most
\* once, reports in its turn, and releases its context before it is over.
LifeSpec == Life!Spec
=============================================================================
