--------------------------- MODULE MutableContext ---------------------------
(***************************************************************************)
(* The tree of mutable contexts of one request (mutable/api.go) and the    *)
(* accessors of context.go: the request context and below it the contexts  *)
(* of its operations.  Several goroutines set values, look them up and     *)
(* cancel contexts; a lookup takes the lock of one level at a time.  Plain *)
(* requests and websockets use the tree alike, their flags are all here.   *)
(***************************************************************************)
EXTENDS Naturals, FiniteSets

CONSTANTS
    Root,        \* the request context, created by ServeHTTP
    Operations,  \* the operation contexts
    Goroutines,  \* those that look values up
    Nil,         \* no value
    MaxSets      \* bounds how often the application sets its value

ASSUME TreeAssumption ==
    /\ Root \notin Operations
    /\ Nil \notin (Operations \cup {Root}) \X Nat
ASSUME BoundAssumption == MaxSets \in Nat \ {0}

VARIABLES
    values,  \* per context and key: 0 for never set; the application's value
             \* counts how often it was
    life,    \* per operation: how far it is
    done,    \* the contexts whose Done channel is closed
    cause,   \* history: what closed it
    stop,    \* per operation: how far the client's stop got
    job,     \* per goroutine: the lookup it is at
    seen,    \* history: the values that were visible during that lookup
    marked,  \* history: the flags the code set, as <<context, key>>
    verdict  \* history: what processResults made of a canceled context

vars == <<values, life, done, cause, stop, job, seen, marked, verdict>>

Contexts == {Root} \cup Operations
Keys == {"RequestContext", "Started", "OperationContext", "Executed", "Stopped", "App"}
Flags == {"Started", "Executed", "Stopped"}
Purposes == {"value", "judge", "mark"}
Lives == {"unborn", "running", "executing", "failing", "finished"}

IdleJob == [why |-> "none", from |-> Root, key |-> "App", flag |-> "none", at |-> Root,
            shadowed |-> FALSE]
Values == {Nil} \cup (Contexts \X (1..MaxSets))

Entry(vs, c, k) == IF vs[c][k] = 0 THEN Nil ELSE <<c, vs[c][k]>>

\* What a lookup made in one piece would find.
Visible(vs, c, k) == IF vs[c][k] # 0 THEN Entry(vs, c, k) ELSE Entry(vs, Root, k)

Init ==
    /\ values = [c \in Contexts |-> [k \in Keys |->
                    IF c = Root /\ k = "RequestContext" THEN 1 ELSE 0]]
    /\ life = [o \in Operations |-> "unborn"]
    /\ done = {}
    /\ cause = [c \in Contexts |-> "none"]
    /\ stop = [o \in Operations |-> "none"]
    /\ job = [g \in Goroutines |-> IdleJob]
    /\ seen = [g \in Goroutines |-> {}]
    /\ marked = {}
    /\ verdict = [o \in Operations |-> "none"]

-----------------------------------------------------------------------------
(* Creation, Set and Cancel.                                               *)

Raise(c, k) == values' = [values EXCEPT ![c][k] = 1]

\* NewMutableContext, and Set(ContextKeyOperationContext) before anyone else
\* has the context.  Below a canceled context it is born canceled.
NewOperation(o) ==
    /\ life[o] = "unborn"
    /\ life' = [life EXCEPT ![o] = "running"]
    /\ Raise(o, "OperationContext")
    /\ done' = IF Root \in done THEN done \cup {o} ELSE done
    /\ cause' = IF Root \in done THEN [cause EXCEPT ![o] = "request"] ELSE cause
    /\ UNCHANGED <<stop, job, marked, verdict>>

\* A callback, an interceptor or a resolver sets a value of the application,
\* on the context of its operation or of the request.
Set(c) ==
    /\ c \in Operations => life[c] # "unborn"
    /\ values[c]["App"] < MaxSets
    /\ values' = [values EXCEPT ![c]["App"] = @ + 1]
    /\ UNCHANGED <<life, done, cause, stop, job, marked, verdict>>

Cancel_WithParent(c, why) ==
    /\ done' = done \cup {c, Root}
    /\ cause' = IF c \in done THEN cause ELSE [cause EXCEPT ![c] = why]

Cancel(c, why) ==
    /\ done' = done \cup {c}
    /\ cause' = IF c \in done THEN cause ELSE [cause EXCEPT ![c] = why]

\* The operation's own goroutine looks something up.
Busy(o) == \E g \in Goroutines : job[g].why \in {"judge", "mark"} /\ job[g].from = o

\* The cancel at the end of an operation.
Finish(o) ==
    /\ life[o] \in {"running", "executing", "failing"} /\ ~Busy(o)
    /\ life' = [life EXCEPT ![o] = "finished"]
    /\ Cancel(o, "finish")
    /\ UNCHANGED <<values, stop, job, marked, verdict>>

\* The end of ServeHTTP, of the websocket's reader or writer.
CancelRequest ==
    /\ Root \notin done
    /\ Cancel(Root, "request")
    /\ UNCHANGED <<values, life, stop, job, marked, verdict>>

\* The context package cancels the children one after the other.
Propagate(o) ==
    /\ Root \in done /\ life[o] # "unborn" /\ o \notin done
    /\ Cancel(o, "request")
    /\ UNCHANGED <<values, life, stop, job, marked, verdict>>

StopMark_AfterCancel(o) ==
    /\ life[o] # "unborn" /\ stop[o] = "none"
    /\ stop' = [stop EXCEPT ![o] = "marked"]
    /\ Cancel(o, "stop")
    /\ UNCHANGED <<values, life, job, marked, verdict>>

\* readWebsocketStop, in its two steps; the operation may be over already.
StopMark(o) ==
    /\ life[o] # "unborn" /\ stop[o] = "none"
    /\ stop' = [stop EXCEPT ![o] = "marked"]
    /\ Raise(o, "Stopped")
    /\ marked' = marked \cup {<<o, "Stopped">>}
    /\ UNCHANGED <<life, done, cause, job, verdict>>

StopCancel(o) ==
    /\ stop[o] = "marked"
    /\ stop' = [stop EXCEPT ![o] = "canceled"]
    /\ Cancel(o, "stop")
    /\ UNCHANGED <<values, life, job, marked, verdict>>

-----------------------------------------------------------------------------
(* Value, one level per step, and the uses the code makes of it.           *)

BeginLookup(g, c, k, why, flag) ==
    /\ job[g] = IdleJob
    /\ job' = [job EXCEPT ![g] = [why |-> why, from |-> c, key |-> k, flag |-> flag, at |-> c,
                                  shadowed |-> values[c][k] # 0]]
    /\ UNCHANGED <<values, done, cause, stop, marked, verdict>>

\* Anyone who holds a context reads a value or a flag.
Value(g, c, k) ==
    /\ c \in Operations => life[c] # "unborn"
    /\ BeginLookup(g, c, k, "value", "none")
    /\ UNCHANGED life

\* The accessors: RequestContext(c) or OperationContext(c) is looked up first,
\* and the flag is set on what was found.
Mark(g, c, accessor, flag) == BeginLookup(g, c, accessor, "mark", flag)

\* A result is written in answer to a plain request: the response has begun.
MarkStarted(g, c) ==
    /\ c \in Operations => life[c] # "unborn"
    /\ Mark(g, c, "RequestContext", "Started")
    /\ UNCHANGED life

\* processResults begins.
Execute(g, o) ==
    /\ life[o] = "running" /\ ~Busy(o)
    /\ Mark(g, o, "OperationContext", "Executed")
    /\ life' = [life EXCEPT ![o] = "executing"]

\* processResults: the context is done; was the operation stopped?
Judge(g, o) ==
    /\ life[o] = "executing" /\ ~Busy(o)
    /\ o \in done /\ verdict[o] = "none"
    /\ BeginLookup(g, o, "Stopped", "judge", "none")
    /\ UNCHANGED life

\* An operation that was not executed reports its error to the websocket, and
\* is stopped by that.
Fail(g, o) ==
    /\ life[o] = "running" /\ ~Busy(o)
    /\ Mark(g, o, "OperationContext", "Stopped")
    /\ life' = [life EXCEPT ![o] = "failing"]

\* The websocket's reader reports an error that belongs to no operation, by the
\* same writeWebsocketMessage: it hands over the request's context.
FailReading(g) == Mark(g, Root, "OperationContext", "Stopped") /\ UNCHANGED life

\* The client terminates the connection: the request is marked, and with it
\* whatever operation asks.
Terminate(g) == Mark(g, Root, "RequestContext", "Stopped") /\ UNCHANGED life

ClimbsFrom_ParentFirst(g) ==
    job[g].at # Root /\ values[Root][job[g].key] = 0

\* Nothing is stored at this level, and there is a level above.
ClimbsFrom(g) == job[g].at # Root /\ values[job[g].at][job[g].key] = 0

Climb(g) ==
    /\ job[g].why # "none" /\ ClimbsFrom(g)
    /\ job' = [job EXCEPT ![g].at = Root]
    /\ UNCHANGED <<values, life, done, cause, stop, marked, verdict>>

\* The level the lookup found its value at: when this one has none, the
\* answer is the one of the level above.
Found(g) == Entry(values, job[g].at, job[g].key)
Answers(g) == job[g].why # "none" /\ ~ClimbsFrom(g)

AnswerValue(g) ==
    /\ Answers(g) /\ job[g].why = "value"
    /\ job' = [job EXCEPT ![g] = IdleJob]
    /\ UNCHANGED <<values, life, done, cause, stop, marked, verdict>>

AnswerJudge(g) ==
    /\ Answers(g) /\ job[g].why = "judge"
    /\ verdict' = [verdict EXCEPT ![job[g].from] =
                      IF Found(g) = Nil THEN "canceled" ELSE "stopped"]
    /\ job' = [job EXCEPT ![g] = IdleJob]
    /\ UNCHANGED <<values, life, done, cause, stop, marked>>

\* The context an accessor is asked for: none, for the operation's context from
\* where there is no operation.
Targets(c, accessor) == IF accessor = "RequestContext" THEN {Root} ELSE {c} \cap Operations

AnswerMark_OnWhatItHas(g) ==
    /\ Answers(g) /\ job[g].why = "mark"
    /\ LET c == IF Found(g) = Nil THEN job[g].from ELSE Found(g)[1]
       IN  values' = [values EXCEPT ![c][job[g].flag] = 1]
    /\ marked' = marked \cup (Targets(job[g].from, job[g].key) \X {job[g].flag})
    /\ job' = [job EXCEPT ![g] = IdleJob]
    /\ UNCHANGED <<life, done, cause, stop, verdict>>

\* Found nothing: defaultMutcontext makes a context that nobody else has, and
\* the flag is set there.
AnswerMark(g) ==
    /\ Answers(g) /\ job[g].why = "mark"
    /\ values' = IF Found(g) = Nil THEN values
                 ELSE [values EXCEPT ![Found(g)[1]][job[g].flag] = 1]
    /\ marked' = marked \cup (Targets(job[g].from, job[g].key) \X {job[g].flag})
    /\ job' = [job EXCEPT ![g] = IdleJob]
    /\ UNCHANGED <<life, done, cause, stop, verdict>>

-----------------------------------------------------------------------------
Step ==
    \/ \E o \in Operations :
          \/ NewOperation(o) \/ Finish(o) \/ Propagate(o)
          \/ StopMark(o) \/ StopCancel(o)
    \/ CancelRequest
    \/ \E c \in Contexts : Set(c)
    \/ \E g \in Goroutines :
          \/ \E c \in Contexts : MarkStarted(g, c) \/ \E k \in Flags \cup {"App"} : Value(g, c, k)
          \/ \E o \in Operations : Execute(g, o) \/ Judge(g, o) \/ Fail(g, o)
          \/ FailReading(g) \/ Terminate(g)
          \/ Climb(g) \/ AnswerValue(g) \/ AnswerJudge(g) \/ AnswerMark(g)

\* seen only records.
Observe ==
    seen' = [g \in Goroutines |->
                IF job'[g] = IdleJob THEN {}
                ELSE seen[g] \cup {Visible(values', job'[g].from, job'[g].key)}]

Next == Step /\ Observe

Spec == Init /\ [][Next]_vars

-----------------------------------------------------------------------------
(* Properties.                                                             *)

\* Operations are set up before they are used.
LifeCycle ==
    \A p \in Operations :
        /\ life[p] = "unborn" => p \notin done /\ stop[p] = "none"
        /\ life[p] = "finished" => p \in done

\* Types; operations are set up before they are used, and finished ones are
\* canceled (the deferred opctx.Cancel).
TypeOK ==
    /\ values \in [Contexts -> [Keys -> 0..MaxSets]]
    /\ life \in [Operations -> Lives]
    /\ done \subseteq Contexts
    /\ cause \in [Contexts -> {"none", "stop", "finish", "request"}]
    /\ \A c \in Contexts : c \in done <=> cause[c] # "none"
    /\ stop \in [Operations -> {"none", "marked", "canceled"}]
    /\ LifeCycle
    /\ job \in [Goroutines -> [why : {"none"} \cup Purposes, from : Contexts, key : Keys,
                               flag : {"none"} \cup Flags, at : Contexts, shadowed : BOOLEAN]]
    /\ seen \in [Goroutines -> SUBSET Values]
    /\ marked \subseteq Contexts \X Flags
    /\ verdict \in [Operations -> {"none", "stopped", "canceled"}]

\* To a flag, and to a key that holds a context, the answer is one that a lookup
\* made at one moment between its start and its end would have given too.
AnswerWasVisible(g) ==
    \E v \in seen[g] : IF job[g].key \in Flags THEN (v = Nil) = (Found(g) = Nil) ELSE v = Found(g)

\* A value of the application is replaced, so that an operation may get its own
\* between the two levels of a lookup: it answers with the request's value then,
\* and with the one that is there now.
OvertakenBySet(g) ==
    /\ Found(g) = Entry(values, Root, job[g].key)
    /\ ~job[g].shadowed /\ values[job[g].from][job[g].key] # 0

\* A lookup locks the levels one at a time.  What it says of a flag that may be
\* set on the operation and on the request, as that of the stop, was true at one
\* moment of the lookup all the same; a value of the application is never one
\* that was replaced before the lookup began.
LookupLinearizable ==
    \A g \in Goroutines :
        Answers(g) =>
            \/ AnswerWasVisible(g)
            \/ job[g].key = "App" /\ OvertakenBySet(g)

\* A value that an operation had when the lookup began hides the request's
\* value of the same key (mutable/api.go Value).
ShadowingHolds ==
    \A g \in Goroutines :
        Answers(g) /\ job[g].shadowed => Found(g) # Nil /\ Found(g)[1] = job[g].from

\* An operation whose context was canceled by the client's stop is never taken
\* for one that was cut off: the mark is visible to whoever saw Done.  And it is
\* taken for stopped only if it was, or if the client terminated the connection.
StopNotMistaken ==
    \A o \in Operations :
        /\ verdict[o] = "canceled" => cause[o] # "stop"
        /\ verdict[o] = "stopped" => {<<o, "Stopped">>, <<Root, "Stopped">>} \cap marked # {}

\* A flag stands on the contexts it was meant for, and on no other.  None is lost
\* on a context that defaultMutcontext makes for the occasion, but for the stop
\* of an error that belongs to no operation: it leaves no mark on the request,
\* where every operation of the connection would find it.
MarksLand ==
    \A c \in Contexts, k \in Flags : values[c][k] # 0 <=> <<c, k>> \in marked
=============================================================================
