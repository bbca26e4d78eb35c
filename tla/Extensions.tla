----------------------------- MODULE Extensions -----------------------------
(***************************************************************************)
(* parseAST (ast.go): one operation is parsed and validated, between the   *)
(* hooks of the schema's extensions.  A hook is code of the application:   *)
(* it may panic, which is recovered hook by hook; it returns the context   *)
(* the next hook gets, and a finish function.  Finish functions are kept   *)
(* by extension name and called in the order of a map, which is any order. *)
(***************************************************************************)
EXTENDS Naturals, Sequences, FiniteSets

CONSTANTS
    Extension,  \* the extensions of the schema
    Order,      \* their order in it, a sequence without repetition
    Named       \* the name of each

ASSUME OrderAssumption ==
    /\ Order \in Seq(Extension)
    /\ \A i, j \in DOMAIN Order : Order[i] = Order[j] => i = j
ASSUME NameAssumption == DOMAIN Named = Extension

VARIABLES
    document,  \* what the query says: its operations, and the one to execute
    pc,        \* the phase of parseAST
    idx,       \* the extension whose hook is called next
    context,   \* params.Context: the hooks whose context it derives from
    finishers, \* fs: the extension whose finish function a name stands for
    errors,    \* the errors of the result so far
    parsed,    \* whether the parser accepted the query
    ast,       \* ContextKeyAST: unset, none or document
    flag,      \* ContextKeySubscription: unset, TRUE or FALSE
    called     \* history: calls made, with the context each was given

vars == <<document, pc, idx, context, finishers, errors, parsed, ast, flag, called>>

Names == {Named[e] : e \in Extension}
NoFinishers == [n \in {} |-> Order]
StartHooks == {"Init", "ParseDidStart", "ValidationDidStart"}
FinishHooks == {"ParseFinish", "ValidationFinish"}

\* The operations of a query by type; operationName chooses one of them.
Documents ==
    {d \in [ops : SUBSET {"query", "subscription"}, chosen : {"query", "subscription"}] :
        d.chosen \in d.ops}

Init ==
    /\ document \in Documents
    /\ pc = "Init" /\ idx = 1
    /\ context = <<>>
    /\ finishers = NoFinishers
    /\ errors = {}
    /\ parsed = FALSE
    /\ ast = "unset" /\ flag = "unset"
    /\ called = {}

HasNext == idx <= Len(Order)

Panic(hook, e) == [hook |-> hook, ext |-> e]
Record(hook, e, ok) ==
    called' = called \cup {[hook |-> hook, ext |-> e, ok |-> ok, given |-> context]}

-----------------------------------------------------------------------------
(* One hook of one extension; params.Context and fs change only after it   *)
(* returned.                                                               *)

HookReturns_ForgetsContext(hook) ==
    /\ Record(hook, Order[idx], TRUE)
    /\ context' = IF hook = "ValidationDidStart" THEN context ELSE Append(context, <<hook, Order[idx]>>)
    /\ finishers' = IF hook = "Init" THEN finishers
                    ELSE [n \in DOMAIN finishers \cup {Named[Order[idx]]} |->
                             IF n = Named[Order[idx]] THEN Order[idx] ELSE finishers[n]]
    /\ UNCHANGED errors

HookReturns_CapturedName(hook) ==
    /\ Record(hook, Order[idx], TRUE)
    /\ context' = Append(context, <<hook, Order[idx]>>)
    /\ finishers' = IF hook = "Init" THEN finishers
                    ELSE [n \in {Named[Order[1]]} |-> Order[idx]]
    /\ UNCHANGED errors

HookReturns(hook) ==
    /\ Record(hook, Order[idx], TRUE)
    /\ context' = Append(context, <<hook, Order[idx]>>)
    /\ finishers' = IF hook = "Init" THEN finishers
                    ELSE [n \in DOMAIN finishers \cup {Named[Order[idx]]} |->
                             IF n = Named[Order[idx]] THEN Order[idx] ELSE finishers[n]]
    /\ UNCHANGED errors

HookPanics(hook) ==
    /\ Record(hook, Order[idx], FALSE)
    /\ errors' = errors \cup {Panic(hook, Order[idx])}
    /\ UNCHANGED <<context, finishers>>

CallHook(hook) ==
    /\ pc = hook /\ HasNext
    /\ idx' = idx + 1
    /\ HookReturns(hook) \/ HookPanics(hook)
    /\ UNCHANGED <<pc, parsed, ast, flag>>

CallFinisher_StopsAtPanic(hook) ==
    /\ pc = hook
    /\ \E n \in DOMAIN finishers :
          \/ /\ Record(hook, finishers[n], TRUE)
             /\ finishers' = [m \in DOMAIN finishers \ {n} |-> finishers[m]]
             /\ UNCHANGED errors
          \/ /\ Record(hook, finishers[n], FALSE)
             /\ finishers' = NoFinishers
             /\ errors' = errors \cup {Panic(hook, finishers[n])}
    /\ UNCHANGED <<pc, idx, context, parsed, ast, flag>>

\* A finish function in the order of the map; it is called once.
CallFinisher(hook) ==
    /\ pc = hook
    /\ \E n \in DOMAIN finishers :
          /\ finishers' = [m \in DOMAIN finishers \ {n} |-> finishers[m]]
          /\ \/ Record(hook, finishers[n], TRUE) /\ UNCHANGED errors
             \/ /\ Record(hook, finishers[n], FALSE)
                /\ errors' = errors \cup {Panic(hook, finishers[n])}
    /\ UNCHANGED <<pc, idx, context, parsed, ast, flag>>

-----------------------------------------------------------------------------
(* The phases.                                                             *)

EnterPhase(phase) == pc' = phase /\ idx' = 1 /\ finishers' = NoFinishers

\* handleExtensionsInits returned: with errors, the operation ends.
InitsDone ==
    /\ pc = "Init" /\ ~HasNext
    /\ EnterPhase(IF errors # {} THEN "rejected" ELSE "ParseDidStart")
    /\ UNCHANGED <<context, errors, parsed, ast, flag, called>>

\* The parser runs only if every ParseDidStart returned; what it made of the
\* query is stored before the finish functions see its error.
ParseStarted ==
    /\ pc = "ParseDidStart" /\ ~HasNext
    /\ IF errors # {}
       THEN EnterPhase("rejected") /\ UNCHANGED <<errors, parsed, ast>>
       ELSE /\ pc' = "ParseFinish" /\ UNCHANGED <<idx, finishers>>
            /\ parsed' \in BOOLEAN
            /\ ast' = IF parsed' THEN "document" ELSE "none"
            /\ errors' = IF parsed' THEN {} ELSE {Panic("Parser", "query")}
    /\ UNCHANGED <<context, flag, called>>

ParseFinished ==
    /\ pc = "ParseFinish" /\ finishers = NoFinishers
    /\ EnterPhase(IF errors # {} THEN "rejected" ELSE "ValidationDidStart")
    /\ UNCHANGED <<context, errors, parsed, ast, flag, called>>

ValidationStarted_Overwrites ==
    /\ pc = "ValidationDidStart" /\ ~HasNext
    /\ pc' = "ValidationFinish"
    /\ errors' \in {{}, {Panic("Validator", "query")}}
    /\ UNCHANGED <<idx, finishers, context, parsed, ast, flag, called>>

\* Unlike the parser, the validator runs whatever the hooks did.
ValidationStarted ==
    /\ pc = "ValidationDidStart" /\ ~HasNext
    /\ pc' = "ValidationFinish"
    /\ errors' \in {errors, errors \cup {Panic("Validator", "query")}}
    /\ UNCHANGED <<idx, finishers, context, parsed, ast, flag, called>>

\* Any subscription among the definitions of the document makes it one.
Subscription == IF "subscription" \in document.ops THEN "subscription" ELSE "query"

ValidationFinished_FlagFirst ==
    /\ pc = "ValidationFinish" /\ finishers = NoFinishers
    /\ EnterPhase(IF errors # {} THEN "rejected" ELSE "accepted")
    /\ flag' = Subscription
    /\ UNCHANGED <<context, errors, parsed, ast, called>>

ValidationFinished ==
    /\ pc = "ValidationFinish" /\ finishers = NoFinishers
    /\ EnterPhase(IF errors # {} THEN "rejected" ELSE "accepted")
    /\ flag' = IF errors # {} THEN flag ELSE Subscription
    /\ UNCHANGED <<context, errors, parsed, ast, called>>

Ended == pc \in {"rejected", "accepted"}

ParseStep ==
    /\ \/ \E hook \in StartHooks : CallHook(hook)
       \/ \E hook \in FinishHooks : CallFinisher(hook)
       \/ InitsDone \/ ParseStarted \/ ParseFinished
       \/ ValidationStarted \/ ValidationFinished
    /\ UNCHANGED document

Next ==
    \/ ParseStep
    \/ Ended /\ UNCHANGED vars

Spec == Init /\ [][Next]_vars

-----------------------------------------------------------------------------
(* Properties.                                                             *)

Calls(hook) == {c \in called : c.hook = hook}
Position(e) == CHOOSE i \in DOMAIN Order : Order[i] = e

\* The last extension of a name to have started, whose finish function fs
\* keeps.
Keeps(e, hook) ==
    \A c \in Calls(hook) :
        c.ok /\ Named[c.ext] = Named[e] => Position(c.ext) <= Position(e)

TypeOK ==
    /\ pc \in StartHooks \cup FinishHooks \cup {"rejected", "accepted"}
    /\ idx \in 1..(Len(Order) + 1)
    /\ context \in Seq(StartHooks \X Extension)
    /\ DOMAIN finishers \subseteq Names
    /\ \A n \in DOMAIN finishers : Named[finishers[n]] = n
    /\ parsed \in BOOLEAN
    /\ ast \in {"unset", "none", "document"}
    /\ flag \in {"unset", "query", "subscription"}

\* Every finish function kept is called, in both phases, even if another
\* one panicked; and none is called for an extension that did not start.
FinishPaired ==
    /\ \A c \in Calls("ParseFinish") : \E s \in Calls("ParseDidStart") : s.ok /\ s.ext = c.ext
    /\ \A c \in Calls("ValidationFinish") : \E s \in Calls("ValidationDidStart") : s.ok /\ s.ext = c.ext
    /\ Ended /\ ast # "unset" =>
          \A s \in Calls("ParseDidStart") : s.ok /\ Keeps(s.ext, "ParseDidStart") =>
              \E c \in Calls("ParseFinish") : c.ext = s.ext
    /\ Ended /\ Calls("ValidationDidStart") # {} =>
          \A s \in Calls("ValidationDidStart") : s.ok /\ Keeps(s.ext, "ValidationDidStart") =>
              \E c \in Calls("ValidationFinish") : c.ext = s.ext

\* A hook gets the context of every hook that returned before it, of the
\* earlier phases too, and of no hook that panicked.
ContextThreaded ==
    \A c, d \in called :
        d.hook \in StartHooks /\ c.hook \in StartHooks =>
            LET before == \/ c.hook = d.hook /\ Position(c.ext) < Position(d.ext)
                          \/ c.hook = "Init" /\ d.hook # "Init"
                          \/ c.hook = "ParseDidStart" /\ d.hook = "ValidationDidStart"
            IN  (\E i \in DOMAIN d.given : d.given[i] = <<c.hook, c.ext>>) <=> before /\ c.ok

\* No failure is lost: an operation is accepted only if no hook and no finish
\* function panicked and the query is valid, and is rejected with every panic.
NothingSwallowed ==
    Ended =>
        /\ \A c \in called : ~c.ok => Panic(c.hook, c.ext) \in errors
        /\ pc = "accepted" <=> errors = {}

\* What execution reads is there: an accepted operation has a document and a
\* subscription flag; a rejected one has no flag, and a document only if the
\* parser accepted the query.
ExecutionInputs ==
    /\ pc = "accepted" => ast = "document" /\ flag # "unset"
    /\ pc # "accepted" => flag = "unset"
    /\ ast = "document" <=> parsed

\* ContextSubscription "returns operation's subscription flag" (context.go,
\* 187): that of the operation to execute, not of another in its document.
FlagIsOperations == pc = "accepted" => flag = document.chosen
=============================================================================
