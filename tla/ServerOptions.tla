--------------------------- MODULE ServerOptions ----------------------------
(***************************************************************************)
(* NewServer applies its options one after the other (api_server.go), then *)
(* fills in defaults; each request then runs through the interceptors of a *)
(* kind, composed by closures that skip the missing ones                   *)
(* (interceptors.go).  The five kinds are composed by the same code.       *)
(***************************************************************************)
EXTENDS Naturals, Sequences, FiniteSets

CONSTANTS
    Kinds,      \* the kinds of interceptors
    Protocols,  \* the websocket subprotocols
    Fields,     \* the fields of the configuration that one option assigns
    MaxOptions  \* bounds the options given

ASSUME BoundAssumption == MaxOptions \in Nat \ {0}

VARIABLES
    pc,           \* options, serving, served or failed
    interceptors, \* config.interceptors: per kind, nested chains
    protocols,    \* config.subscriptionProtocols
    settings,     \* the fields: the option that assigned each, 0 for none
    given,        \* history: the options applied
    stack,        \* a call: the interceptors it still has to pass
    called,       \* history: the interceptors the call passed
    reached,      \* history: the call reached the handler
    serving       \* the kind being called

vars == <<pc, interceptors, protocols, settings, given, stack, called, reached, serving>>

\* An interceptor is named for the option that brought it; a chain has two.
Leaf(n)     == [type |-> "leaf", n |-> n]
Chain(l, r) == [type |-> "chain", left |-> l, right |-> r]
None        == [type |-> "nil"]
Builtin     == [type |-> "leaf", n |-> 0]

Init ==
    /\ pc = "options"
    /\ interceptors = [k \in Kinds |-> None]
    /\ protocols = {}
    /\ settings = [f \in Fields |-> 0]
    /\ given = <<>>
    /\ stack = <<>> /\ called = <<>> /\ reached = FALSE
    /\ serving \in Kinds

-----------------------------------------------------------------------------
(* The options.                                                            *)

Number == Len(given) + 1

Give(kind, set) == given' = Append(given, [kind |-> kind, set |-> set])

CanApply == pc = "options" /\ Len(given) < MaxOptions

\* It replaces all of them, with nothing where it has nothing.
WithInterceptors(ks) ==
    /\ CanApply
    /\ interceptors' = [k \in Kinds |-> IF k \in ks THEN Leaf(Number) ELSE None]
    /\ Give("replace", ks)
    /\ UNCHANGED <<pc, protocols, settings, stack, called, reached, serving>>

WithExtraInterceptors_Prepends(ks) ==
    /\ CanApply
    /\ interceptors' = [k \in Kinds |-> IF k \in ks THEN Chain(Leaf(Number), interceptors[k])
                                        ELSE interceptors[k]]
    /\ Give("extra", ks)
    /\ UNCHANGED <<pc, protocols, settings, stack, called, reached, serving>>

WithExtraInterceptors(ks) ==
    /\ CanApply
    /\ interceptors' = [k \in Kinds |-> IF k \in ks THEN Chain(interceptors[k], Leaf(Number))
                                        ELSE interceptors[k]]
    /\ Give("extra", ks)
    /\ UNCHANGED <<pc, protocols, settings, stack, called, reached, serving>>

WithProtocol(p) ==
    /\ CanApply
    /\ protocols' = protocols \cup {p}
    /\ Give("protocol", {p})
    /\ UNCHANGED <<pc, interceptors, settings, stack, called, reached, serving>>

WithField_Once(f) ==
    /\ CanApply
    /\ settings' = [settings EXCEPT ![f] = IF @ = 0 THEN Number ELSE @]
    /\ Give("field", {f})
    /\ UNCHANGED <<pc, interceptors, protocols, stack, called, reached, serving>>

\* WithUpgrader, WithKeepalive, WithoutHTTPQueries, WithConnectTimeout,
\* WithRootObject and WithResultProcessor.
WithField(f) ==
    /\ CanApply
    /\ settings' = [settings EXCEPT ![f] = Number]
    /\ Give("field", {f})
    /\ UNCHANGED <<pc, interceptors, protocols, stack, called, reached, serving>>

\* An option that fails ends NewServer.
FailingOption ==
    /\ CanApply
    /\ pc' = "failed"
    /\ UNCHANGED <<interceptors, protocols, settings, given, stack, called, reached, serving>>

Identity == MaxOptions + 1
DefaultProcessor ==
    settings' = [f \in Fields |-> IF f = "resultProcessor" /\ settings[f] = 0 THEN Identity
                                                                      ELSE settings[f]]

Serve_NoDefaults ==
    /\ pc = "options"
    /\ pc' = "serving"
    /\ protocols' = IF protocols = {} THEN Protocols ELSE protocols
    /\ DefaultProcessor
    /\ stack' = <<interceptors[serving]>>
    /\ UNCHANGED <<interceptors, given, called, reached, serving>>

\* The rest of NewServer, and a call of one kind of interceptor.
Serve ==
    /\ pc = "options"
    /\ pc' = "serving"
    /\ protocols' = IF protocols = {} THEN Protocols ELSE protocols
    /\ DefaultProcessor
    /\ interceptors' = [k \in Kinds |-> IF interceptors[k] = None THEN Builtin ELSE interceptors[k]]
    /\ stack' = <<interceptors'[serving]>>
    /\ UNCHANGED <<given, called, reached, serving>>

-----------------------------------------------------------------------------
(* A call.  The handler that a chain passes to its first interceptor is    *)
(* the rest of the chain, then what the chain itself was given.            *)

Calls == pc = "serving" /\ stack # <<>>

Enter ==
    /\ Calls /\ Head(stack).type = "chain"
    /\ stack' = <<Head(stack).left, Head(stack).right>> \o Tail(stack)
    /\ UNCHANGED <<pc, interceptors, protocols, settings, given, called, reached, serving>>

Skip_Rest ==
    /\ Calls /\ Head(stack) = None
    /\ stack' = <<>>
    /\ UNCHANGED <<pc, interceptors, protocols, settings, given, called, reached, serving>>

Skip ==
    /\ Calls /\ Head(stack) = None
    /\ stack' = Tail(stack)
    /\ UNCHANGED <<pc, interceptors, protocols, settings, given, called, reached, serving>>

\* An interceptor calls its handler, or returns without.
Pass ==
    /\ Calls /\ Head(stack).type = "leaf"
    /\ called' = Append(called, Head(stack).n)
    /\ \/ stack' = Tail(stack) /\ UNCHANGED pc
       \/ stack' = <<>> /\ pc' = "served"
    /\ UNCHANGED <<interceptors, protocols, settings, given, reached, serving>>

Handle ==
    /\ pc = "serving" /\ stack = <<>>
    /\ reached' = TRUE
    /\ pc' = "served"
    /\ UNCHANGED <<interceptors, protocols, settings, given, stack, called, serving>>

Next ==
    \/ \E ks \in SUBSET Kinds : WithInterceptors(ks) \/ WithExtraInterceptors(ks)
    \/ \E p \in Protocols : WithProtocol(p)
    \/ \E f \in Fields : WithField(f)
    \/ FailingOption \/ Serve
    \/ Enter \/ Skip \/ Pass \/ Handle
    \/ pc \in {"served", "failed"} /\ UNCHANGED vars

Spec == Init /\ [][Next]_vars

-----------------------------------------------------------------------------
(* Properties.                                                             *)

\* The interceptors of the kind being called, by the options that brought
\* them: those since the last WithInterceptors, in the order they were given.
Effective ==
    LET last == CHOOSE i \in 0..Len(given) :
                    /\ i # 0 => given[i].kind = "replace"
                    /\ \A j \in (i + 1)..Len(given) : given[j].kind # "replace"
        live == {i \in DOMAIN given : i >= last /\ given[i].kind \in {"replace", "extra"}
                                               /\ serving \in given[i].set}
    IN  IF live = {} THEN <<0>>
        ELSE CHOOSE s \in [1..Cardinality(live) -> live] :
                 \A i, j \in DOMAIN s : i < j => s[i] < s[j]

\* Types; and a server that is up has an interceptor of every kind, so that no
\* call of one calls nil.
TypeOK ==
    /\ pc \in {"options", "serving", "served", "failed"}
    /\ pc \in {"serving", "served"} => \A k \in Kinds : interceptors[k] # None
    /\ protocols \subseteq Protocols
    /\ settings \in [Fields -> 0..Identity]
    /\ called \in Seq(0..MaxOptions)
    /\ reached \in BOOLEAN
    /\ serving \in Kinds

\* A call passes the interceptors in the order of the options, each once and
\* from the first on, whatever the nesting of the chains.
OrderOfOptions ==
    pc \in {"serving", "served"} =>
        /\ Len(called) <= Len(Effective)
        /\ \A i \in DOMAIN called : called[i] = Effective[i]

\* The handler is reached only past every interceptor; a call that was served
\* without it stopped at one that returned.
HandlerLast == reached => called = Effective

Naming(kind) == {i \in DOMAIN given : given[i].kind = kind}

\* A server has the settings its options ask for, whatever options come in
\* between: the protocols they name, or all if they name none, and of each
\* field what the last option for it gave; results always have a processor.
SettingsEffective ==
    pc = "serving" =>
        /\ LET named == UNION {given[i].set : i \in Naming("protocol")}
           IN  protocols = IF named = {} THEN Protocols ELSE named
        /\ \A f \in Fields :
              LET by == {i \in Naming("field") : f \in given[i].set} IN
              IF by = {} THEN settings[f] = IF f = "resultProcessor" THEN Identity ELSE 0
              ELSE settings[f] \in by /\ \A i \in by : i <= settings[f]
=============================================================================
