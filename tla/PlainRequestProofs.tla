------------------------- MODULE PlainRequestProofs -------------------------
(***************************************************************************)
(* Theorems about PlainRequest, for any callbacks and any number of        *)
(* results: what a client is sent, and which callbacks are called.         *)
(***************************************************************************)
EXTENDS PlainRequest, SequenceTheorems, FiniteSetTheorems, TLAPS

USE DEF flowVars, respVars, srcVars, Goto

-----------------------------------------------------------------------------
(* Type correctness.                                                       *)

Body == [kind : Bodies, n : 0..MaxResults]

LEMMA ReplyType ==
    ASSUME NEW kind \in Bodies
    PROVE  Reply(kind) \in Body
BY ResultAssumption DEF Reply, Body

LEMMA CallType ==
    ASSUME trace \in Seq(Hooks), NEW h \in Hooks, Call(h)
    PROVE  trace' \in Seq(Hooks)
BY AppendProperties DEF Call

LEMMA MayFailType == ASSUME NEW h PROVE MayFail(h) \subseteq BOOLEAN
BY DEF MayFail

LEMMA ReplacesType == ASSUME NEW h, failed \in BOOLEAN PROVE Replaces(h) \subseteq BOOLEAN
BY DEF Replaces

LEMMA AppendBody ==
    ASSUME NEW s \in Seq(Body), NEW b \in Body
    PROVE  Append(s, b) \in Seq(Body)
BY AppendProperties

LEMMA AppendDiffers ==
    ASSUME NEW s \in Seq(Body), NEW b \in Body
    PROVE  Append(s, b) # s
<1> DEFINE r == Append(s, b)
<1>1. Len(r) = Len(s) + 1 /\ Len(s) \in Nat
  BY AppendProperties, LenProperties
<1> HIDE DEF r
<1>2. r # s
  BY <1>1
<1> QED  BY <1>2 DEF r

LEMMA ReceivedType ==
    ASSUME TypeOK
    PROVE  Received \in Body
BY DEF Received, TypeOK, Body, Bodies

LEMMA WriteErrorType ==
    ASSUME TypeOK, WriteError
    PROVE  bodies' \in Seq(Body) /\ declared' \in BOOLEAN /\ started' \in BOOLEAN
<1> DEFINE e == Reply("error")
<1>1. bodies \in Seq(Body) /\ e \in Body
  BY ReplyType DEF TypeOK, Body, Bodies
<1>2. /\ bodies' = bodies \/ bodies' = bodies \o <<e, e>> \/ bodies' = Append(bodies, e)
      /\ declared' \in BOOLEAN /\ started' \in BOOLEAN
  BY DEF WriteError, TypeOK
<1> HIDE DEF e
<1>3. <<e, e>> \in Seq(Body)
  BY <1>1
<1> QED  BY <1>1, <1>2, <1>3, AppendBody, ConcatProperties

LEMMA TypeInit == Init => TypeOK
<1> SUFFICES ASSUME Init PROVE TypeOK
  OBVIOUS
<1>1. trace \in Seq(Hooks) /\ bodies \in Seq([kind : Bodies, n : 0..MaxResults])
  BY EmptySeq DEF Init
<1>2. produced \in 0..MaxResults /\ relayed \in 0..MaxResults
  BY ResultAssumption DEF Init
<1> QED  BY <1>1, <1>2 DEF Init, TypeOK, InOperation, OutsideOperation

LEMMA TypeHandler ==
    ASSUME TypeOK, HandlerStep \/ ConnectionEnds
    PROVE  TypeOK'
<1> USE DEF InOperation, OutsideOperation
<1> DEFINE Rest == UNCHANGED <<respVars, srcVars>>
\* Callbacks, and what decides where the handler goes.
<1>1. CASE OnRequest \/ Route \/ OnConnect \/ OnDisconnect \/ ConnectionEnds \/ Decode \/ OnOperation
           \/ Parse \/ OnOperationDone \/ ContextDone \/ CancelOperation \/ ResultsEnd
  <2>1. Rest /\ UNCHANGED <<conf, gone>>
    BY <1>1 DEF OnRequest, Route, OnConnect, OnDisconnect, ConnectionEnds, Decode, OnOperation, Parse,
       OnOperationDone, ContextDone, CancelOperation, ResultsEnd
  <2>2. trace' \in Seq(Hooks)
    <3>1. UNCHANGED trace \/ \E h \in Hooks : Call(h)
      BY <1>1 DEF OnRequest, Route, OnConnect, OnDisconnect, ConnectionEnds, Decode, OnOperation, Parse,
         OnOperationDone, ContextDone, CancelOperation, ResultsEnd, Hooks
    <3> QED  BY <3>1, CallType DEF TypeOK
  <2>3. failed' \in BOOLEAN
    <3>1. CASE Route
      BY <3>1, Zenon DEF Route
    <3>2. CASE Parse
      <4>1. PICK invalid \in BOOLEAN, rejected \in MayFail("OnOperationValidation") :
               failed' = (invalid \/ rejected)
        BY <3>2 DEF Parse
      <4> QED  BY <4>1, Zenon
    <3>3. CASE ContextDone \/ CancelOperation \/ ResultsEnd \/ ConnectionEnds \/ Decode
      BY <3>3 DEF ContextDone, CancelOperation, ResultsEnd, ConnectionEnds, Decode, TypeOK
    <3>4. CASE OnRequest \/ OnConnect \/ OnOperation
      <4>1. \E h : failed' \in MayFail(h)
        BY <3>4 DEF OnRequest, OnConnect, OnOperation
      <4> QED  BY <4>1, MayFailType
    <3>5. CASE OnDisconnect \/ OnOperationDone
      <4>1. \E h : failed' \in Replaces(h)
        BY <3>5 DEF OnDisconnect, OnOperationDone
      <4> QED  BY <4>1, ReplacesType DEF TypeOK
    <3> QED  BY <1>1, <3>1, <3>2, <3>3, <3>4, <3>5
  <2>4. /\ pc' \in InOperation \cup OutsideOperation
        /\ opctx' \in {"none", "live", "canceled"} /\ (opctx' = "live" <=> pc' \in InOperation)
    BY <1>1 DEF OnRequest, Route, OnConnect, OnDisconnect, ConnectionEnds, Decode, OnOperation, Parse,
       OnOperationDone, ContextDone, CancelOperation, ResultsEnd, TypeOK
  <2> QED  BY <2>1, <2>2, <2>3, <2>4 DEF TypeOK
<1>2. CASE UpgradeFails \/ Upgrade
  <2>1. bodies' \in Seq(Body)
    <3>1. <<Reply("upgrader")>> \in Seq(Body) /\ <<Reply("switching")>> \in Seq(Body)
          /\ <<Reply("switching"), Reply("close")>> \in Seq(Body)
      BY ReplyType DEF Bodies
    <3> QED  BY <1>2, <3>1 DEF UpgradeFails, Upgrade, TypeOK, Body
  <2>2. /\ UNCHANGED <<conf, trace, opctx, gone, declared, srcVars>> /\ failed' \in BOOLEAN /\ started' \in BOOLEAN
        /\ pc = "upgrade" /\ pc' \in {"requestDone", "onConnect", "connected"}
    BY <1>2 DEF UpgradeFails, Upgrade, TypeOK
  <2> QED  BY <2>1, <2>2 DEF TypeOK, Body
<1>3. CASE Execute
  <2>1. /\ UNCHANGED <<conf, trace, opctx, gone, respVars, relayed>> /\ failed' \in BOOLEAN
        /\ pc = "execute" /\ pc' \in {"operationDone", "results"}
        /\ waiting' \in BOOLEAN /\ ended' \in BOOLEAN
        /\ relay' \in {"off", "receiving", "sending", "failing", "exited"}
    BY <1>3 DEF Execute, TypeOK, Configurations
  <2>2. produced' \in 0..MaxResults
    BY <1>3, ResultAssumption DEF Execute, TypeOK
  <2> QED  BY <2>1, <2>2 DEF TypeOK
<1>4. CASE Result
  <2>1. bodies' \in Seq(Body)
    BY <1>4, ReceivedType, AppendBody DEF Result, WriteResult, TypeOK, Body
  <2>2. /\ UNCHANGED <<conf, trace, opctx, gone, produced, ended, relayed>>
        /\ failed' \in BOOLEAN /\ declared' \in BOOLEAN /\ started' \in BOOLEAN /\ waiting' \in BOOLEAN
        /\ pc = "results" /\ pc' \in {"operationDone", "results"}
        /\ relay' \in {"off", "receiving", "sending", "failing", "exited"}
    BY <1>4 DEF Result, WriteResult, Consume, Declares, TypeOK, Configurations
  <2> QED  BY <2>1, <2>2 DEF TypeOK, Body
<1>5. CASE RequestDone
  <2>1. bodies' \in Seq(Body) /\ declared' \in BOOLEAN /\ started' \in BOOLEAN
    BY <1>5, WriteErrorType DEF RequestDone
  <2>2. trace' \in Seq(Hooks)
    BY <1>5, CallType DEF RequestDone, TypeOK, Hooks
  <2> QED  BY <1>5, <2>1, <2>2 DEF RequestDone, TypeOK, Body
<1> QED  BY <1>1, <1>2, <1>3, <1>4, <1>5 DEF HandlerStep

LEMMA TypeSource ==
    ASSUME TypeOK, Produce \/ EndSource \/ Relay \/ RelayEnds \/ ClientLeaves
    PROVE  TypeOK'
<1>1. CASE Produce
  <2>1. produced' \in 0..MaxResults
    BY <1>1, ResultAssumption DEF Produce, TypeOK
  <2> QED  BY <1>1, <2>1 DEF Produce, TypeOK
<1>2. CASE Relay
  <2>1. trace' \in Seq(Hooks)
    BY <1>2, CallType DEF Relay, TypeOK, Hooks
  <2> QED  BY <1>2, <2>1 DEF Relay, TypeOK
<1>3. CASE EndSource
  BY <1>3 DEF EndSource, TypeOK
<1>4. CASE RelayEnds
  BY <1>4 DEF RelayEnds, TypeOK
<1>5. CASE ClientLeaves
  BY <1>5 DEF ClientLeaves, TypeOK
<1> QED  BY <1>1, <1>2, <1>3, <1>4, <1>5

LEMMA TypeStep == TypeOK /\ [Next]_vars => TypeOK'
<1>1. TypeOK /\ UNCHANGED vars => TypeOK'
  BY DEF vars, TypeOK
<1> QED  BY <1>1, TypeHandler, TypeSource DEF Next

\* The state of a request is well-formed, and its operation context lives as
\* long as the operation.
THEOREM TypeCorrect == Spec => []TypeOK
BY TypeInit, TypeStep, PTL DEF Spec
-----------------------------------------------------------------------------
(* What the client is sent.                                                *)

BeforeUpgrade == {"onRequest", "route", "upgrade"}
BeforeResults == {"onRequest", "route", "onConnect", "onDisconnect", "decode", "onOperation", "parse", "execute"}

\* A request that is upgraded never gets to an operation of its own; the
\* upgrader answers, whether it upgrades or not.
UpgradeInv ==
    conf.upgrade =>
        /\ pc \in BeforeUpgrade \cup {"onConnect", "onDisconnect", "connected", "requestDone", "returned"}
        /\ pc \in BeforeUpgrade => ~started /\ bodies = <<>>
        /\ pc \in {"onConnect", "onDisconnect", "connected"} => started
        /\ pc # "returned" =>
              bodies \in IF started THEN {<<Reply("switching")>>, <<Reply("switching"), Reply("close")>>}
                                    ELSE {<<>>, <<Reply("upgrader")>>}

\* The results received so far are the body; a refused one is the last.
Ordered ==
    \A i \in DOMAIN bodies :
        /\ bodies[i].kind \in {"result", "refusal"} /\ bodies[i].n = i
        /\ bodies[i].kind = "refusal" => i = Len(bodies) /\ pc # "results"

Held == (IF waiting THEN 1 ELSE 0) + (IF relay \in {"sending", "failing"} THEN 1 ELSE 0)

\* What was produced is in the body, in the channel, or with the relay.
ResultsInv ==
    ~conf.upgrade =>
        /\ pc \notin {"upgrade", "connected"}
        /\ pc \in BeforeResults => bodies = <<>> /\ relay = "off" /\ produced = 0 /\ ~waiting /\ ended
        /\ pc # "returned" => Ordered /\ (started <=> bodies # <<>>)
        /\ pc = "results" =>
              /\ Len(bodies) + Held = produced
              /\ relay \in {"sending", "failing"} => relayed = Len(bodies) + 1

ReturnInv == pc = "returned" => ErrorIsWholeBody /\ ErrorsAreTold /\ ResultsInOrder

BodyInv == UpgradeInv /\ ResultsInv /\ ReturnInv

LEMMA BodyInit == Init => BodyInv
<1> SUFFICES ASSUME Init PROVE BodyInv
  OBVIOUS
<1>1. bodies = <<>> /\ DOMAIN <<>> = {}
  BY DEF Init
<1> QED
  BY <1>1 DEF Init, BodyInv, UpgradeInv, ResultsInv, ReturnInv, Ordered, BeforeUpgrade, BeforeResults

\* A body that is the upgrader's, or none: it may be followed by error texts.
LEMMA ErrorsAfter ==
    ASSUME NEW s \in Seq(Body), NEW e \in Body, NEW r, r = Append(s, e) \/ r = s \o <<e, e>>
    PROVE  /\ r \in Seq(Body) /\ Len(r) > Len(s)
           /\ \A i \in DOMAIN s : i \in DOMAIN r /\ r[i] = s[i]
           /\ \A i \in DOMAIN r \ DOMAIN s : r[i] = e
<1>1. /\ Len(s) \in Nat /\ DOMAIN s = 1..Len(s) /\ <<e, e>> \in Seq(Body) /\ Len(<<e, e>>) = 2
      /\ <<e, e>>[1] = e /\ <<e, e>>[2] = e
  BY LenProperties
<1>2. CASE r = Append(s, e)
  <2>1. /\ r \in Seq(Body) /\ Len(r) = Len(s) + 1
        /\ \A i \in 1..Len(s) : r[i] = s[i]
        /\ r[Len(s) + 1] = e
    BY <1>2, AppendProperties
  <2>2. DOMAIN r = 1..(Len(s) + 1)
    BY <2>1, LenProperties
  <2> QED  BY <1>1, <2>1, <2>2
<1>3. CASE r = s \o <<e, e>>
  <2>1. /\ r \in Seq(Body) /\ Len(r) = Len(s) + 2
        /\ \A i \in 1..(Len(s) + 2) : r[i] = IF i <= Len(s) THEN s[i] ELSE <<e, e>>[i - Len(s)]
    BY <1>1, <1>3, ConcatProperties
  <2>2. DOMAIN r = 1..(Len(s) + 2)
    BY <2>1, LenProperties
  <2>3. ASSUME NEW i \in 1..(Len(s) + 2), ~(i <= Len(s)) PROVE r[i] = e
    <3>1. i - Len(s) = 1 \/ i - Len(s) = 2
      BY <1>1, <2>3
    <3> QED  BY <1>1, <2>1, <2>3, <3>1
  <2> QED  BY <1>1, <2>1, <2>2, <2>3
<1> QED  BY <1>2, <1>3

\* The last step: an error text is added to a body that has not started.
LEMMA BodyReturns ==
    ASSUME TypeOK, BodyInv, RequestDone
    PROVE  BodyInv'
<1> DEFINE e == Reply("error")
<1>1. /\ pc = "requestDone" /\ pc' = "returned" /\ WriteError /\ UNCHANGED <<conf, failed, gone>>
  BY DEF RequestDone
<1>2. bodies \in Seq(Body) /\ e \in Body /\ e.kind = "error" /\ Len(bodies) \in Nat /\ DOMAIN bodies = 1..Len(bodies)
  BY ReplyType, LenProperties DEF TypeOK, Body, Bodies, Reply
<1>3. (UpgradeInv /\ ResultsInv)'
  BY <1>1 DEF BodyInv, UpgradeInv, ResultsInv, BeforeUpgrade, BeforeResults
<1>4. ReturnInv'
  <2>1. CASE UNCHANGED bodies
    <3>1. ASSUME NEW i \in DOMAIN bodies, conf.upgrade
          PROVE  bodies[i].kind \in {"switching", "close", "upgrader"}
      BY <1>1, <3>1 DEF BodyInv, UpgradeInv, Reply
    <3>2. ~conf.upgrade => Ordered
      BY <1>1 DEF BodyInv, ResultsInv
    <3>3. failed /\ ~gone => bodies # <<>>
      <4>1. CASE started
        BY <1>1, <4>1 DEF BodyInv, UpgradeInv, ResultsInv
      <4>2. ASSUME failed, ~gone, ~started, bodies = <<>> PROVE FALSE
        <5>1. bodies' = Append(bodies, e)
          BY <1>1, <4>2 DEF WriteError, Fits, Hijacked
        <5> QED  BY <1>2, <2>1, <4>2, <5>1, AppendProperties
      <4> QED  BY <4>1, <4>2
    <3>4. ErrorIsWholeBody' /\ ResultsInOrder'
      BY <2>1, <3>1, <3>2 DEF ErrorIsWholeBody, ResultsInOrder, Ordered
    <3> QED  BY <1>1, <2>1, <3>3, <3>4 DEF ReturnInv, ErrorsAreTold
  <2>2. CASE bodies' # bodies
    <3>1. /\ bodies' = Append(bodies, e) \/ bodies' = bodies \o <<e, e>>
          /\ bodies = <<>> => bodies' = Append(bodies, e)
      BY <1>1, <2>2 DEF WriteError
    <3>2. /\ bodies' \in Seq(Body) /\ Len(bodies') > Len(bodies)
          /\ \A i \in DOMAIN bodies : i \in DOMAIN bodies' /\ bodies'[i] = bodies[i]
          /\ \A i \in DOMAIN bodies' \ DOMAIN bodies : bodies'[i] = e
      BY <1>2, <3>1, ErrorsAfter
    <3>3. bodies = <<>> \/ bodies = <<Reply("upgrader")>>
      BY <1>1, <2>2, <3>1 DEF WriteError, BodyInv, UpgradeInv, ResultsInv
    <3>4. \A i \in DOMAIN bodies' : bodies'[i].kind \in {"upgrader", "error"}
      BY <1>2, <3>2, <3>3 DEF Reply
    <3>5. CASE bodies = <<>>
      <4>1. Len(bodies') = 1
        BY <1>2, <3>1, <3>5, AppendProperties
      <4> QED  BY <1>1, <3>4, <4>1 DEF ReturnInv, ErrorIsWholeBody, ErrorsAreTold, ResultsInOrder
    <3>6. CASE bodies = <<Reply("upgrader")>>
      <4>1. bodies'[1] = Reply("upgrader") /\ bodies' # <<>>
        BY <1>2, <3>2, <3>6
      <4> QED  BY <1>1, <3>4, <4>1 DEF ReturnInv, ErrorIsWholeBody, ErrorsAreTold, ResultsInOrder, Reply
    <3> QED  BY <3>3, <3>5, <3>6
  <2> QED  BY <2>1, <2>2
<1> QED  BY <1>3, <1>4 DEF BodyInv

\* A result is received in its turn, and the handler goes on only if it was
\* written.
LEMMA BodyResult ==
    ASSUME TypeOK, BodyInv, Result
    PROVE  BodyInv'
<1>1. /\ pc = "results" /\ Receivable /\ Consume /\ WriteResult /\ UNCHANGED <<conf, produced, ended, relayed>>
      /\ pc' = IF failed' THEN "operationDone" ELSE "results"
      /\ ~conf.upgrade
  BY DEF Result, BodyInv, UpgradeInv, BeforeUpgrade
<1>2. /\ bodies \in Seq(Body) /\ Len(bodies) \in Nat /\ DOMAIN bodies = 1..Len(bodies)
      /\ Ordered /\ (started <=> bodies # <<>>) /\ Len(bodies) + Held = produced
      /\ relay \in {"sending", "failing"} => relayed = Len(bodies) + 1
  BY <1>1, LenProperties DEF TypeOK, Body, BodyInv, ResultsInv
<1>3. Received.n = Len(bodies) + 1 /\ Received.kind \in {"result", "refusal"} /\ Received \in Body
  <2>1. CASE relay = "off"
    BY <1>1, <1>2, <2>1, ReceivedType DEF Receivable, Received, Held, TypeOK
  <2>2. CASE relay # "off"
    BY <1>1, <1>2, <2>2, ReceivedType DEF Receivable, Received
  <2> QED  BY <2>1, <2>2
<1>4. CASE UNCHANGED bodies
  <2>1. failed' /\ UNCHANGED started
    <3>1. bodies' # Append(bodies, Received)
      BY <1>2, <1>3, <1>4, AppendDiffers
    <3> QED  BY <1>1, <3>1 DEF WriteResult
  <2>2. pc' = "operationDone"
    BY <1>1, <2>1
  <2> QED  BY <1>1, <1>2, <1>4, <2>1, <2>2 DEF BodyInv, UpgradeInv, ResultsInv, ReturnInv, BeforeResults, Ordered
<1>5. CASE bodies' # bodies
  <2>1. /\ bodies' = Append(bodies, Received) /\ started'
        /\ Received.kind = "refusal" => failed'
    BY <1>1, <1>5 DEF WriteResult
  <2>2. /\ Len(bodies') = Len(bodies) + 1 /\ bodies' # <<>> /\ bodies' \in Seq(Body)
        /\ \A i \in 1..Len(bodies) : bodies'[i] = bodies[i]
        /\ bodies'[Len(bodies) + 1] = Received
    BY <1>2, <1>3, <2>1, AppendProperties
  <2>3. DOMAIN bodies' = 1..(Len(bodies) + 1)
    BY <2>2, LenProperties
  <2>4. Ordered'
    <3> SUFFICES ASSUME NEW i \in DOMAIN bodies'
                 PROVE  /\ bodies'[i].kind \in {"result", "refusal"} /\ bodies'[i].n = i
                        /\ bodies'[i].kind = "refusal" => i = Len(bodies') /\ pc' # "results"
      BY DEF Ordered
    <3>1. CASE i \in DOMAIN bodies
      BY <1>1, <1>2, <2>2, <3>1 DEF Ordered
    <3>2. CASE i = Len(bodies) + 1
      BY <1>1, <1>3, <2>1, <2>2, <3>2
    <3> QED  BY <1>2, <2>3, <3>1, <3>2
  <2>5. pc' = "results" => Held' = Held - 1 /\ relay' \notin {"sending", "failing"}
    BY <1>1, <2>1 DEF Held, Receivable, Received, Consume, TypeOK
  <2>6. pc' = "results" => Len(bodies') + Held' = produced'
    BY <1>1, <1>2, <2>2, <2>5 DEF Held
  <2> QED  BY <1>1, <2>1, <2>2, <2>4, <2>5, <2>6 DEF BodyInv, UpgradeInv, ResultsInv, ReturnInv, BeforeResults
<1> QED  BY <1>4, <1>5

LEMMA BodySource ==
    ASSUME TypeOK, BodyInv, Produce \/ EndSource \/ Relay \/ RelayEnds
    PROVE  BodyInv'
<1>1. UNCHANGED <<conf, pc, failed, gone, bodies, started>>
  BY DEF Produce, EndSource, Relay, RelayEnds
<1>2. (UpgradeInv /\ ReturnInv)'
  BY <1>1 DEF BodyInv, UpgradeInv, ReturnInv, ErrorIsWholeBody, ErrorsAreTold, ResultsInOrder
<1>3. ResultsInv'
  <2>1. ASSUME ~conf.upgrade PROVE pc \notin BeforeResults
    BY <2>1 DEF BodyInv, ResultsInv, Produce, EndSource, Relay, RelayEnds
  <2>2. ASSUME ~conf.upgrade, pc = "results"
        PROVE  /\ Len(bodies) + Held' = produced'
               /\ relay' \in {"sending", "failing"} => relayed' = Len(bodies) + 1
    <3>1. /\ Len(bodies) + Held = produced /\ Len(bodies) \in Nat /\ produced \in Nat
          /\ relay \in {"sending", "failing"} => relayed = Len(bodies) + 1
      BY <2>2, LenProperties DEF BodyInv, ResultsInv, TypeOK
    <3>2. CASE Produce
      BY <3>1, <3>2 DEF Produce, Held
    <3>3. CASE EndSource
      BY <3>1, <3>3 DEF EndSource, Held
    <3>4. CASE Relay
      BY <3>1, <3>4 DEF Relay, Held
    <3>5. CASE RelayEnds
      BY <3>1, <3>5 DEF RelayEnds, Held
    <3> QED  BY <3>2, <3>3, <3>4, <3>5
  <2> QED  BY <1>1, <2>1, <2>2 DEF BodyInv, ResultsInv, Ordered
<1> QED  BY <1>2, <1>3 DEF BodyInv

LEMMA BodyStep == TypeOK /\ BodyInv /\ [Next]_vars => BodyInv'
<1> SUFFICES ASSUME TypeOK, BodyInv, Next \/ UNCHANGED vars PROVE BodyInv'
  OBVIOUS
<1> USE DEF BodyInv, UpgradeInv, ResultsInv, ReturnInv, Ordered, BeforeUpgrade, BeforeResults
\* Callbacks write nothing.
<1>1. CASE OnRequest \/ OnConnect \/ OnDisconnect \/ ConnectionEnds \/ Decode \/ OnOperation \/ Parse
           \/ OnOperationDone \/ ContextDone \/ CancelOperation \/ ResultsEnd \/ Route
  <2>1. UNCHANGED <<conf, bodies, started, srcVars>> /\ pc' # "returned" /\ pc' # "results"
    BY <1>1 DEF OnRequest, OnConnect, OnDisconnect, ConnectionEnds, Decode, OnOperation, Parse,
       OnOperationDone, ContextDone, CancelOperation, ResultsEnd, Route
  <2>2. CASE conf.upgrade
    BY <1>1, <2>1, <2>2 DEF OnRequest, OnConnect, OnDisconnect, ConnectionEnds, Decode, OnOperation, Parse,
       OnOperationDone, ContextDone, CancelOperation, ResultsEnd, Route
  <2>3. CASE ~conf.upgrade
    BY <1>1, <2>1, <2>3 DEF OnRequest, OnConnect, OnDisconnect, ConnectionEnds, Decode, OnOperation, Parse,
       OnOperationDone, ContextDone, CancelOperation, ResultsEnd, Route
  <2> QED  BY <2>2, <2>3
<1>2. CASE UpgradeFails \/ Upgrade
  BY <1>2 DEF UpgradeFails, Upgrade
<1>3. CASE Execute
  <2>1. ~conf.upgrade /\ bodies = <<>> /\ ~started /\ relay = "off" /\ produced = 0 /\ ~waiting /\ pc = "execute"
    BY <1>3 DEF Execute
  <2>2. UNCHANGED <<conf, bodies, started>> /\ pc' \in {"operationDone", "results"}
    BY <1>3 DEF Execute
  <2>3. Len(<<>>) = 0 /\ DOMAIN <<>> = {}
    OBVIOUS
  <2>4. pc' = "results" => 0 + Held' = produced' /\ relay' \notin {"sending", "failing"}
    <3> SUFFICES ASSUME pc' = "results" PROVE 0 + Held' = produced' /\ relay' \notin {"sending", "failing"}
      OBVIOUS
    <3>1. /\ relay' \in {"off", "receiving"} /\ produced' = (IF conf.subscription THEN 0 ELSE 1)
      BY <1>3 DEF Execute
    <3>2. waiting' <=> ~conf.subscription
      BY <1>3, <2>2, Zenon DEF Execute
    <3>3. Held' = IF waiting' THEN 1 ELSE 0
      BY <3>1 DEF Held
    <3> QED  BY <3>1, <3>2, <3>3
  <2> QED  BY <2>1, <2>2, <2>3, <2>4
<1>4. CASE ClientLeaves \/ UNCHANGED vars
  <2>1. UNCHANGED <<conf, pc, failed, bodies, started, srcVars>> /\ (pc = "returned" => UNCHANGED gone)
    BY <1>4 DEF ClientLeaves, vars
  <2> QED  BY <2>1 DEF ErrorIsWholeBody, ErrorsAreTold, ResultsInOrder, Held
<1> QED
  BY <1>1, <1>2, <1>3, <1>4, BodyResult, BodySource, BodyReturns DEF Next, HandlerStep

\* An error text is sent alone: the key that the plain handler sets is what
\* WriteError reads.
THEOREM ErrorAlwaysWhole == Spec => []ErrorIsWholeBody
<1>1. BodyInv => ErrorIsWholeBody
  BY DEF BodyInv, UpgradeInv, ResultsInv, ReturnInv, Ordered, ErrorIsWholeBody, Reply
<1> QED  BY <1>1, TypeCorrect, BodyInit, BodyStep, PTL DEF Spec

\* A failure is never silent for a client that is there to be told.
THEOREM ErrorsAlwaysTold == Spec => []ErrorsAreTold
<1>1. BodyInv => ErrorsAreTold
  BY DEF BodyInv, ReturnInv, ErrorsAreTold
<1> QED  BY <1>1, TypeCorrect, BodyInit, BodyStep, PTL DEF Spec

\* The relay goroutine loses no result and swaps none.
THEOREM ResultsAlwaysInOrder == Spec => []ResultsInOrder
<1>1. BodyInv => ResultsInOrder
  BY DEF BodyInv, UpgradeInv, ResultsInv, ReturnInv, Ordered, ResultsInOrder, Reply
<1> QED  BY <1>1, TypeCorrect, BodyInit, BodyStep, PTL DEF Spec
-----------------------------------------------------------------------------
(* Which callbacks are called.                                             *)

LEMMA CountCall ==
    ASSUME trace \in Seq(Hooks), UNCHANGED conf, NEW g \in Hooks, Call(g), NEW h
    PROVE  Count(h)' = Count(h) + IF g = h /\ g \in conf.hooks THEN 1 ELSE 0
<1> DEFINE calls == {i \in DOMAIN trace : trace[i] = h}
           n == Len(trace) + 1
<1>1. n \in Nat /\ n - 1 \in Nat /\ n \notin DOMAIN trace /\ DOMAIN trace = 1..(n-1)
  BY LenProperties
<1>2. IsFiniteSet(calls) /\ Cardinality(calls) \in Nat
  <2>1. IsFiniteSet(1..(n-1)) /\ calls \subseteq 1..(n-1)
    BY <1>1, FS_Interval
  <2> QED  BY <2>1, FS_Subset, FS_CardinalityType
<1>3. CASE g \notin conf.hooks
  BY <1>2, <1>3 DEF Call, Count
<1>4. CASE g \in conf.hooks
  <2>1. /\ trace' \in Seq(Hooks) /\ Len(trace') = n
        /\ \A i \in 1..(n-1) : trace'[i] = trace[i]
        /\ trace'[n] = g
    BY <1>4, AppendProperties DEF Call
  <2>2. DOMAIN trace' = 1..n
    BY <2>1, LenProperties
  <2> DEFINE after == {i \in DOMAIN trace' : trace'[i] = h}
  <2>3. after = IF g = h THEN calls \cup {n} ELSE calls
    <3> HIDE DEF n
    <3>1. \A i : i \in 1..n <=> i \in 1..(n-1) \/ i = n
      BY <1>1
    <3> QED  BY <1>1, <2>1, <2>2, <3>1
  <2>4. n \notin calls
    BY <1>1
  <2> HIDE DEF calls, after, n
  <2>5. Cardinality(after) = Cardinality(calls) + IF g = h THEN 1 ELSE 0
    <3>1. Cardinality(calls \cup {n}) = Cardinality(calls) + 1
      BY <1>2, <2>4, FS_AddElement
    <3> QED  BY <1>2, <2>3, <3>1
  <2> QED  BY <1>4, <2>5 DEF Count, calls, after
<1> QED  BY <1>3, <1>4

\* OnDisconnect follows OnConnect, and OnOperationDone precedes the end of the
\* operation's context.
CallsInv ==
    /\ opctx = "canceled" => pc \in {"requestDone", "returned"}
    /\ "OnRequestDone" \in conf.hooks => Count("OnRequestDone") = IF pc = "returned" THEN 1 ELSE 0
    /\ {"OnConnect", "OnDisconnect"} \subseteq conf.hooks =>
          Count("OnConnect") = Count("OnDisconnect") + IF pc = "onDisconnect" THEN 1 ELSE 0
    /\ "OnOperationDone" \in conf.hooks =>
          Count("OnOperationDone") = IF opctx = "canceled" \/ pc = "cancelOperation" THEN 1 ELSE 0

CountsKept(H) == \A h \in H : UNCHANGED Count(h)
Paired == {"OnRequestDone", "OnConnect", "OnDisconnect", "OnOperationDone"}

LEMMA CountType == ASSUME trace \in Seq(Hooks), NEW h PROVE Count(h) \in Nat
<1>1. IsFiniteSet(DOMAIN trace)
  BY LenProperties, FS_Interval
<1> QED  BY <1>1, FS_Subset, FS_CardinalityType DEF Count

LEMMA CallsInit == Init => CallsInv
<1> SUFFICES ASSUME Init PROVE CallsInv
  OBVIOUS
<1>1. \A h : {i \in DOMAIN trace : trace[i] = h} = {}
  BY DEF Init
<1>2. \A h : Count(h) = 0
  BY <1>1, FS_EmptySet DEF Count
<1> QED  BY <1>2 DEF Init, CallsInv

LEMMA CallsStep == TypeOK /\ CallsInv /\ [Next]_vars => CallsInv'
<1> SUFFICES ASSUME TypeOK, CallsInv, Next \/ UNCHANGED vars PROVE CallsInv'
  OBVIOUS
<1>0. trace \in Seq(Hooks) /\ \A h : Count(h) \in Nat
  BY CountType DEF TypeOK
<1>1. UNCHANGED trace => CountsKept(Paired)
  BY DEF CountsKept, Count
<1>2. ASSUME NEW g \in Hooks, Call(g), UNCHANGED conf
      PROVE  /\ g \notin Paired => CountsKept(Paired)
             /\ CountsKept(Paired \ {g})
             /\ g \in conf.hooks => Count(g)' = Count(g) + 1
  <2>1. \A h : g # h => Count(h)' = Count(h) + 0
    BY <1>0, <1>2, CountCall
  <2>2. g \in conf.hooks => Count(g)' = Count(g) + 1
    BY <1>0, <1>2, CountCall
  <2> QED  BY <1>0, <2>1, <2>2 DEF CountsKept
<1>3. ASSUME UNCHANGED <<conf, opctx>>, CountsKept(Paired), pc' \notin {"returned", "onDisconnect", "cancelOperation"},
             pc \notin {"returned", "onDisconnect", "cancelOperation"}, pc = "requestDone" => pc' = "requestDone"
      PROVE  CallsInv'
  BY <1>3 DEF CallsInv, CountsKept, Paired
<1>4. CASE OnRequest \/ Route \/ UpgradeFails \/ Upgrade \/ ConnectionEnds \/ OnOperation \/ Parse \/ Execute
           \/ Result \/ ResultsEnd \/ ContextDone
  <2>1. /\ UNCHANGED <<conf, opctx>>
        /\ pc \notin {"returned", "onDisconnect", "cancelOperation", "requestDone"}
        /\ pc' \notin {"returned", "onDisconnect", "cancelOperation"}
    BY <1>4 DEF OnRequest, Route, UpgradeFails, Upgrade, ConnectionEnds, OnOperation, Parse, Execute, Result,
       ResultsEnd, ContextDone
  <2>2. UNCHANGED trace \/ \E g \in {"OnRequest", "OnOperation", "OnOperationValidation"} : Call(g)
    BY <1>4 DEF OnRequest, Route, UpgradeFails, Upgrade, ConnectionEnds, OnOperation, Parse, Execute, Result,
       ResultsEnd, ContextDone
  <2>3. CountsKept(Paired)
    BY <1>1, <1>2, <2>1, <2>2 DEF Hooks, Paired
  <2> QED  BY <1>3, <2>1, <2>3
<1>5. CASE OnConnect
  <2>1. /\ Call("OnConnect") /\ UNCHANGED <<conf, opctx>> /\ pc = "onConnect" /\ pc' = "onDisconnect"
    BY <1>5 DEF OnConnect
  <2>2. CountsKept({"OnRequestDone", "OnDisconnect", "OnOperationDone"})
        /\ ("OnConnect" \in conf.hooks => Count("OnConnect")' = Count("OnConnect") + 1)
    BY <1>2, <2>1 DEF Hooks, CountsKept, Paired
  <2> QED  BY <1>0, <2>1, <2>2 DEF CallsInv, CountsKept
<1>6. CASE OnDisconnect
  <2>1. /\ Call("OnDisconnect") /\ UNCHANGED <<conf, opctx>> /\ pc = "onDisconnect"
        /\ pc' \in {"connected", "requestDone", "decode"}
    BY <1>6 DEF OnDisconnect
  <2>2. CountsKept({"OnRequestDone", "OnConnect", "OnOperationDone"})
        /\ ("OnDisconnect" \in conf.hooks => Count("OnDisconnect")' = Count("OnDisconnect") + 1)
    BY <1>2, <2>1 DEF Hooks, CountsKept, Paired
  <2> QED  BY <1>0, <2>1, <2>2 DEF CallsInv, CountsKept
<1>7. CASE Decode
  <2>1. UNCHANGED <<conf, trace>> /\ pc = "decode" /\ pc' \in {"requestDone", "onOperation"}
        /\ opctx # "canceled" /\ opctx' # "canceled"
    BY <1>7 DEF Decode, CallsInv
  <2> QED  BY <1>1, <2>1 DEF CallsInv, CountsKept, Paired
<1>8. CASE OnOperationDone
  <2>1. /\ Call("OnOperationDone") /\ UNCHANGED <<conf, opctx>> /\ pc = "operationDone"
        /\ pc' = "cancelOperation" /\ opctx # "canceled"
    BY <1>8 DEF OnOperationDone, CallsInv
  <2>2. CountsKept({"OnRequestDone", "OnConnect", "OnDisconnect"})
        /\ ("OnOperationDone" \in conf.hooks => Count("OnOperationDone")' = Count("OnOperationDone") + 1)
    BY <1>2, <2>1 DEF Hooks, CountsKept, Paired
  <2> QED  BY <2>1, <2>2 DEF CallsInv, CountsKept
<1>9. CASE CancelOperation
  <2>1. UNCHANGED <<conf, trace>> /\ pc = "cancelOperation" /\ pc' = "requestDone" /\ opctx' = "canceled"
    BY <1>9 DEF CancelOperation
  <2> QED  BY <1>1, <2>1 DEF CallsInv, CountsKept, Paired
<1>10. CASE RequestDone
  <2>1. /\ Call("OnRequestDone") /\ UNCHANGED <<conf, opctx>> /\ pc = "requestDone" /\ pc' = "returned"
    BY <1>10 DEF RequestDone
  <2>2. CountsKept({"OnOperationDone", "OnConnect", "OnDisconnect"})
        /\ ("OnRequestDone" \in conf.hooks => Count("OnRequestDone")' = Count("OnRequestDone") + 1)
    BY <1>2, <2>1 DEF Hooks, CountsKept, Paired
  <2> QED  BY <2>1, <2>2 DEF CallsInv, CountsKept
<1>11. CASE Produce \/ EndSource \/ Relay \/ RelayEnds \/ ClientLeaves \/ UNCHANGED vars
  <2>1. UNCHANGED <<conf, pc, opctx>> /\ (UNCHANGED trace \/ Call("OnOperationResult"))
    BY <1>11 DEF Produce, EndSource, Relay, RelayEnds, ClientLeaves, vars
  <2>2. CountsKept(Paired)
    BY <1>1, <1>2, <2>1 DEF Hooks, Paired
  <2> QED  BY <2>1, <2>2 DEF CallsInv, CountsKept, Paired
<1> QED
  BY <1>4, <1>5, <1>6, <1>7, <1>8, <1>9, <1>10, <1>11 DEF Next, HandlerStep

\* Whatever fails, the callbacks that close what others opened are called,
\* and once.
THEOREM CallbacksAlwaysPaired == Spec => []CallbacksPaired
<1>1. TypeOK /\ CallsInv => CallbacksPaired
  <2> SUFFICES ASSUME TypeOK, CallsInv, pc = "returned" PROVE CallbacksPaired
    BY DEF CallbacksPaired
  <2>1. opctx \in {"none", "canceled"}
    BY DEF TypeOK, InOperation
  <2>2. \A h : Count(h) \in Nat
    BY CountType DEF TypeOK
  <2> QED  BY <2>1, <2>2 DEF CallsInv, CallbacksPaired
<1> QED  BY <1>1, TypeCorrect, CallsInit, CallsStep, PTL DEF Spec
-----------------------------------------------------------------------------
(* What is left behind.                                                    *)

\* The client was written every result there is, and neither the source nor
\* the relay goroutine is left.
AllWritten ==
    /\ Len(bodies) = produced
    /\ ended /\ ~waiting
    /\ relay \in {"off", "exited"}

\* processResults returned no error, which is what OnOperationDone is told.
SuccessIsComplete == pc = "operationDone" /\ ~failed => AllWritten

\* A relay that exits while its results are still processed has read them all:
\* the other exit follows a result that ends the operation.
RelayInv == pc = "results" /\ relay = "exited" => ended /\ ~waiting

LEMMA SuccessInit == Init => RelayInv /\ SuccessIsComplete
BY DEF Init, RelayInv, SuccessIsComplete

LEMMA SuccessStep ==
    TypeOK /\ BodyInv /\ RelayInv /\ SuccessIsComplete /\ [Next]_vars => (RelayInv /\ SuccessIsComplete)'
<1> SUFFICES ASSUME TypeOK, BodyInv, RelayInv, SuccessIsComplete, Next \/ UNCHANGED vars
             PROVE  (RelayInv /\ SuccessIsComplete)'
  OBVIOUS
<1> USE DEF RelayInv, SuccessIsComplete
<1>1. CASE ResultsEnd
  <2>1. pc = "results" /\ pc' = "operationDone" /\ Exhausted /\ UNCHANGED <<bodies, srcVars>>
    BY <1>1 DEF ResultsEnd
  <2>2. relay \in {"off", "exited"} /\ ended /\ ~waiting
    BY <2>1 DEF Exhausted
  <2>3. ~conf.upgrade
    BY <2>1 DEF BodyInv, UpgradeInv, BeforeUpgrade
  <2>4. Len(bodies) + Held = produced /\ Held = 0 /\ Len(bodies) \in Nat
    BY <2>1, <2>2, <2>3, LenProperties DEF BodyInv, ResultsInv, Held, TypeOK
  <2> QED  BY <2>1, <2>2, <2>4 DEF AllWritten
\* Whatever else ends the operation fails.
<1>2. CASE OnOperation \/ Parse \/ ContextDone
  BY <1>2 DEF OnOperation, Parse, ContextDone
<1>3. CASE Execute
  <2>1. (pc' = "operationDone" /\ failed') \/ (pc' = "results" /\ relay' # "exited")
    BY <1>3 DEF Execute
  <2> QED  BY <2>1
<1>4. CASE Result
  <2>1. pc' = IF failed' THEN "operationDone" ELSE "results"
    BY <1>4 DEF Result
  <2>2. CASE relay = "failing"
    BY <1>4, <2>1, <2>2 DEF Result, WriteResult, Receivable, Received
  <2>3. CASE relay # "failing"
    <3>1. relay' # "exited"
      BY <1>4, <2>3 DEF Result, Consume, Receivable
    <3> QED  BY <2>1, <3>1
  <2> QED  BY <2>2, <2>3
\* Once the source has ended nothing is produced.
<1>5. CASE Produce \/ EndSource \/ Relay \/ RelayEnds
  <2>1. UNCHANGED <<pc, failed, bodies>>
    BY <1>5 DEF Produce, EndSource, Relay, RelayEnds
  <2>2. ~(ended /\ ~waiting /\ relay \in {"off", "exited"})
    BY <1>5 DEF Produce, EndSource, Relay, RelayEnds
  <2>3. RelayInv'
    BY <1>5, <2>1 DEF Produce, EndSource, Relay, RelayEnds
  <2> QED  BY <2>1, <2>2, <2>3 DEF AllWritten
<1>6. CASE OnRequest \/ Route \/ UpgradeFails \/ Upgrade \/ OnConnect \/ OnDisconnect \/ ConnectionEnds
           \/ Decode \/ OnOperationDone \/ CancelOperation \/ RequestDone
  <2>1. pc' \notin {"results", "operationDone"}
    BY <1>6 DEF OnRequest, Route, UpgradeFails, Upgrade, OnConnect, OnDisconnect, ConnectionEnds, Decode,
       OnOperationDone, CancelOperation, RequestDone
  <2> QED  BY <2>1
<1>7. CASE ClientLeaves \/ UNCHANGED vars
  BY <1>7 DEF ClientLeaves, vars, AllWritten
<1> QED  BY <1>1, <1>2, <1>3, <1>4, <1>5, <1>6, <1>7 DEF Next, HandlerStep

\* An operation ends without an error only if its client was written every
\* result there is; the goroutines that made them are over then.
THEOREM SuccessAlwaysComplete == Spec => []SuccessIsComplete
BY TypeCorrect, BodyInit, BodyStep, SuccessInit, SuccessStep, PTL DEF Spec

\* The handler has gone on, and the relay offers a result to nobody.
AfterResults == {"operationDone", "cancelOperation", "requestDone", "returned"}
RelayAbandoned == pc \in AfterResults /\ relay \in {"sending", "failing"}

\* The relay stays in its send, and so does a source with another result: it
\* is the relay that would receive it.
LeftBehind == [][RelayAbandoned => RelayAbandoned' /\ (waiting => waiting')]_vars

\* A relay goroutine whose result is not wanted any more never ends.
THEOREM AbandonedForGood == Spec => LeftBehind
<1> DEFINE Stays == RelayAbandoned => RelayAbandoned' /\ (waiting => waiting')
<1>1. [Next]_vars => [Stays]_vars
  <2> SUFFICES ASSUME Next, RelayAbandoned
               PROVE  RelayAbandoned' /\ (waiting => waiting')
    OBVIOUS
  <2> USE DEF RelayAbandoned, AfterResults
  <2>1. CASE HandlerStep \/ ConnectionEnds
    <3>1. pc' \in AfterResults /\ UNCHANGED srcVars
      BY <2>1 DEF HandlerStep, ConnectionEnds, OnRequest, Route, UpgradeFails, Upgrade, OnConnect,
         OnDisconnect, Decode, OnOperation, Parse, Execute, Result, ResultsEnd, ContextDone,
         OnOperationDone, CancelOperation, RequestDone
    <3> QED  BY <3>1
  <2>2. CASE Produce \/ EndSource \/ Relay \/ RelayEnds \/ ClientLeaves
    BY <2>2 DEF Produce, EndSource, Relay, RelayEnds, ClientLeaves
  <2>3. CASE UNCHANGED vars
    BY <2>3 DEF vars
  <2> QED  BY <2>1, <2>2, <2>3 DEF Next
<1> HIDE DEF Stays
<1>2. Spec => [][Stays]_vars
  BY <1>1, PTL DEF Spec
<1> QED  BY <1>2 DEF Stays, LeftBehind
=============================================================================
