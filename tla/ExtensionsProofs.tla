-------------------------- MODULE ExtensionsProofs ---------------------------
(***************************************************************************)
(* Theorems about Extensions, for every set of extensions, any order and   *)
(* any names, shared or not.  The invariants are shown to be kept by every *)
(* step of parseAST (ParseStep), which OperationProofs uses too.           *)
(***************************************************************************)
EXTENDS Extensions, TLAPS

\* What the invariants are about; the document may be anything.
parseVars == <<pc, idx, context, finishers, errors, parsed, ast, flag, called>>

ParseOrStutter == ParseStep \/ UNCHANGED parseVars

-----------------------------------------------------------------------------
(* Type correctness.                                                       *)

LEMMA NextExtension ==
    ASSUME idx \in 1..(Len(Order) + 1), HasNext
    PROVE  Order[idx] \in Extension /\ idx + 1 \in 1..(Len(Order) + 1)
BY OrderAssumption DEF HasNext

LEMMA TypeInit == Init => TypeOK
<1> SUFFICES ASSUME Init PROVE TypeOK
  OBVIOUS
<1>1. 1 \in 1..(Len(Order) + 1)
  BY OrderAssumption
<1>2. DOMAIN NoFinishers = {}
  BY DEF NoFinishers
<1>3. <<>> \in Seq(StartHooks \X Extension)
  OBVIOUS
<1> QED  BY <1>1, <1>2, <1>3 DEF Init, TypeOK, StartHooks

LEMMA HookReturnsType ==
    ASSUME TypeOK, NEW hook \in StartHooks, HasNext, HookReturns(hook)
    PROVE  /\ context' \in Seq(StartHooks \X Extension)
           /\ DOMAIN finishers' \subseteq Names
           /\ \A n \in DOMAIN finishers' : Named[finishers'[n]] = n
<1>1. Order[idx] \in Extension
  BY NextExtension DEF TypeOK
<1>2. <<hook, Order[idx]>> \in StartHooks \X Extension
  BY <1>1
<1>3. context' \in Seq(StartHooks \X Extension)
  BY <1>2 DEF HookReturns, TypeOK
<1>4. CASE hook = "Init"
  BY <1>3, <1>4 DEF HookReturns, TypeOK
<1>5. CASE hook # "Init"
  <2>1. finishers' = [n \in DOMAIN finishers \cup {Named[Order[idx]]} |->
                         IF n = Named[Order[idx]] THEN Order[idx] ELSE finishers[n]]
    BY <1>5 DEF HookReturns
  <2>2. Named[Order[idx]] \in Names
    BY <1>1 DEF Names
  <2> QED  BY <1>3, <2>1, <2>2 DEF TypeOK
<1> QED  BY <1>4, <1>5

LEMMA TypeStep == TypeOK /\ ParseOrStutter => TypeOK'
<1> SUFFICES ASSUME TypeOK, ParseOrStutter PROVE TypeOK'
  OBVIOUS
<1> USE DEF StartHooks, FinishHooks
<1>1. ASSUME NEW hook \in StartHooks, CallHook(hook)
      PROVE  TypeOK'
  <2>1. /\ UNCHANGED <<pc, parsed, ast, flag>> /\ HasNext
        /\ idx' \in 1..(Len(Order) + 1)
    BY <1>1, NextExtension DEF CallHook, TypeOK
  <2>2. CASE HookReturns(hook)
    BY <2>1, <2>2, HookReturnsType DEF TypeOK
  <2>3. CASE HookPanics(hook)
    BY <2>1, <2>3 DEF HookPanics, TypeOK
  <2> QED  BY <1>1, <2>2, <2>3 DEF CallHook
<1>2. ASSUME NEW hook \in FinishHooks, CallFinisher(hook)
      PROVE  TypeOK'
  <2>1. PICK n \in DOMAIN finishers : finishers' = [m \in DOMAIN finishers \ {n} |-> finishers[m]]
    BY <1>2 DEF CallFinisher
  <2>2. UNCHANGED <<pc, idx, context, parsed, ast, flag>>
    BY <1>2 DEF CallFinisher
  <2> QED  BY <2>1, <2>2 DEF TypeOK
<1>3. CASE InitsDone \/ ParseStarted \/ ParseFinished \/ ValidationStarted \/ ValidationFinished
  <2>1. 1 \in 1..(Len(Order) + 1)
    BY OrderAssumption
  <2> QED
    BY <1>3, <2>1 DEF InitsDone, ParseStarted, ParseFinished, ValidationStarted,
       ValidationFinished, EnterPhase, NoFinishers, Subscription, TypeOK
<1>4. CASE UNCHANGED parseVars
  BY <1>4 DEF parseVars, TypeOK
<1> QED  BY <1>1, <1>2, <1>3, <1>4 DEF ParseOrStutter, ParseStep

\* Every step of the specification is one of ParseOrStutter.
LEMMA NextIsParse == [Next]_vars => ParseOrStutter
BY DEF Next, vars, parseVars, ParseOrStutter

\* The variables of parseAST have their types, and a finish function is kept
\* under the name of its extension.
THEOREM ParseTypes == Spec => []TypeOK
BY TypeInit, TypeStep, NextIsParse, PTL DEF Spec

-----------------------------------------------------------------------------
(* Failures and results.                                                   *)

\* Each phase is entered without errors, except that validation goes on in
\* spite of them.
OutcomeInv ==
    /\ \A c \in called : ~c.ok => Panic(c.hook, c.ext) \in errors
    /\ pc = "accepted" => errors = {}
    /\ pc = "rejected" => errors # {}

LEMMA OutcomeStep == OutcomeInv /\ ParseOrStutter => OutcomeInv'
<1> SUFFICES ASSUME OutcomeInv, ParseOrStutter PROVE OutcomeInv'
  OBVIOUS
<1> USE DEF OutcomeInv, StartHooks, FinishHooks
<1>1. ASSUME NEW hook \in StartHooks, CallHook(hook)
      PROVE  OutcomeInv'
  BY <1>1 DEF CallHook, HookReturns, HookPanics, Record, Panic
<1>2. ASSUME NEW hook \in FinishHooks, CallFinisher(hook)
      PROVE  OutcomeInv'
  BY <1>2 DEF CallFinisher, Record, Panic
<1>3. CASE InitsDone \/ ParseStarted \/ ParseFinished \/ ValidationStarted \/ ValidationFinished
  BY <1>3 DEF InitsDone, ParseStarted, ParseFinished, ValidationStarted, ValidationFinished,
     EnterPhase
<1>4. CASE UNCHANGED parseVars
  BY <1>4 DEF parseVars
<1> QED  BY <1>1, <1>2, <1>3, <1>4 DEF ParseOrStutter, ParseStep

LEMMA OutcomeGivesNothingSwallowed == OutcomeInv => NothingSwallowed
BY DEF OutcomeInv, NothingSwallowed, Ended

\* No panic of a hook or a finish function is lost, however many there are
\* and in whatever order the map of finish functions is gone through.
THEOREM NoFailureSwallowed == Spec => []NothingSwallowed
<1>1. Init => OutcomeInv
  BY DEF Init, OutcomeInv
<1> QED  BY <1>1, OutcomeStep, OutcomeGivesNothingSwallowed, NextIsParse, PTL DEF Spec

\* The document is stored as soon as the parser ran, the flag at the end; a
\* document that was not parsed leaves an error until the operation ends.
InputsInv ==
    /\ ExecutionInputs
    /\ pc = "ParseFinish" => parsed \/ errors # {}
    /\ pc \in {"ValidationDidStart", "ValidationFinish"} => parsed

LEMMA InputsStep == InputsInv /\ ParseOrStutter => InputsInv'
<1> SUFFICES ASSUME InputsInv, ParseOrStutter PROVE InputsInv'
  OBVIOUS
<1> USE DEF InputsInv, ExecutionInputs, StartHooks, FinishHooks
<1>1. ASSUME NEW hook \in StartHooks, CallHook(hook)
      PROVE  InputsInv'
  BY <1>1 DEF CallHook
<1>2. ASSUME NEW hook \in FinishHooks, CallFinisher(hook)
      PROVE  InputsInv'
  <2>1. UNCHANGED <<pc, parsed, ast, flag>> /\ (errors # {} => errors' # {})
    BY <1>2 DEF CallFinisher
  <2> QED  BY <2>1
<1>3. CASE InitsDone \/ ParseStarted \/ ParseFinished \/ ValidationStarted
  BY <1>3 DEF InitsDone, ParseStarted, ParseFinished, ValidationStarted, EnterPhase
<1>4. CASE ValidationFinished
  BY <1>4 DEF ValidationFinished, EnterPhase, Subscription
<1>5. CASE UNCHANGED parseVars
  BY <1>5 DEF parseVars
<1> QED  BY <1>1, <1>2, <1>3, <1>4, <1>5 DEF ParseOrStutter, ParseStep

\* An accepted operation has its document and its flag, a rejected one no flag.
THEOREM InputsAreThere == Spec => []ExecutionInputs
<1>1. Init => InputsInv
  BY DEF Init, InputsInv, ExecutionInputs
<1>2. InputsInv => ExecutionInputs
  BY DEF InputsInv
<1> QED  BY <1>1, <1>2, InputsStep, NextIsParse, PTL DEF Spec

-----------------------------------------------------------------------------
(* Who was called, and with which context.                                 *)

\* The calls so far are those of the extensions before idx, and of the phases
\* before this one.
CallsInv ==
    /\ \A c \in called : c.hook \in StartHooks =>
          /\ \E i \in DOMAIN Order : Order[i] = c.ext
          /\ pc = c.hook => Position(c.ext) < idx
    /\ pc = "Init" => Calls("ParseDidStart") = {}
    /\ pc \in {"Init", "ParseDidStart", "ParseFinish"} => Calls("ValidationDidStart") = {}

\* The context holds the hooks that returned, and nothing else.
ContextInv ==
    /\ ContextThreaded
    /\ \A c \in called : c.hook \in StartHooks =>
          ((\E i \in DOMAIN context : context[i] = <<c.hook, c.ext>>) <=> c.ok)
    /\ \A i \in DOMAIN context : \E c \in called : context[i] = <<c.hook, c.ext>>
    /\ \A d \in called : d.hook \in StartHooks =>
          \A i \in DOMAIN d.given : \E c \in called : d.given[i] = <<c.hook, c.ext>>

LEMMA PositionOf == \A i \in DOMAIN Order : Position(Order[i]) = i
BY OrderAssumption DEF Position

\* The call of the next hook of this phase is new.
LEMMA HookIsNew ==
    ASSUME TypeOK, CallsInv, NEW hook \in StartHooks, pc = hook, HasNext
    PROVE  /\ Position(Order[idx]) = idx /\ idx \in DOMAIN Order
           /\ \A c \in called : ~(c.hook = hook /\ c.ext = Order[idx])
<1>1. idx \in DOMAIN Order
  BY OrderAssumption DEF TypeOK, HasNext
<1> QED  BY <1>1, PositionOf DEF TypeOK, CallsInv

LEMMA CallsStep == TypeOK /\ CallsInv /\ ParseOrStutter => CallsInv'
<1> SUFFICES ASSUME TypeOK, CallsInv, ParseOrStutter PROVE CallsInv'
  OBVIOUS
<1>1. ASSUME NEW hook \in StartHooks, CallHook(hook)
      PROVE  CallsInv'
  <2>1. \E ok \in BOOLEAN :
           called' = called \cup {[hook |-> hook, ext |-> Order[idx], ok |-> ok, given |-> context]}
    BY <1>1 DEF CallHook, HookReturns, HookPanics, Record
  <2>2. pc = hook /\ UNCHANGED pc /\ idx' = idx + 1 /\ HasNext
    BY <1>1 DEF CallHook
  <2>3. Position(Order[idx]) = idx /\ idx \in DOMAIN Order
    BY <2>2, HookIsNew
  <2>4. \A c \in called' : c \in called \/ (c.hook = hook /\ c.ext = Order[idx])
    BY <2>1
  <2>5. \A c \in called' : c.hook \in StartHooks =>
           /\ \E i \in DOMAIN Order : Order[i] = c.ext
           /\ pc' = c.hook => Position(c.ext) < idx'
    <3> SUFFICES ASSUME NEW c \in called', c.hook \in StartHooks
                 PROVE  /\ \E i \in DOMAIN Order : Order[i] = c.ext
                        /\ pc' = c.hook => Position(c.ext) < idx'
      OBVIOUS
    <3>1. CASE c \in called
      <4>1. c.hook = pc => Position(c.ext) \in DOMAIN Order /\ Position(c.ext) < idx
        BY <3>1, PositionOf DEF CallsInv
      <4> QED  BY <2>2, <2>3, <3>1, <4>1, OrderAssumption DEF CallsInv, TypeOK
    <3>2. CASE c.hook = hook /\ c.ext = Order[idx]
      BY <2>2, <2>3, <3>2, OrderAssumption
    <3> QED  BY <2>4, <3>1, <3>2
  <2>6. hook # "ParseDidStart" => Calls("ParseDidStart")' = Calls("ParseDidStart")
    BY <2>1 DEF Calls
  <2>7. hook # "ValidationDidStart" => Calls("ValidationDidStart")' = Calls("ValidationDidStart")
    BY <2>1 DEF Calls
  <2> QED  BY <2>2, <2>5, <2>6, <2>7 DEF CallsInv
<1>2. ASSUME NEW hook \in FinishHooks, CallFinisher(hook)
      PROVE  CallsInv'
  <2>1. \E e, ok : called' = called \cup {[hook |-> hook, ext |-> e, ok |-> ok, given |-> context]}
    BY <1>2 DEF CallFinisher, Record
  <2>2. hook \notin StartHooks /\ UNCHANGED <<pc, idx>>
    BY <1>2 DEF CallFinisher, StartHooks, FinishHooks
  <2>3. \A c \in called' : c.hook \in StartHooks => c \in called
    BY <2>1, <2>2
  <2>4. /\ Calls("ParseDidStart")' = Calls("ParseDidStart")
        /\ Calls("ValidationDidStart")' = Calls("ValidationDidStart")
    BY <2>1, <2>2 DEF Calls, StartHooks
  <2> QED  BY <2>2, <2>3, <2>4 DEF CallsInv
<1>3. CASE InitsDone \/ ParseStarted \/ ParseFinished \/ ValidationStarted \/ ValidationFinished
  <2>1. UNCHANGED called
    BY <1>3 DEF InitsDone, ParseStarted, ParseFinished, ValidationStarted, ValidationFinished
  <2>2. /\ pc' \in StartHooks => Calls(pc') = {}
        /\ pc' # "Init"
        /\ pc' \in {"Init", "ParseDidStart", "ParseFinish"} => Calls("ValidationDidStart") = {}
    BY <1>3 DEF InitsDone, ParseStarted, ParseFinished, ValidationStarted, ValidationFinished,
       EnterPhase, StartHooks, CallsInv
  <2> QED  BY <2>1, <2>2 DEF CallsInv, Calls
<1>4. CASE UNCHANGED parseVars
  BY <1>4 DEF parseVars, CallsInv, Calls
<1> QED  BY <1>1, <1>2, <1>3, <1>4 DEF ParseOrStutter, ParseStep

\* A hook under way is called after all those it must be called after.
LEMMA CalledBefore ==
    ASSUME TypeOK, CallsInv, NEW hook \in StartHooks, pc = hook, HasNext,
           NEW c \in called, c.hook \in StartHooks
    PROVE  /\ \/ c.hook = hook /\ Position(c.ext) < Position(Order[idx])
              \/ c.hook = "Init" /\ hook # "Init"
              \/ c.hook = "ParseDidStart" /\ hook = "ValidationDidStart"
           /\ ~(c.hook = hook /\ Position(Order[idx]) < Position(c.ext))
           /\ ~(hook = "Init" /\ c.hook # "Init")
           /\ ~(hook = "ParseDidStart" /\ c.hook = "ValidationDidStart")
<1>1. Position(Order[idx]) = idx /\ idx \in DOMAIN Order
  BY HookIsNew
<1>2. c.hook = hook => Position(c.ext) < idx /\ Position(c.ext) \in DOMAIN Order
  BY PositionOf DEF CallsInv
<1>3. c.hook # "ParseDidStart" \/ hook # "Init"
  BY DEF CallsInv, Calls
<1>4. c.hook = "ValidationDidStart" => hook = "ValidationDidStart"
  BY DEF CallsInv, Calls, StartHooks
<1>5. c.hook = hook => ~(idx < Position(c.ext))
  BY <1>1, <1>2, OrderAssumption
<1> QED  BY <1>1, <1>2, <1>3, <1>4, <1>5 DEF StartHooks

LEMMA ContextStep == TypeOK /\ CallsInv /\ ContextInv /\ ParseOrStutter => ContextInv'
<1> SUFFICES ASSUME TypeOK, CallsInv, ContextInv, ParseOrStutter PROVE ContextInv'
  OBVIOUS
<1>1. ASSUME NEW hook \in StartHooks, CallHook(hook)
      PROVE  ContextInv'
  <2> DEFINE pair == <<hook, Order[idx]>>
  <2>1. pc = hook /\ HasNext
    BY <1>1 DEF CallHook
  <2>2. PICK ok \in BOOLEAN :
           /\ called' = called \cup {[hook |-> hook, ext |-> Order[idx], ok |-> ok, given |-> context]}
           /\ context' = IF ok THEN Append(context, pair) ELSE context
    BY <1>1 DEF CallHook, HookReturns, HookPanics, Record
  <2> DEFINE new == [hook |-> hook, ext |-> Order[idx], ok |-> ok, given |-> context]
  <2>3. context \in Seq(StartHooks \X Extension)
    BY DEF TypeOK
  <2>4. \A i \in DOMAIN context : context[i] # pair
    BY <2>1, HookIsNew DEF ContextInv
  <2>5. /\ DOMAIN context \subseteq DOMAIN context'
        /\ \A i \in DOMAIN context : context'[i] = context[i]
        /\ \A i \in DOMAIN context' \ DOMAIN context : ok /\ context'[i] = pair
        /\ ok => \E i \in DOMAIN context' : context'[i] = pair
    <3>1. CASE ~ok
      BY <2>2, <3>1
    <3>2. CASE ok
      <4>1. context' = Append(context, pair)
        BY <2>2, <3>2
      <4>2. /\ Len(context') = Len(context) + 1
            /\ DOMAIN context' = 1..(Len(context) + 1) /\ DOMAIN context = 1..Len(context)
            /\ \A i \in 1..Len(context) : context'[i] = context[i]
            /\ context'[Len(context) + 1] = pair /\ Len(context) \in Nat
        BY <2>3, <4>1
      <4> QED  BY <3>2, <4>2
    <3> QED  BY <3>1, <3>2
  <2>6. \A c \in called : c.hook \in StartHooks =>
           ((\E i \in DOMAIN context' : context'[i] = <<c.hook, c.ext>>) <=> c.ok)
    <3> SUFFICES ASSUME NEW c \in called, c.hook \in StartHooks
                 PROVE  (\E i \in DOMAIN context' : context'[i] = <<c.hook, c.ext>>) <=> c.ok
      OBVIOUS
    <3>1. pair # <<c.hook, c.ext>>
      BY <2>1, HookIsNew
    <3> QED  BY <2>5, <3>1 DEF ContextInv
  <2>7. (\E i \in DOMAIN context' : context'[i] = pair) <=> ok
    BY <2>4, <2>5
  <2>8. ContextThreaded'
    <3> SUFFICES ASSUME NEW c \in called', NEW d \in called',
                        d.hook \in StartHooks, c.hook \in StartHooks
                 PROVE  (\E i \in DOMAIN d.given : d.given[i] = <<c.hook, c.ext>>) <=>
                           /\ \/ c.hook = d.hook /\ Position(c.ext) < Position(d.ext)
                              \/ c.hook = "Init" /\ d.hook # "Init"
                              \/ c.hook = "ParseDidStart" /\ d.hook = "ValidationDidStart"
                           /\ c.ok
      BY DEF ContextThreaded
    <3>1. CASE c \in called /\ d \in called
      BY <3>1 DEF ContextInv, ContextThreaded
    <3>2. CASE c \in called /\ d = new
      <4>1. d.given = context /\ d.hook = hook /\ d.ext = Order[idx]
        BY <3>2
      <4> QED  BY <2>1, <3>2, <4>1, CalledBefore DEF ContextInv
    <3>3. CASE c = new /\ d \in called
      <4>1. c.hook = hook /\ c.ext = Order[idx]
        BY <3>3
      <4>2. \A i \in DOMAIN d.given : d.given[i] # <<c.hook, c.ext>>
        BY <2>1, <3>3, <4>1, HookIsNew DEF ContextInv
      <4> QED  BY <2>1, <3>3, <4>1, <4>2, CalledBefore
    <3>4. CASE c = new /\ d = new
      <4>1. c.hook = hook /\ c.ext = Order[idx] /\ d.given = context /\ d.hook = hook
              /\ d.ext = Order[idx]
        BY <3>4
      <4>2. ~(Position(Order[idx]) < Position(Order[idx]))
        BY <2>1, HookIsNew, OrderAssumption
      <4> QED  BY <2>4, <4>1, <4>2
    <3> QED  BY <2>2, <3>1, <3>2, <3>3, <3>4
  <2>9. \A i \in DOMAIN context' : \E c \in called' : context'[i] = <<c.hook, c.ext>>
    <3>1. new \in called' /\ pair = <<new.hook, new.ext>> /\ called \subseteq called'
      BY <2>2
    <3> QED  BY <2>5, <3>1 DEF ContextInv
  <2>10. \A d \in called' : d.hook \in StartHooks =>
            \A i \in DOMAIN d.given : \E c \in called' : d.given[i] = <<c.hook, c.ext>>
    BY <2>2 DEF ContextInv
  <2>11. \A c \in called' : c.hook \in StartHooks =>
            ((\E i \in DOMAIN context' : context'[i] = <<c.hook, c.ext>>) <=> c.ok)
    <3>1. new.ok = ok /\ <<new.hook, new.ext>> = pair
      OBVIOUS
    <3>2. (\E i \in DOMAIN context' : context'[i] = <<new.hook, new.ext>>) <=> new.ok
      BY <2>7, <3>1
    <3>3. \A c \in called' : c \in called \/ c = new
      BY <2>2
    <3> HIDE DEF new
    <3> QED  BY <2>6, <3>2, <3>3
  <2> QED  BY <2>8, <2>9, <2>10, <2>11 DEF ContextInv
<1>2. ASSUME NEW hook \in FinishHooks, CallFinisher(hook)
      PROVE  ContextInv'
  <2>1. \E e, ok : called' = called \cup {[hook |-> hook, ext |-> e, ok |-> ok, given |-> context]}
    BY <1>2 DEF CallFinisher, Record
  <2>2. hook \notin StartHooks /\ UNCHANGED context
    BY <1>2 DEF CallFinisher, StartHooks, FinishHooks
  <2>3. /\ \A c \in called' : c.hook \in StartHooks => c \in called
        /\ called \subseteq called'
    BY <2>1, <2>2
  <2>4. ContextThreaded'
    BY <2>3 DEF ContextInv, ContextThreaded
  <2> QED  BY <2>2, <2>3, <2>4 DEF ContextInv
<1>3. CASE UNCHANGED <<called, context>>
  BY <1>3 DEF ContextInv, ContextThreaded
<1>4. CASE InitsDone \/ ParseStarted \/ ParseFinished \/ ValidationStarted \/ ValidationFinished
  BY <1>3, <1>4 DEF InitsDone, ParseStarted, ParseFinished, ValidationStarted, ValidationFinished
<1>5. CASE UNCHANGED parseVars
  BY <1>3, <1>5 DEF parseVars
<1> QED  BY <1>1, <1>2, <1>4, <1>5 DEF ParseOrStutter, ParseStep

LEMMA ContextInit == Init => CallsInv /\ ContextInv
BY DEF Init, CallsInv, ContextInv, ContextThreaded, Calls

\* Whatever the order of the extensions, and whichever panic: a hook gets the
\* contexts of exactly those that returned before it.
THEOREM ContextsAreThreaded == Spec => []ContextThreaded
<1>1. ContextInv => ContextThreaded
  BY DEF ContextInv
<1> QED  BY <1>1, ContextInit, ContextStep, CallsStep, TypeInit, TypeStep, NextIsParse, PTL DEF Spec

-----------------------------------------------------------------------------
(* Finish functions.                                                       *)

Starts == {"ParseDidStart", "ValidationDidStart"}
FinishOf(start) == IF start = "ParseDidStart" THEN "ParseFinish" ELSE "ValidationFinish"

\* Only what started is finished, or kept for it.
Sound(start) ==
    /\ \A c \in Calls(FinishOf(start)) : \E s \in Calls(start) : s.ok /\ s.ext = c.ext
    /\ pc \in {start, FinishOf(start)} =>
          \A n \in DOMAIN finishers : \E s \in Calls(start) : s.ok /\ s.ext = finishers[n]

\* While extensions start, the last of each name is kept; while they are
\* finished, each of these is either still kept or was called.
Opened(start) ==
    pc = start =>
        \A s \in Calls(start) : s.ok =>
            /\ Named[s.ext] \in DOMAIN finishers
            /\ Position(s.ext) <= Position(finishers[Named[s.ext]])
Closing(start) ==
    pc = FinishOf(start) =>
        \A s \in Calls(start) : s.ok /\ Keeps(s.ext, start) =>
            \/ Named[s.ext] \in DOMAIN finishers /\ finishers[Named[s.ext]] = s.ext
            \/ \E c \in Calls(FinishOf(start)) : c.ext = s.ext
Closed(start) ==
    \A s \in Calls(start) : s.ok /\ Keeps(s.ext, start) =>
        \E c \in Calls(FinishOf(start)) : c.ext = s.ext

FinishInv ==
    /\ \A start \in Starts : Sound(start) /\ Opened(start) /\ Closing(start)
    /\ pc \in {"ValidationDidStart", "ValidationFinish"} => Closed("ParseDidStart")
    /\ Ended => Closed("ValidationDidStart") /\ (ast = "unset" \/ Closed("ParseDidStart"))
    /\ pc \in {"Init", "ParseDidStart"} => ast = "unset"

LEMMA FinishGivesPaired == FinishInv => FinishPaired
BY Zenon DEF FinishInv, Sound, Closed, FinishPaired, Starts, FinishOf

\* The finish function that is kept is the one Keeps speaks of.
LEMMA KeptIsLast ==
    ASSUME TypeOK, CallsInv, NEW start \in Starts, Sound(start), Opened(start), pc = start,
           NEW s \in Calls(start), s.ok, Keeps(s.ext, start)
    PROVE  Named[s.ext] \in DOMAIN finishers /\ finishers[Named[s.ext]] = s.ext
<1>1. Named[s.ext] \in DOMAIN finishers /\ Position(s.ext) <= Position(finishers[Named[s.ext]])
  BY DEF Opened
<1>2. PICK r \in Calls(start) : r.ok /\ r.ext = finishers[Named[s.ext]]
  BY <1>1 DEF Sound
<1>3. Named[r.ext] = Named[s.ext]
  BY <1>1, <1>2 DEF TypeOK
<1>4. Position(r.ext) <= Position(s.ext)
  BY <1>2, <1>3 DEF Keeps
<1>5. (\E i \in DOMAIN Order : Order[i] = r.ext) /\ (\E i \in DOMAIN Order : Order[i] = s.ext)
  BY DEF CallsInv, Calls, Starts, StartHooks
<1>6. PICK i \in DOMAIN Order : Order[i] = r.ext
  BY <1>5
<1>7. PICK j \in DOMAIN Order : Order[j] = s.ext
  BY <1>5
<1>8. Position(r.ext) = i /\ Position(s.ext) = j /\ i \in Nat /\ j \in Nat
  BY <1>6, <1>7, PositionOf, OrderAssumption
<1>9. i = j
  BY <1>1, <1>2, <1>4, <1>8
<1> QED  BY <1>1, <1>2, <1>6, <1>7, <1>9

\* What was closed stays closed, as its start hooks are not called again.
LEMMA ClosedStays ==
    ASSUME NEW start \in Starts, Closed(start), Calls(start)' = Calls(start),
           Calls(FinishOf(start)) \subseteq Calls(FinishOf(start))'
    PROVE  Closed(start)'
<1>1. \A e : Keeps(e, start)' <=> Keeps(e, start)
  BY DEF Keeps
<1> QED  BY <1>1 DEF Closed

LEMMA FinishHookStep ==
    ASSUME TypeOK, CallsInv, FinishInv, NEW hook \in StartHooks, CallHook(hook)
    PROVE  FinishInv'
<1>1. /\ pc = hook /\ UNCHANGED <<pc, ast>> /\ HasNext
      /\ HookReturns(hook) \/ HookPanics(hook)
  BY DEF CallHook
<1>2. Position(Order[idx]) = idx /\ idx \in DOMAIN Order
  BY <1>1, HookIsNew
<1>3. PICK ok \in BOOLEAN :
         /\ called' = called \cup {[hook |-> hook, ext |-> Order[idx], ok |-> ok, given |-> context]}
         /\ ~ok \/ hook = "Init" => UNCHANGED finishers
         /\ ok /\ hook # "Init" =>
               finishers' = [n \in DOMAIN finishers \cup {Named[Order[idx]]} |->
                                IF n = Named[Order[idx]] THEN Order[idx] ELSE finishers[n]]
  BY <1>1 DEF HookReturns, HookPanics, Record
<1> DEFINE new == [hook |-> hook, ext |-> Order[idx], ok |-> ok, given |-> context]
<1>4. /\ \A start \in Starts : /\ Calls(FinishOf(start))' = Calls(FinishOf(start))
                               /\ start # hook => Calls(start)' = Calls(start)
      /\ hook \in Starts => Calls(hook)' = Calls(hook) \cup {new}
  BY <1>3 DEF Calls, Starts, FinishOf, StartHooks
<1>5. ASSUME NEW start \in Starts
      PROVE  Sound(start)' /\ Opened(start)' /\ Closing(start)'
  <2>1. CASE start # hook
    <3>1. pc' \notin {start, FinishOf(start)}
      BY <1>1, <2>1 DEF Starts, FinishOf, StartHooks
    <3> QED  BY <1>4, <2>1, <3>1 DEF FinishInv, Sound, Opened, Closing
  <2>2. CASE start = hook
    <3>1. /\ Calls(start)' = Calls(start) \cup {new} /\ hook # "Init"
          /\ Calls(FinishOf(start))' = Calls(FinishOf(start))
          /\ Sound(start) /\ Opened(start)
      BY <1>4, <2>2 DEF Starts, FinishInv
    <3>2. /\ new.ok = ok /\ new.ext = Order[idx]
          /\ ~ok => UNCHANGED finishers
          /\ ok => finishers' = [n \in DOMAIN finishers \cup {Named[Order[idx]]} |->
                                IF n = Named[Order[idx]] THEN Order[idx] ELSE finishers[n]]
      BY <1>3, <3>1
    <3> HIDE DEF new
    <3>3. Sound(start)'
      <4>1. \A c \in Calls(FinishOf(start))' : \E s \in Calls(start)' : s.ok /\ s.ext = c.ext
        BY <3>1 DEF Sound
      <4>2. \A n \in DOMAIN finishers' : \E s \in Calls(start)' : s.ok /\ s.ext = finishers'[n]
        BY <1>1, <2>2, <3>1, <3>2 DEF Sound
      <4> QED  BY <4>1, <4>2 DEF Sound
    <3>4. Opened(start)'
      <4> SUFFICES ASSUME NEW s \in Calls(start)', s.ok
                   PROVE  /\ Named[s.ext] \in DOMAIN finishers'
                          /\ Position(s.ext) <= Position(finishers'[Named[s.ext]])
        BY DEF Opened
      <4>1. CASE s = new
        BY <1>2, <3>2, <4>1, OrderAssumption
      <4>2. CASE s \in Calls(start)
        <5>1. /\ Named[s.ext] \in DOMAIN finishers
              /\ Position(s.ext) <= Position(finishers[Named[s.ext]])
          BY <1>1, <2>2, <3>1, <4>2 DEF Opened
        <5>2. Position(s.ext) < idx
          BY <1>1, <2>2, <4>2 DEF CallsInv, Calls
        <5>3. Position(s.ext) \in DOMAIN Order
          BY <4>2, PositionOf DEF CallsInv, Calls, Starts, StartHooks
        <5>4. Position(s.ext) <= idx
          BY <1>2, <5>2, <5>3, OrderAssumption
        <5> QED  BY <1>2, <3>2, <5>1, <5>4
      <4> QED  BY <3>1, <4>1, <4>2
    <3>5. Closing(start)'
      BY <1>1, <2>2 DEF Closing, Starts, FinishOf
    <3> QED  BY <3>3, <3>4, <3>5
  <2> QED  BY <2>1, <2>2
<1>6. pc \in {"ValidationDidStart", "ValidationFinish"} => Closed("ParseDidStart")'
  <2>1. "ParseDidStart" \in Starts
    BY DEF Starts
  <2> QED  BY <1>1, <1>4, <2>1, ClosedStays DEF FinishInv
<1>7. ~Ended'
  BY <1>1 DEF Ended, StartHooks
<1> QED  BY <1>1, <1>5, <1>6, <1>7 DEF FinishInv

LEMMA FinisherStep ==
    ASSUME TypeOK, FinishInv, NEW hook \in FinishHooks, CallFinisher(hook)
    PROVE  FinishInv'
<1>1. pc = hook /\ UNCHANGED <<pc, ast>>
  BY DEF CallFinisher
<1>2. PICK n \in DOMAIN finishers, ok \in BOOLEAN :
         /\ finishers' = [m \in DOMAIN finishers \ {n} |-> finishers[m]]
         /\ called' = called \cup {[hook |-> hook, ext |-> finishers[n], ok |-> ok, given |-> context]}
  BY DEF CallFinisher, Record
<1> DEFINE new == [hook |-> hook, ext |-> finishers[n], ok |-> ok, given |-> context]
<1>3. /\ \A start \in Starts : /\ Calls(start)' = Calls(start)
                               /\ FinishOf(start) # hook =>
                                     Calls(FinishOf(start))' = Calls(FinishOf(start))
                               /\ FinishOf(start) = hook =>
                                     Calls(FinishOf(start))' = Calls(FinishOf(start)) \cup {new}
  BY <1>2 DEF Calls, Starts, FinishOf, FinishHooks
<1>4. \A start \in Starts : \A e : Keeps(e, start)' <=> Keeps(e, start)
  BY <1>3 DEF Keeps
<1>5. ASSUME NEW start \in Starts
      PROVE  Sound(start)' /\ Opened(start)' /\ Closing(start)'
  <2>1. CASE FinishOf(start) # hook
    <3>1. pc' \notin {start, FinishOf(start)}
      BY <1>1, <2>1 DEF Starts, FinishOf, FinishHooks
    <3> QED  BY <1>3, <2>1, <3>1 DEF FinishInv, Sound, Opened, Closing
  <2>2. CASE FinishOf(start) = hook
    <3>1. /\ Calls(start)' = Calls(start)
          /\ Calls(FinishOf(start))' = Calls(FinishOf(start)) \cup {new}
          /\ Sound(start) /\ Closing(start)
      BY <1>3, <2>2 DEF FinishInv
    <3>2. new.ext = finishers[n]
      OBVIOUS
    <3> HIDE DEF new
    <3>3. Sound(start)'
      BY <1>1, <1>2, <2>2, <3>1, <3>2 DEF Sound
    <3>4. Closing(start)'
      BY <1>1, <1>2, <1>4, <2>2, <3>1, <3>2 DEF Closing
    <3>5. Opened(start)'
      BY <1>1, <2>2 DEF Opened, Starts, FinishOf
    <3> QED  BY <3>3, <3>4, <3>5
  <2> QED  BY <2>1, <2>2
<1>6. pc = "ValidationFinish" => Closed("ParseDidStart")'
  <2>1. "ParseDidStart" \in Starts
    BY DEF Starts
  <2>2. Calls(FinishOf("ParseDidStart")) \subseteq Calls(FinishOf("ParseDidStart"))'
    BY <1>3, <2>1
  <2> QED  BY <1>3, <2>1, <2>2, ClosedStays DEF FinishInv
<1> QED  BY <1>1, <1>5, <1>6 DEF FinishInv, FinishHooks, Ended

LEMMA FinishStep == TypeOK /\ CallsInv /\ FinishInv /\ ParseOrStutter => FinishInv'
<1> SUFFICES ASSUME TypeOK, CallsInv, FinishInv, ParseOrStutter PROVE FinishInv'
  OBVIOUS
<1>1. ASSUME NEW hook \in StartHooks, CallHook(hook)
      PROVE  FinishInv'
  BY <1>1, FinishHookStep
<1>2. ASSUME NEW hook \in FinishHooks, CallFinisher(hook)
      PROVE  FinishInv'
  BY <1>2, FinisherStep
<1>3. ASSUME UNCHANGED called
      PROVE  /\ \A hook : Calls(hook)' = Calls(hook)
             /\ \A start, e : Keeps(e, start)' <=> Keeps(e, start)
             /\ \A start : Closed(start)' <=> Closed(start)
  BY <1>3 DEF Calls, Keeps, Closed
<1>4. DOMAIN NoFinishers = {}
  BY DEF NoFinishers
<1>5. CASE InitsDone
  <2>1. UNCHANGED <<called, ast>> /\ pc' \in {"rejected", "ParseDidStart"} /\ pc = "Init"
          /\ finishers' = NoFinishers
    BY <1>5 DEF InitsDone, EnterPhase
  <2>2. Calls("ParseDidStart") = {} /\ Calls("ValidationDidStart") = {}
    BY <2>1 DEF CallsInv
  <2> QED
    BY <1>3, <1>4, <2>1, <2>2 DEF FinishInv, Sound, Opened, Closing, Closed, Starts, FinishOf, Ended
<1>6. CASE ParseStarted
  <2>1. UNCHANGED called /\ pc = "ParseDidStart"
          /\ Calls("ValidationDidStart") = {}
    BY <1>6 DEF ParseStarted, CallsInv
  <2>2. CASE pc' = "rejected" /\ finishers' = NoFinishers /\ UNCHANGED ast
    BY <1>3, <1>4, <2>1, <2>2
       DEF FinishInv, Sound, Opened, Closing, Closed, Starts, FinishOf, Ended
  <2>3. CASE pc' = "ParseFinish" /\ UNCHANGED finishers
    <3>1. Closing("ParseDidStart")'
      <4>1. "ParseDidStart" \in Starts
        BY DEF Starts
      <4> QED  BY <1>3, <2>1, <2>3, <4>1, KeptIsLast DEF FinishInv, Closing
    <3> QED
      BY <1>3, <2>1, <2>3, <3>1 DEF FinishInv, Sound, Opened, Closing, Starts, FinishOf, Ended
  <2> QED  BY <1>6, <2>2, <2>3 DEF ParseStarted, EnterPhase
<1>7. CASE ParseFinished
  <2>1. UNCHANGED <<called, ast>> /\ pc = "ParseFinish" /\ finishers = NoFinishers
          /\ finishers' = NoFinishers /\ pc' \in {"rejected", "ValidationDidStart"}
          /\ Calls("ValidationDidStart") = {}
    BY <1>7 DEF ParseFinished, EnterPhase, CallsInv
  <2>2. Closed("ParseDidStart")
    BY <1>4, <2>1 DEF FinishInv, Closing, Closed, Starts, FinishOf
  <2> QED
    BY <1>3, <1>4, <2>1, <2>2 DEF FinishInv, Sound, Opened, Closing, Closed, Starts, FinishOf, Ended
<1>8. CASE ValidationStarted
  <2>1. UNCHANGED <<called, ast, finishers>> /\ pc = "ValidationDidStart"
          /\ pc' = "ValidationFinish"
    BY <1>8 DEF ValidationStarted
  <2>2. Closing("ValidationDidStart")'
    <3>1. "ValidationDidStart" \in Starts
      BY DEF Starts
    <3> QED  BY <1>3, <2>1, <3>1, KeptIsLast DEF FinishInv, Closing
  <2> QED
    BY <1>3, <2>1, <2>2 DEF FinishInv, Sound, Opened, Closing, Starts, FinishOf, Ended
<1>9. CASE ValidationFinished
  <2>1. UNCHANGED <<called, ast>> /\ pc = "ValidationFinish" /\ finishers = NoFinishers
          /\ finishers' = NoFinishers /\ pc' \in {"rejected", "accepted"}
    BY <1>9 DEF ValidationFinished, EnterPhase
  <2>2. Closed("ValidationDidStart")
    BY <1>4, <2>1 DEF FinishInv, Closing, Closed, Starts, FinishOf
  <2> QED
    BY <1>3, <1>4, <2>1, <2>2 DEF FinishInv, Sound, Opened, Closing, Starts, FinishOf, Ended
<1>10. CASE UNCHANGED parseVars
  BY <1>3, <1>10 DEF parseVars, FinishInv, Sound, Opened, Closing, Ended
<1> QED  BY <1>1, <1>2, <1>5, <1>6, <1>7, <1>8, <1>9, <1>10 DEF ParseOrStutter, ParseStep

LEMMA FinishInit == Init => FinishInv
<1> SUFFICES ASSUME Init PROVE FinishInv
  OBVIOUS
<1>1. \A hook : Calls(hook) = {}
  BY DEF Init, Calls
<1> QED  BY <1>1 DEF Init, FinishInv, Sound, Opened, Closing, Closed, Starts, FinishOf, Ended

\* For every extension that started and whose finish function is kept, that
\* function is called, whatever panics; and for no other.
THEOREM FinishIsPaired == Spec => []FinishPaired
BY FinishGivesPaired, FinishInit, FinishStep, ContextInit, CallsStep, TypeInit, TypeStep,
   NextIsParse, PTL DEF Spec
=============================================================================
