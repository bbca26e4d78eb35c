--------------------------- MODULE OperationProofs ---------------------------
(***************************************************************************)
(* Theorems about Operation, for every set of extensions and any bound on  *)
(* the results: what is proved of parseAST in ExtensionsProofs holds of it *)
(* as a part of the operation, and the client and the span are told the    *)
(* same story.                                                             *)
(***************************************************************************)
EXTENDS Operation, ExtensionsProofs, FunctionTheorems, FiniteSetTheorems, SequenceTheorems

USE DEF goVars, readVars, opVars, notEarly, notLate, notExecuted, Goto

-----------------------------------------------------------------------------
(* Parsing as a part of the operation.                                     *)

\* The operation steps through parseAST, or leaves its variables alone.
LEMMA OperationParses == [OperationNext]_operationVars => ParseOrStutter
<1> SUFFICES ASSUME OperationNext \/ UNCHANGED operationVars, ~Parse PROVE UNCHANGED parseVars
  BY DEF Parse, ParseOrStutter
<1> USE DEF vars, parseVars
<1>1. CASE Unmarshal
  BY <1>1 DEF Unmarshal
<1>2. CASE ReadPing \/ ReadStop \/ StartSpan \/ InterceptOperation \/ ParseReturns \/ Execute
  BY <1>2 DEF ReadPing, ReadStop, StartSpan, InterceptOperation, ParseReturns, Execute
<1>3. CASE Result \/ ResultsEnd \/ InterceptorReturns \/ EndSpan \/ Report \/ CancelAndDelete
  BY <1>3 DEF Result, ResultsEnd, InterceptorReturns, EndSpan, Report, CancelAndDelete
<1>4. CASE UNCHANGED operationVars
  BY <1>4 DEF operationVars
<1> QED  BY <1>1, <1>2, <1>3, <1>4 DEF OperationNext

LEMMA OperationInitParses == OperationInit => Init
BY DEF OperationInit

\* What holds of parseAST alone holds of it between an interceptor and the
\* execution, while the reader goes on.
THEOREM OperationParsing ==
    OperationSpec => [](TypeOK /\ NothingSwallowed /\ ExecutionInputs /\ ContextThreaded /\ FinishPaired)
<1>1. OperationInit => TypeOK /\ OutcomeInv /\ InputsInv /\ CallsInv /\ ContextInv /\ FinishInv
  <2>1. Init => OutcomeInv /\ InputsInv
    BY DEF Init, OutcomeInv, InputsInv, ExecutionInputs
  <2> QED  BY <2>1, OperationInitParses, TypeInit, ContextInit, FinishInit
<1>2. OutcomeInv /\ InputsInv /\ ContextInv /\ FinishInv
        => NothingSwallowed /\ ExecutionInputs /\ ContextThreaded /\ FinishPaired
  BY OutcomeGivesNothingSwallowed, FinishGivesPaired DEF InputsInv, ContextInv
<1> QED
  BY <1>1, <1>2, OperationParses, TypeStep, OutcomeStep, InputsStep, CallsStep, ContextStep,
     FinishStep, PTL DEF OperationSpec

-----------------------------------------------------------------------------
(* Errors on their way.                                                    *)

Shapes == {"raw", "located", "formatted"}
Err(A) == [about : A, extends : BOOLEAN, shape : Shapes, inner : Shapes, shows : BOOLEAN]

\* graphql-go keeps what an error is about.
LEMMA GqlFormatKeeps ==
    ASSUME NEW A, NEW err \in Err(A)
    PROVE  GqlFormat(err) \in Err(A) /\ GqlFormat(err).about = err.about
BY DEF GqlFormat, Err, Shapes

\* And FormatError its extensions, whatever the error has been through.
LEMMA FormatErrorKeeps ==
    ASSUME NEW A, NEW err \in Err(A)
    PROVE  /\ FormatError(err) \in Err(A)
           /\ FormatError(err).about = err.about
           /\ FormatError(err).extends => FormatError(err).shows
<1> DEFINE original == OriginalError(err)
           wrapped == wrapExtendedError(original)
<1>1. original \in Err(A) /\ original.about = err.about
  BY DEF OriginalError, Err, Shapes
<1>2. wrapped \in Err(A) /\ wrapped.about = err.about /\ (wrapped.extends => wrapped.shape = "located")
  BY <1>1 DEF wrapExtendedError, Err, Shapes
<1>3. ASSUME NEW e \in Err(A), e.extends => e.shape = "located"
      PROVE  GqlFormat(e).extends => GqlFormat(e).shows
  BY <1>3 DEF GqlFormat, Err, Shapes
<1>4. original.shape = "located" => (original.extends => original.shape = "located")
  OBVIOUS
<1>5. FormatError(err) = IF original.shape = "located" THEN GqlFormat(original) ELSE GqlFormat(wrapped)
  BY DEF FormatError
<1> HIDE DEF original, wrapped
<1> QED  BY <1>1, <1>2, <1>3, <1>4, <1>5, GqlFormatKeeps

LEMMA GoErrorType ==
    ASSUME NEW A, NEW about \in A, NEW extends \in BOOLEAN, NEW shape \in Shapes
    PROVE  GoError(about, extends, shape) \in Err(A) /\ GoError(about, extends, shape).about = about
BY DEF GoError, Err

LEMMA RefusalAbout ==
    ASSUME NEW about, NEW extends, NEW shape
    PROVE  {e.about : e \in {GoError(about, extends, shape)}} = {about}
<1>1. GoError(about, extends, shape).about = about
  BY DEF GoError
<1> QED  BY <1>1

ResultFailures == {Panic("Result", "field"), Panic("Result", "data")}

LEMMA ResultErrorType ==
    ASSUME NEW field \in FieldErrors, NEW data \in DataErrors
    PROVE  field \cup data \subseteq Err(ResultFailures)
<1>1. ASSUME NEW e \in field PROVE e \in Err(ResultFailures)
  <2>1. PICK extends \in BOOLEAN, shape \in {"raw", "located"} :
           e = GqlFormat(GoError(Panic("Result", "field"), extends, shape))
    BY <1>1 DEF FieldErrors
  <2>2. GoError(Panic("Result", "field"), extends, shape) \in Err(ResultFailures)
    BY GoErrorType DEF ResultFailures, Shapes
  <2> QED  BY <2>1, <2>2, GqlFormatKeeps
<1>2. ASSUME NEW e \in data PROVE e \in Err(ResultFailures)
  <2>1. PICK extends \in BOOLEAN : e = GoError(Panic("Result", "data"), extends, "raw")
    BY <1>2 DEF DataErrors
  <2> QED  BY <2>1, GoErrorType DEF ResultFailures, Shapes
<1> QED  BY <1>1, <1>2

\* What processResult sends of a result: errors of its own, with extensions.
LEMMA ResultErrors ==
    ASSUME NEW field \in FieldErrors, NEW data \in DataErrors,
           NEW errs, errs = {FormatError(e) : e \in field \cup data}
    PROVE  /\ errs \subseteq Err(ResultFailures) /\ {e.about : e \in errs} \subseteq ResultFailures
           /\ \A e \in errs : e.extends => e.shows
<1>1. ASSUME NEW e \in field \cup data
      PROVE  /\ FormatError(e) \in Err(ResultFailures) /\ FormatError(e).about \in ResultFailures
             /\ FormatError(e).extends => FormatError(e).shows
  <2>1. e \in Err(ResultFailures)
    BY ResultErrorType
  <2>2. FormatError(e).extends => FormatError(e).shows
    BY <2>1, FormatErrorKeeps
  <2>3. FormatError(e) \in Err(ResultFailures)
    BY <2>1, FormatErrorKeeps
  <2>4. FormatError(e).about \in ResultFailures
    BY <2>3 DEF Err
  <2> QED  BY <2>2, <2>3, <2>4
<1>2. ASSUME NEW x \in errs
      PROVE  x \in Err(ResultFailures) /\ x.about \in ResultFailures /\ (x.extends => x.shows)
  <2>1. PICK e \in field \cup data : x = FormatError(e)
    BY Zenon
  <2> QED  BY <1>1, <2>1, Zenon
<1> QED  BY <1>2

\* What parseAST returns: its errors, formatted.
LEMMA ParseErrors ==
    ASSUME NEW errs, errs = {GqlFormat(GoError(f, FALSE, "raw")) : f \in errors}
    PROVE  errs \subseteq Err(errors) /\ {e.about : e \in errs} = errors
<1>1. \A f \in errors : /\ GqlFormat(GoError(f, FALSE, "raw")) \in Err(errors)
                       /\ GqlFormat(GoError(f, FALSE, "raw")).about = f
  BY GoErrorType, GqlFormatKeeps DEF Shapes
<1> QED  BY <1>1

\* Errors of parseAST come from hooks, finish functions, parser and validator.
HooksInv == \A e \in errors : e.hook \notin {"Unmarshal", "Result", "OperationReturn"}

LEMMA HooksStep == HooksInv /\ [OperationNext]_operationVars => HooksInv'
<1> SUFFICES ASSUME HooksInv, ParseOrStutter PROVE HooksInv'
  BY OperationParses
<1> USE DEF HooksInv
<1>0. \A hook, e : Panic(hook, e).hook = hook
  BY DEF Panic
<1>1. ASSUME NEW hook \in StartHooks, CallHook(hook)
      PROVE  HooksInv'
  <2>1. UNCHANGED errors \/ errors' = errors \cup {Panic(hook, Order[idx])}
    BY <1>1 DEF CallHook, HookReturns, HookPanics
  <2> QED  BY <1>0, <2>1 DEF StartHooks
<1>2. ASSUME NEW hook \in FinishHooks, CallFinisher(hook)
      PROVE  HooksInv'
  <2>1. UNCHANGED errors \/ \E n : errors' = errors \cup {Panic(hook, finishers[n])}
    BY <1>2 DEF CallFinisher
  <2> QED  BY <1>0, <2>1 DEF FinishHooks
<1>3. CASE InitsDone \/ ParseStarted \/ ParseFinished \/ ValidationStarted \/ ValidationFinished
  BY <1>0, <1>3 DEF InitsDone, ParseStarted, ParseFinished, ValidationStarted, ValidationFinished
<1> QED  BY <1>1, <1>2, <1>3 DEF ParseOrStutter, ParseStep, parseVars

\* What interceptors leave of the operation's error when they return.
LEMMA Outcomes ==
    ASSUME InterceptorReturns
    PROVE  \/ UNCHANGED <<operr, raised, swallowed>>
           \/ /\ \E type \in {"plain", "close"} : \E err \in Err({Late}) :
                    operr' = [type |-> type, errors |-> {err}]
              /\ raised' = raised \cup {Late} /\ swallowed' = swallowed \cup About(operr)
           \/ operr' = NoError /\ swallowed' = swallowed \cup About(operr) /\ UNCHANGED raised
<1>1. CASE /\ \E extends \in BOOLEAN, type \in {"plain", "close"} :
                    Raise(type, {GoError(Late, extends, "raw")})
           /\ swallowed' = swallowed \cup About(operr)
  <2>1. PICK extends \in BOOLEAN, type \in {"plain", "close"} : Raise(type, {GoError(Late, extends, "raw")})
    BY <1>1
  <2> DEFINE err == GoError(Late, extends, "raw")
  <2>2. err \in Err({Late})
    BY GoErrorType DEF Shapes
  <2>3. operr' = [type |-> type, errors |-> {err}] /\ raised' = raised \cup {Late}
    BY <2>1, RefusalAbout DEF Raise
  <2> HIDE DEF err
  <2> QED  BY <1>1, <2>2, <2>3
<1> QED  BY <1>1 DEF InterceptorReturns

-----------------------------------------------------------------------------
(* What the goroutine and the reader read.                                 *)

\* The reader decodes into a variable of its own; the errors of parseAST are
\* not those of decoding the payload.
MemoryInv ==
    /\ DOMAIN memory = {1, 2}
    /\ memory[1] = [ID |-> "1", Payload |-> Decode(EmptyData, sent.start)]
    /\ pong = <<>> => memory[2] = NoMessage
    /\ sent \in [start : Texts, ping : Documents \cup {Null, Nil}]

MessageInv ==
    /\ MemoryInv /\ HooksInv
    /\ step = "unmarshal" => raised = {}
    /\ OwnMessage

LEMMA StartText == MemoryInv => memory[Slot(1)].Payload.RawMessage = sent.start
<1> SUFFICES ASSUME MemoryInv PROVE memory[1].Payload.RawMessage = sent.start
  BY DEF Slot
<1>1. memory[1].Payload = Decode(EmptyData, sent.start)
  BY DEF MemoryInv
<1> QED  BY <1>1 DEF Decode, EmptyData, UnmarshalJSON

LEMMA MemoryStep == MemoryInv /\ [OperationNext]_operationVars => MemoryInv'
<1> SUFFICES ASSUME MemoryInv, OperationNext \/ UNCHANGED operationVars PROVE MemoryInv'
  OBVIOUS
<1>1. CASE ReadPing
  <2>1. PICK msg : memory' = [memory EXCEPT ![2] = msg]
    BY <1>1 DEF ReadPing, Slot
  <2>2. pong' # <<>> /\ UNCHANGED sent
    BY <1>1 DEF ReadPing
  <2>3. DOMAIN memory' = {1, 2} /\ memory'[1] = memory[1]
    BY <2>1 DEF MemoryInv
  <2> QED  BY <2>2, <2>3 DEF MemoryInv
<1>2. CASE UNCHANGED <<memory, pong, sent>>
  BY <1>2 DEF MemoryInv
<1>3. CASE OperationNext /\ ~ReadPing
  BY <1>2, <1>3 DEF OperationNext, ReadStop, Unmarshal, StartSpan, InterceptOperation, Parse, ParseReturns,
     Execute, Result, ResultsEnd, InterceptorReturns, EndSpan, Report, CancelAndDelete, operationVars
<1>4. CASE UNCHANGED operationVars
  BY <1>2, <1>4 DEF operationVars
<1> QED  BY <1>1, <1>3, <1>4

LEMMA MessageStep == MessageInv /\ [OperationNext]_operationVars => MessageInv'
<1> SUFFICES ASSUME MessageInv, OperationNext \/ UNCHANGED operationVars PROVE MessageInv'
  OBVIOUS
<1>1. MemoryInv' /\ HooksInv'
  BY MemoryStep, HooksStep DEF MessageInv
<1>2. UNCHANGED sent
  BY DEF OperationNext, ReadPing, ReadStop, Unmarshal, StartSpan, InterceptOperation, Parse,
     ParseReturns, Execute, Result, ResultsEnd, InterceptorReturns, EndSpan, Report, CancelAndDelete, operationVars
<1>3. (step = "unmarshal" => raised = {})' /\ OwnMessage'
  <2>1. CASE Unmarshal
    <3>1. CASE Undecodable(sent.start)
      <4>1. raised' = {Panic("Unmarshal", "query")} /\ step' = "report"
        BY <2>1, <3>1, StartText DEF MessageInv, Unmarshal, Raise, GoError
      <4> QED  BY <1>2, <3>1, <4>1 DEF OwnMessage, Undecodable
    <3>2. CASE ~Undecodable(sent.start)
      <4>1. document' = sent.start /\ step' = "span" /\ raised' = {}
        BY <2>1, <3>2, StartText DEF MessageInv, Unmarshal
      <4> QED  BY <1>2, <3>2, <4>1 DEF OwnMessage, Undecodable
    <3> QED  BY <3>1, <3>2
  <2>2. CASE UNCHANGED <<step, raised, document>>
    BY <1>2, <2>2 DEF MessageInv, OwnMessage
  <2>3. CASE ReadPing \/ ReadStop \/ Parse
    BY <2>2, <2>3 DEF ReadPing, ReadStop, Parse, ParseStep, vars
  <2>4. ASSUME step # "unmarshal", step' # "unmarshal", UNCHANGED document,
               \A f \in raised' \ raised : f.hook # "Unmarshal", raised \subseteq raised'
        PROVE  (step = "unmarshal" => raised = {})' /\ OwnMessage'
    <3>1. Panic("Unmarshal", "query") \in raised' <=> Panic("Unmarshal", "query") \in raised
      BY <2>4 DEF Panic
    <3> QED  BY <1>2, <2>4, <3>1 DEF MessageInv, OwnMessage
  <2>5. CASE StartSpan \/ ResultsEnd \/ EndSpan \/ Report \/ CancelAndDelete
    BY <2>4, <2>5 DEF StartSpan, ResultsEnd, InterceptorReturns, EndSpan, Report, CancelAndDelete, vars
  <2>6. CASE InterceptOperation \/ Execute
    <3>1. /\ step # "unmarshal" /\ step' # "unmarshal" /\ UNCHANGED document
          /\ \/ UNCHANGED raised
             \/ \E p \in {"Operation", "OperationExecute"} : raised' = raised \cup {Panic(p, "interceptor")}
      <4>1. \A p : Refused(p) => raised' = raised \cup {Panic(p, "interceptor")} /\ step' = "return"
        BY RefusalAbout DEF Refused, Raise
      <4> QED  BY <2>6, <4>1 DEF InterceptOperation, Execute, vars
    <3> QED  BY <2>4, <3>1 DEF Panic
  <2>7. CASE ParseReturns
    <3>1. /\ step # "unmarshal" /\ step' # "unmarshal" /\ UNCHANGED document
          /\ \/ UNCHANGED raised
             \/ raised' = raised \cup errors
             \/ raised' = raised \cup {Panic("OperationParse", "interceptor")}
      <4>1. \A p : Refused(p) => raised' = raised \cup {Panic(p, "interceptor")} /\ step' = "return"
        BY RefusalAbout DEF Refused, Raise
      <4> QED  BY <2>7, <4>1, ParseErrors DEF ParseReturns, Raise, vars
    <3> QED  BY <2>4, <3>1 DEF MessageInv, HooksInv, Panic
  <2>8. CASE Result
    <3>1. /\ step # "unmarshal" /\ step' # "unmarshal" /\ UNCHANGED document
      BY <2>8 DEF Result, vars
    <3>2. /\ raised \subseteq raised'
          /\ \A f \in raised' \ raised : f \in ResultFailures
      <4>1. PICK field \in FieldErrors, data \in DataErrors :
               LET errs == {FormatError(e) : e \in field \cup data}
               IN  UNCHANGED raised \/ raised' = raised \cup {e.about : e \in errs}
        BY <2>8 DEF Result, Raise
      <4> QED  BY <4>1, ResultErrors
    <3> QED  BY <2>4, <3>1, <3>2 DEF Panic, ResultFailures
  <2>9. CASE UNCHANGED operationVars
    BY <2>2, <2>9 DEF operationVars, vars
  <2>10. CASE InterceptorReturns
    <3>1. step # "unmarshal" /\ step' # "unmarshal" /\ UNCHANGED document
      BY <2>10 DEF InterceptorReturns, vars
    <3>2. UNCHANGED raised \/ raised' = raised \cup {Late}
      BY <2>10, Outcomes
    <3> QED  BY <2>4, <3>1, <3>2 DEF Late, Panic
  <2> QED  BY <2>1, <2>3, <2>5, <2>6, <2>7, <2>8, <2>9, <2>10, <2>2 DEF OperationNext, operationVars, vars
<1> QED  BY <1>1, <1>3 DEF MessageInv

LEMMA MessageInit == OperationInit => MessageInv
<1> SUFFICES ASSUME OperationInit PROVE MessageInv
  OBVIOUS
<1>1. memory = [n \in {1, 2} |-> IF n = 1 THEN [ID |-> "1", Payload |-> Decode(EmptyData, sent.start)]
                                          ELSE NoMessage]
  BY DEF OperationInit
<1>2. MemoryInv
  BY <1>1 DEF OperationInit, MemoryInv
<1> QED  BY <1>2 DEF MessageInv, OperationInit, Init, OwnMessage, HooksInv

\* The goroutine of an operation decodes the start message that started it,
\* however far the reader has read on.
THEOREM OperationIsItsOwn == OperationSpec => []OwnMessage
<1>1. MessageInv => OwnMessage
  BY DEF MessageInv
<1> QED  BY <1>1, MessageInit, MessageStep, PTL DEF OperationSpec

\* A pong carries exactly what its ping did, a null and nothing included.
THEOREM PongsEcho == OperationSpec => []PongEchoes
<1>1. OperationInit => PongEchoes
  BY DEF OperationInit, PongEchoes
<1>2. MemoryInv /\ PongEchoes /\ [OperationNext]_operationVars => PongEchoes'
  <2> SUFFICES ASSUME MemoryInv, PongEchoes, OperationNext \/ UNCHANGED operationVars
               PROVE  PongEchoes'
    OBVIOUS
  <2>1. CASE ReadPing
    <3>1. memory[2] = NoMessage /\ NoMessage.Payload = EmptyData
      BY <2>1 DEF ReadPing, MemoryInv, NoMessage
    <3> DEFINE payload == Decode(EmptyData, sent.ping)
    <3>2. pong' = <<Encode([Value |-> payload.Value, RawMessage |-> Nil])>> /\ UNCHANGED sent
      BY <2>1, <3>1 DEF ReadPing, Slot
    <3>3. payload.Value = sent.ping
      BY DEF Decode, UnmarshalJSON, EmptyData
    <3>4. Encode([Value |-> sent.ping, RawMessage |-> Nil]) = sent.ping
      <4>1. CASE sent.ping = Nil
        BY <4>1 DEF Encode, Ptr
      <4>2. CASE sent.ping \in Documents \cup {Null}
        <5>1. sent.ping # Nil /\ Nil # [Value |-> sent.ping, RawMessage |-> Nil]
          BY <4>2, NilAssumption
        <5> QED  BY <5>1 DEF Encode, Ptr, MarshalJSON
      <4>3. sent.ping \in Documents \cup {Null, Nil}
        BY DEF MemoryInv
      <4> QED  BY <4>1, <4>2, <4>3
    <3> QED  BY <3>2, <3>3, <3>4 DEF PongEchoes
  <2>2. CASE UNCHANGED <<pong, sent>>
    BY <2>2 DEF PongEchoes
  <2>3. CASE OperationNext /\ ~ReadPing
    BY <2>2, <2>3 DEF OperationNext, ReadStop, Unmarshal, StartSpan, InterceptOperation, Parse,
       ParseReturns, Execute, Result, ResultsEnd, InterceptorReturns, EndSpan, Report, CancelAndDelete, operationVars
  <2>4. CASE UNCHANGED operationVars
    BY <2>2, <2>4 DEF operationVars
  <2> QED  BY <2>1, <2>3, <2>4
<1>3. OperationInit => MemoryInv
  BY MessageInit DEF MessageInv
<1> QED  BY <1>1, <1>2, <1>3, MemoryStep, PTL DEF OperationSpec
-----------------------------------------------------------------------------
(* What the client and the span are told.                                  *)

Before == {"unmarshal", "span", "operation", "parse", "execute", "results"}

Abouts(errs) == {e.about : e \in errs}

\* The errors of a result are told in it, with their extensions, and mark the
\* operation; the reader may have stopped it first.
ResultTold ==
    /\ raised \subseteq ResultFailures \cup {Late}
    /\ \/ told = <<>> /\ (stopped \/ raised \cap ResultFailures = {})
       \/ \E errs : /\ told = <<[type |-> "data", payload |-> "object", errors |-> errs]>>
                    /\ Abouts(errs) = raised \cap ResultFailures
                    /\ \A e \in errs : e.extends => e.shows

\* Nothing fails without ending the operation: what has failed, and was not
\* swallowed, is what its error is about.  It is told by processResults, which
\* marks the operation, or by handleError, which finds it unmarked.
StoryInv ==
    /\ HooksInv
    /\ step \in Steps /\ protocol \in {GWS, GTWS}
    /\ operr.errors \subseteq Err(raised) /\ Abouts(operr.errors) = raised \ swallowed
    /\ swallowed \subseteq raised
    /\ operr = NoError \/ (operr.type \in {"plain", "close", "result"} /\ operr.errors # {})
    /\ step \in Before => operr = NoError /\ told = <<>> /\ (executed <=> step = "results")
    /\ step \in Before \cup {"return"} => swallowed = {} /\ Late \notin raised
    /\ executed => ResultTold
    /\ ~executed => \A f \in raised : f.hook # "Result"
    /\ ~executed /\ step \in {"return", "endSpan", "report"} => told = <<>>
    /\ ~executed /\ step \in {"cancel", "done"} =>
          told = IF operr = NoError THEN <<>> ELSE handleError(operr)

LEMMA ErrAbout ==
    ASSUME NEW A, NEW errs, errs \subseteq Err(A)
    PROVE  errs \subseteq Err(Abouts(errs))
<1>1. ASSUME NEW e \in errs PROVE e \in Err(Abouts(errs))
  <2>1. e \in Err(A) /\ e.about \in Abouts(errs)
    BY DEF Abouts
  <2> QED  BY <2>1 DEF Err
<1> QED  BY <1>1

LEMMA NothingRaised == StoryInv /\ step \in Before => raised = {}
BY DEF StoryInv, NoError, Abouts

\* An error ends what comes before the execution, and is all there is.
LEMMA RaiseEnds ==
    ASSUME StoryInv, step \in Before, NEW type \in {"plain", "close", "result"},
           NEW A, NEW errs, errs \subseteq Err(A), errs # {}, Raise(type, errs)
    PROVE  /\ operr'.type = type /\ operr'.errors = errs /\ operr' # NoError
           /\ raised' = Abouts(errs) /\ raised' \subseteq A
           /\ operr'.errors \subseteq Err(raised')
<1>1. raised' = Abouts(errs)
  BY NothingRaised DEF Raise, Abouts
<1>2. operr' = [type |-> type, errors |-> errs]
  BY DEF Raise
<1>3. operr'.type = type /\ operr'.errors = errs /\ operr' # NoError
  BY <1>2 DEF NoError
<1>4. Abouts(errs) \subseteq A
  BY DEF Abouts, Err
<1> QED  BY <1>1, <1>3, <1>4, ErrAbout

LEMMA RefusalEnds ==
    ASSUME StoryInv, step \in Before, NEW place, Refused(place)
    PROVE  /\ operr'.type \in {"plain", "close"} /\ operr' # NoError /\ step' = "return"
           /\ operr'.errors # {} /\ raised' = Abouts(operr'.errors)
           /\ operr'.errors \subseteq Err(raised')
           /\ \A f \in raised' : f.hook = place
<1>1. PICK extends \in BOOLEAN, type \in {"plain", "close"} :
         Raise(type, {GoError(Panic(place, "interceptor"), extends, "raw")})
  BY DEF Refused
<1>2. GoError(Panic(place, "interceptor"), extends, "raw") \in Err({Panic(place, "interceptor")})
  BY GoErrorType DEF Shapes
<1>3. step' = "return"
  BY DEF Refused
<1> DEFINE errs == {GoError(Panic(place, "interceptor"), extends, "raw")}
           own  == {Panic(place, "interceptor")}
<1>4. errs \subseteq Err(own) /\ errs # {}
  BY <1>2
<1>5. \A f \in own : f.hook = place
  BY DEF Panic
<1> HIDE DEF own, errs
<1>6. Raise(type, errs)
  BY <1>1 DEF errs
<1>7. /\ operr'.type = type /\ operr'.errors = errs /\ operr' # NoError
      /\ raised' = Abouts(errs) /\ raised' \subseteq own
      /\ operr'.errors \subseteq Err(raised')
  <2>1. type \in {"plain", "close", "result"}
    OBVIOUS
  <2> QED  BY <1>4, <1>6, <2>1, RaiseEnds, Zenon
<1> QED  BY <1>3, <1>4, <1>5, <1>7

LEMMA FormattedAbouts ==
    ASSUME NEW A, NEW errs, errs \subseteq Err(A)
    PROVE  Abouts({GqlFormat(e) : e \in errs}) = Abouts(errs)
<1>1. \A e \in errs : GqlFormat(e).about = e.about
  BY GqlFormatKeeps
<1> QED  BY <1>1 DEF Abouts

LEMMA CombinedAbouts ==
    ASSUME NEW A, NEW errs, errs \subseteq Err(A)
    PROVE  Abouts(combineErrors(errs)) = Abouts(errs)
<1>1. \A e \in errs : FormatError(e).about = e.about
  BY FormatErrorKeeps
<1>2. Abouts({FormatError(e) : e \in errs}) = Abouts(errs)
  BY <1>1 DEF Abouts
<1> QED  BY <1>2 DEF combineErrors

LEMMA Concatenation ==
    ASSUME NEW S, NEW a \in S, NEW b \in S
    PROVE  <<a>> \o <<b>> = <<a, b>> /\ <<>> \o <<b>> = <<b>>
<1>1. <<a>> \in Seq(S) /\ <<b>> \in Seq(S)
  OBVIOUS
<1>2. Append(<<a>>, b) = <<a, b>>
  <2> DEFINE s == Append(<<a>>, b)
  <2>1. s \in Seq(S) /\ Len(s) = 2 /\ s[1] = a /\ s[2] = b
    BY <1>1, AppendProperties
  <2>2. <<a, b>> \in Seq(S) /\ Len(<<a, b>>) = 2 /\ <<a, b>>[1] = a /\ <<a, b>>[2] = b
    OBVIOUS
  <2> HIDE DEF s
  <2>3. \A i \in 1..Len(s) : s[i] = <<a, b>>[i]
    BY <2>1, <2>2
  <2> QED  BY <2>1, <2>2, <2>3, SeqEqual DEF s
<1> QED  BY <1>1, <1>2, AppendIsConcat, ConcatEmptySeq

\* handleError tells the errors in one message, which graphql-ws announces
\* with another when the websocket is closed.
LEMMA HandleErrorTells ==
    ASSUME StoryInv, operr # NoError
    PROVE  \E m :
              /\ m.type \in {"close", "error"} /\ Abouts(m.errors) = raised \ swallowed
              /\ operr.type = "result" =>
                    m.type = "error" /\ m.payload = IF protocol = GWS THEN "object" ELSE "list"
              /\ \/ handleError(operr) = <<m>>
                 \/ \E c : /\ c.type = "connection_error" /\ Abouts(c.errors) = raised \ swallowed
                           /\ handleError(operr) = <<c, m>>
<1> DEFINE untaken == raised \ swallowed
<1> DEFINE formatted == {GqlFormat(e) : e \in operr.errors}
           combined == combineErrors(operr.errors)
<1>1. /\ Abouts(formatted) = untaken /\ Abouts(combined) = untaken /\ Abouts(operr.errors) = untaken
      /\ protocol \in {GWS, GTWS} /\ operr.type \in {"plain", "close", "result"}
  BY FormattedAbouts, CombinedAbouts DEF StoryInv
<1> DEFINE first == [type |-> "connection_error", payload |-> "object", errors |-> formatted]
           close == [type |-> "close", payload |-> "text", errors |-> operr.errors]
           plain == [type |-> "error", payload |-> "object", errors |-> formatted]
           whole == [type |-> "error", payload |-> "object", errors |-> combined]
           list  == [type |-> "error", payload |-> "list", errors |-> operr.errors]
<1>2. handleError(operr) =
        CASE operr.type = "close" -> (IF protocol = GWS THEN <<first>> ELSE <<>>) \o <<close>>
          [] operr.type = "result" -> IF protocol = GWS THEN <<whole>> ELSE <<list>>
          [] OTHER -> <<plain>>
  BY DEF handleError, Message
<1>3. /\ first.type = "connection_error" /\ first.errors = formatted
      /\ close.type = "close" /\ close.errors = operr.errors
      /\ plain.type = "error" /\ plain.errors = formatted
      /\ whole.type = "error" /\ whole.errors = combined /\ whole.payload = "object"
      /\ list.type = "error" /\ list.errors = operr.errors /\ list.payload = "list"
  OBVIOUS
<1> HIDE DEF formatted, combined, first, close, plain, whole, list
<1>4. <<first>> \o <<close>> = <<first, close>> /\ <<>> \o <<close>> = <<close>>
  <2>1. first \in {first, close} /\ close \in {first, close}
    OBVIOUS
  <2> QED  BY <2>1, Concatenation
<1>5. CASE operr.type = "close"
  <2>1. handleError(operr) = <<first, close>> \/ handleError(operr) = <<close>>
    BY <1>2, <1>4, <1>5
  <2> QED  BY <1>1, <1>3, <1>5, <2>1
<1>6. CASE operr.type = "result"
  <2>1. handleError(operr) = IF protocol = GWS THEN <<whole>> ELSE <<list>>
    BY <1>2, <1>6
  <2>2. CASE protocol = GWS
    BY <1>1, <1>3, <1>6, <2>1, <2>2
  <2>3. CASE protocol # GWS
    BY <1>1, <1>3, <1>6, <2>1, <2>3
  <2> QED  BY <2>2, <2>3
<1>7. CASE operr.type = "plain"
  <2>1. handleError(operr) = <<plain>>
    BY <1>2, <1>7
  <2> QED  BY <1>1, <1>3, <1>7, <2>1
<1> QED  BY <1>1, <1>5, <1>6, <1>7

LEMMA StoryInit == OperationInit => StoryInv
<1> SUFFICES ASSUME OperationInit PROVE StoryInv
  OBVIOUS
<1>1. operr.errors = {} /\ raised = {} /\ swallowed = {} /\ Abouts(operr.errors) = {}
  BY DEF OperationInit, NoError, Abouts
<1>2. HooksInv
  BY DEF OperationInit, Init, HooksInv
<1> QED  BY <1>1, <1>2 DEF OperationInit, StoryInv, Steps, Before

LEMMA StoryStep ==
    StoryInv /\ NothingSwallowed /\ [OperationNext]_operationVars => StoryInv'
<1> SUFFICES ASSUME StoryInv, NothingSwallowed, OperationNext \/ UNCHANGED operationVars
             PROVE  StoryInv'
  OBVIOUS
<1> DEFINE story == <<protocol, operr, executed, raised, swallowed, told>>
<1>0. HooksInv'
  BY HooksStep DEF StoryInv
\* The ways an operation fails before its execution.
<1>1. ASSUME step \in Before, step' \in {"return", "report"}, ~executed, ~executed',
             operr' # NoError, operr'.type \in {"plain", "close", "result"}, operr'.errors # {},
             raised' = Abouts(operr'.errors), operr'.errors \subseteq Err(raised'),
             \A f \in raised' : f.hook \notin {"Result", "OperationReturn"},
             UNCHANGED <<told, protocol, swallowed>>
      PROVE  StoryInv'
  <2>1. told = <<>> /\ swallowed = {}
    BY <1>1 DEF StoryInv
  <2>2. Late \notin raised'
    BY <1>1 DEF Late, Panic
  <2> QED  BY <1>0, <1>1, <2>1, <2>2 DEF StoryInv, Steps, Before
\* The goroutine goes on.
<1>2. ASSUME UNCHANGED story, step \in Before, step' \in Before \cup {"return"}, ~executed, step' # "results"
      PROVE  StoryInv'
  BY <1>0, <1>2 DEF StoryInv, Steps, Before, ResultTold, handleError
<1>3. ASSUME UNCHANGED <<story, step>>, stopped => stopped'
      PROVE  StoryInv'
  BY <1>0, <1>3 DEF StoryInv, ResultTold, handleError
<1>4. CASE Unmarshal
  <2>1. UNCHANGED <<told, protocol, executed, swallowed>> /\ step = "unmarshal" /\ ~executed
    BY <1>4 DEF Unmarshal, StoryInv, Before
  <2>2. CASE Undecodable(memory[Slot(1)].Payload.RawMessage)
    <3> DEFINE query == GoError(Panic("Unmarshal", "query"), FALSE, "raw")
               type == IF protocol = GTWS THEN "close" ELSE "plain"
    <3>1. {query} \subseteq Err({Panic("Unmarshal", "query")})
      BY GoErrorType DEF Shapes
    <3>2. Raise(type, {query}) /\ step' = "report"
      BY <1>4, <2>2 DEF Unmarshal
    <3>3. type \in {"plain", "close", "result"} /\ {query} # {}
      OBVIOUS
    <3> HIDE DEF query, type
    <3>4. /\ operr'.type = type /\ operr'.errors = {query} /\ operr' # NoError
          /\ raised' = Abouts({query}) /\ raised' \subseteq {Panic("Unmarshal", "query")}
          /\ operr'.errors \subseteq Err(raised')
      BY <2>1, <3>1, <3>2, <3>3, RaiseEnds DEF Before
    <3>5. \A f \in raised' : f.hook = "Unmarshal"
      BY <3>4 DEF Panic
    <3> QED  BY <1>1, <2>1, <3>2, <3>3, <3>4, <3>5 DEF Before, Unmarshal
  <2>3. CASE ~Undecodable(memory[Slot(1)].Payload.RawMessage)
    BY <1>2, <1>4, <2>1, <2>3 DEF Unmarshal, Before
  <2> QED  BY <2>2, <2>3
<1>5. CASE StartSpan
  BY <1>2, <1>5 DEF StartSpan, Before, StoryInv
<1>6. CASE InterceptOperation
  <2>1. step = "operation" /\ ~executed /\ UNCHANGED <<told, protocol, executed, swallowed>>
    BY <1>6 DEF InterceptOperation, Before, StoryInv
  <2>2. CASE Refused("Operation")
    BY <1>1, <2>1, <2>2, RefusalEnds DEF Before
  <2>3. CASE step' \in {"return", "parse"} /\ UNCHANGED <<operr, raised>>
    BY <1>2, <2>1, <2>3 DEF Before
  <2> QED  BY <1>6, <2>2, <2>3 DEF InterceptOperation
<1>7. CASE ParseReturns
  <2>1. step = "parse" /\ ~executed /\ UNCHANGED <<told, protocol, executed, swallowed>>
    BY <1>7 DEF ParseReturns, Before, StoryInv
  <2> DEFINE errs == {GqlFormat(GoError(e, FALSE, "raw")) : e \in errors}
  <2>2. CASE pc = "rejected" /\ Raise("result", errs) /\ step' = "return"
    <3>1. errs \subseteq Err(errors) /\ errs # {}
      BY <1>7, <2>2, ParseErrors DEF ParseReturns, NothingSwallowed
    <3>2. Raise("result", errs)
      BY <2>2
    <3> HIDE DEF errs
    <3>3. /\ operr'.type = "result" /\ operr'.errors = errs /\ operr' # NoError
          /\ raised' = Abouts(errs) /\ raised' \subseteq errors
          /\ operr'.errors \subseteq Err(raised')
      BY <2>1, <3>1, <3>2, RaiseEnds DEF Before
    <3>4. \A f \in raised' : f.hook \notin {"Result", "OperationReturn"}
      BY <3>3 DEF StoryInv, HooksInv
    <3> QED  BY <1>1, <2>1, <2>2, <3>1, <3>3, <3>4 DEF Before
  <2>3. CASE Refused("OperationParse")
    BY <1>1, <2>1, <2>3, RefusalEnds DEF Before
  <2>4. CASE step' = "execute" /\ UNCHANGED <<operr, raised>>
    BY <1>2, <2>1, <2>4 DEF Before
  <2>5. \/ pc = "rejected" /\ Raise("result", errs) /\ step' = "return"
        \/ Refused("OperationParse")
        \/ step' = "execute" /\ UNCHANGED <<operr, raised>>
    BY <1>7 DEF ParseReturns
  <2> QED  BY <2>2, <2>3, <2>4, <2>5
<1>8. CASE Execute
  <2>1. step = "execute" /\ ~executed /\ UNCHANGED <<told, protocol, swallowed>>
    BY <1>8 DEF Execute, Before, StoryInv
  <2>2. CASE Refused("OperationExecute") /\ UNCHANGED executed
    BY <1>1, <2>1, <2>2, RefusalEnds DEF Before
  <2>3. CASE step' = "results" /\ executed' = TRUE /\ UNCHANGED <<operr, raised>>
    <3>1. operr = NoError /\ raised = {} /\ told = <<>> /\ operr.errors = {}
      BY <2>1, NothingRaised DEF StoryInv, Before, NoError
    <3> QED  BY <1>0, <2>1, <2>3, <3>1 DEF StoryInv, Steps, Before, ResultTold
  <2> QED  BY <1>8, <2>2, <2>3 DEF Execute
<1>9. CASE Result
  <2>1. /\ step = "results" /\ UNCHANGED <<executed, protocol, stopped, swallowed>>
        /\ executed /\ operr = NoError /\ told = <<>> /\ swallowed = {}
    BY <1>9 DEF Result, Before, StoryInv
  <2>2. PICK field \in FieldErrors, data \in DataErrors :
           LET errs == {FormatError(e) : e \in field \cup data}
           IN  /\ WriteData(errs)
               /\ IF errs = {} THEN UNCHANGED <<step, operr, raised>>
                               ELSE Raise("result", errs) /\ step' = "return"
    BY <1>9 DEF Result
  <2> DEFINE errs == {FormatError(e) : e \in field \cup data}
  <2>3. errs \subseteq Err(ResultFailures) /\ \A e \in errs : e.extends => e.shows
    BY ResultErrors
  <2>4. /\ WriteData(errs)
        /\ IF errs = {} THEN UNCHANGED <<step, operr, raised>>
                        ELSE Raise("result", errs) /\ step' = "return"
    BY <2>2
  <2> HIDE DEF errs
  <2>5. CASE errs = {}
    BY <1>3, <2>1, <2>4, <2>5 DEF WriteData
  <2>6. CASE errs # {}
    <3>1. /\ operr'.type = "result" /\ operr'.errors = errs /\ operr' # NoError
          /\ raised' = Abouts(errs) /\ raised' \subseteq ResultFailures
          /\ operr'.errors \subseteq Err(raised')
      BY <2>1, <2>3, <2>4, <2>6, RaiseEnds DEF Before
    <3>2. Late \notin raised'
      BY <3>1 DEF Late, ResultFailures, Panic
    <3>3. ResultTold'
      <4>1. CASE told' = <<>> /\ stopped'
        BY <3>1, <4>1 DEF ResultTold
      <4>2. CASE told' = <<[type |-> "data", payload |-> "object", errors |-> errs]>>
        <5>1. Abouts(errs) = raised' \cap ResultFailures /\ raised' \subseteq ResultFailures \cup {Late}
          BY <3>1
        <5> QED  BY <2>3, <4>2, <5>1 DEF ResultTold
      <4> QED  BY <2>1, <2>4, <2>6, <4>1, <4>2 DEF WriteData
    <3> QED  BY <1>0, <2>1, <2>4, <2>6, <3>1, <3>2, <3>3 DEF StoryInv, Steps, Before
  <2> QED  BY <2>5, <2>6
<1>10. CASE ResultsEnd
  BY <1>0, <1>10 DEF ResultsEnd, StoryInv, ResultTold, Steps, Before
<1>11. CASE InterceptorReturns
  <2>1. /\ step = "return" /\ step' = "endSpan" /\ UNCHANGED <<protocol, executed, told, stopped>>
        /\ swallowed = {} /\ Late \notin raised /\ About(operr) = raised
    BY <1>11 DEF InterceptorReturns, StoryInv, About, Abouts
  <2>2. Late \notin ResultFailures /\ Late.hook = "OperationReturn"
    BY DEF Late, ResultFailures, Panic
  \* What is told of results stays what it was.
  <2>3. ASSUME raised' = raised \/ raised' = raised \cup {Late}
        PROVE  (executed => ResultTold)' /\ (~executed => \A f \in raised : f.hook # "Result")'
    <3>1. /\ raised' \cap ResultFailures = raised \cap ResultFailures
          /\ raised \subseteq ResultFailures \cup {Late} => raised' \subseteq ResultFailures \cup {Late}
      BY <2>2, <2>3
    <3>2. executed' => ResultTold'
      BY <2>1, <3>1 DEF StoryInv, ResultTold
    <3> QED  BY <2>1, <2>2, <2>3, <3>2 DEF StoryInv
  <2>4. CASE UNCHANGED <<operr, raised, swallowed>>
    BY <1>0, <2>1, <2>3, <2>4 DEF StoryInv, Steps, Before
  <2>5. CASE /\ \E type \in {"plain", "close"} : \E err \in Err({Late}) :
                   operr' = [type |-> type, errors |-> {err}]
             /\ raised' = raised \cup {Late} /\ swallowed' = raised
    <3>1. PICK type \in {"plain", "close"}, err \in Err({Late}) : operr' = [type |-> type, errors |-> {err}]
      BY <2>5
    <3>2. err \in Err(raised') /\ err.about = Late
      BY <2>5 DEF Err
    <3>3. raised' \ swallowed' = {Late} /\ swallowed' \subseteq raised'
      BY <2>1, <2>5
    <3>4. operr'.errors \subseteq Err(raised') /\ Abouts(operr'.errors) = {Late} /\ operr'.errors # {}
      BY <3>1, <3>2 DEF Abouts
    <3>5. operr'.type \in {"plain", "close"}
      BY <3>1
    <3> QED  BY <1>0, <2>1, <2>3, <2>5, <3>3, <3>4, <3>5 DEF StoryInv, Steps, Before
  <2>6. CASE operr' = NoError /\ swallowed' = raised /\ UNCHANGED raised
    <3>1. operr'.errors = {} /\ Abouts(operr'.errors) = {} /\ raised' \ swallowed' = {}
      BY <2>6 DEF NoError, Abouts
    <3> QED  BY <1>0, <2>1, <2>3, <2>6, <3>1 DEF StoryInv, Steps, Before
  <2> QED  BY <1>11, <2>1, <2>4, <2>5, <2>6, Outcomes
<1>12. CASE EndSpan
  BY <1>0, <1>12 DEF EndSpan, StoryInv, ResultTold, Steps, Before
<1>13. CASE Report
  <2>1. /\ step = "report" /\ step' = "cancel"
        /\ UNCHANGED <<protocol, operr, executed, raised, swallowed>>
        /\ stopped => stopped'
    BY <1>13 DEF Report
  <2>2. handleError(operr)' = handleError(operr)
    BY <2>1 DEF handleError
  <2>3. CASE executed
    BY <1>0, <1>13, <2>1, <2>3 DEF Report, StoryInv, ResultTold, Steps, Before
  <2>4. CASE ~executed
    <3>1. told = <<>>
      BY <2>1, <2>4 DEF StoryInv
    <3>2. CASE operr = NoError
      BY <1>0, <1>13, <2>1, <2>4, <3>1, <3>2 DEF Report, StoryInv, Steps, Before
    <3>3. CASE operr # NoError
      <4>1. told' = <<>> \o handleError(operr)
        BY <1>13, <2>4, <3>1, <3>3 DEF Report
      <4>2. told' = handleError(operr)
        BY <3>3, <4>1, HandleErrorTells
      <4> QED  BY <1>0, <2>1, <2>2, <2>4, <3>3, <4>2 DEF StoryInv, Steps, Before
    <3> QED  BY <3>2, <3>3
  <2> QED  BY <2>3, <2>4
<1>14. CASE CancelAndDelete
  BY <1>0, <1>14 DEF CancelAndDelete, StoryInv, ResultTold, Steps, Before, handleError
<1>15. CASE ReadPing \/ ReadStop \/ Parse \/ (step = "done" /\ UNCHANGED operationVars) \/ UNCHANGED operationVars
  BY <1>3, <1>15 DEF ReadPing, ReadStop, Parse, operationVars
<1> QED
  BY <1>4, <1>5, <1>6, <1>7, <1>8, <1>9, <1>10, <1>11, <1>12, <1>13, <1>14, <1>15 DEF OperationNext

\* So the client is told nothing, or a result, or what handleError tells.
LEMMA WhatIsTold ==
    ASSUME StoryInv
    PROVE  \/ told = <<>>
           \/ /\ executed /\ raised \subseteq ResultFailures \cup {Late}
              /\ \E errs : /\ told = <<[type |-> "data", payload |-> "object", errors |-> errs]>>
                           /\ Abouts(errs) = raised \cap ResultFailures
                           /\ \A e \in errs : e.extends => e.shows
           \/ step \in {"cancel", "done"} /\ ~executed /\ operr # NoError /\ told = handleError(operr)
BY DEF StoryInv, ResultTold, Steps, Before

LEMMA StoryGivesFailuresTold == StoryInv => EveryFailureTold
<1> SUFFICES ASSUME StoryInv PROVE EveryFailureTold
  OBVIOUS
<1> DEFINE tellers(f) == {i \in DOMAIN told : f \in About(told[i]) /\ told[i].type # "connection_error"}
<1>1. \A m : About(m) = Abouts(m.errors)
  BY DEF About, Abouts
<1>2. Late.hook = "OperationReturn" /\ \A f \in ResultFailures : f.hook = "Result" /\ f # Late
  BY DEF Late, ResultFailures, Panic
<1>3. \A f : Cardinality({}) = 0 /\ Cardinality({f}) = 1
  BY FS_EmptySet, FS_Singleton
<1>4. CASE told = <<>>
  <2>1. ASSUME step = "done", ~(executed /\ stopped), NEW f \in raised PROVE ~MustBeTold(f)
    <3>1. CASE executed
      <4>1. f = Late
        BY <1>4, <2>1, <3>1 DEF StoryInv, ResultTold
      <4> QED  BY <1>2, <3>1, <4>1 DEF MustBeTold
    <3>2. CASE ~executed
      <4>1. operr = NoError
        <5>1. ASSUME operr # NoError PROVE FALSE
          <6>1. handleError(operr) = <<>>
            BY <1>4, <2>1, <3>2, <5>1 DEF StoryInv
          <6> QED  BY <5>1, <6>1, HandleErrorTells
        <5> QED  BY <5>1
      <4>2. f \in swallowed
        <5>1. Abouts(operr.errors) = {}
          BY <4>1 DEF NoError, Abouts
        <5> QED  BY <2>1, <5>1 DEF StoryInv
      <4> QED  BY <2>1, <3>2, <4>2 DEF StoryInv, MustBeTold
    <3> QED  BY <3>1, <3>2
  <2>2. \A f : tellers(f) = {}
    BY <1>4
  <2> QED  BY <1>3, <1>4, <2>1, <2>2 DEF EveryFailureTold
<1>5. ASSUME NEW m, told = <<m>>, About(m) \subseteq raised, m.type # "connection_error",
             \A f \in raised : MustBeTold(f) <=> f \in About(m)
      PROVE  EveryFailureTold
  <2>1. \A f \in raised : tellers(f) = IF MustBeTold(f) THEN {1} ELSE {}
    BY <1>5
  <2>2. \A i \in DOMAIN told : About(told[i]) \subseteq raised
    BY <1>5
  <2> HIDE DEF tellers
  <2>3. \A f \in raised : Cardinality(tellers(f)) = IF MustBeTold(f) THEN 1 ELSE 0
    BY <1>3, <2>1
  <2> QED  BY <2>2, <2>3 DEF EveryFailureTold, tellers
<1>6. ASSUME NEW c, NEW m, told = <<c, m>>, About(c) \subseteq raised, About(m) \subseteq raised,
             c.type = "connection_error", m.type # "connection_error",
             \A f \in raised : MustBeTold(f) <=> f \in About(m)
      PROVE  EveryFailureTold
  <2>1. \A f \in raised : tellers(f) = IF MustBeTold(f) THEN {2} ELSE {}
    BY <1>6
  <2>2. \A i \in DOMAIN told : About(told[i]) \subseteq raised
    BY <1>6
  <2> HIDE DEF tellers
  <2>3. \A f \in raised : Cardinality(tellers(f)) = IF MustBeTold(f) THEN 1 ELSE 0
    BY <1>3, <2>1
  <2> QED  BY <2>2, <2>3 DEF EveryFailureTold, tellers
<1>7. CASE /\ executed /\ raised \subseteq ResultFailures \cup {Late}
           /\ \E errs : /\ told = <<[type |-> "data", payload |-> "object", errors |-> errs]>>
                        /\ Abouts(errs) = raised \cap ResultFailures
  <2>1. PICK errs : /\ told = <<[type |-> "data", payload |-> "object", errors |-> errs]>>
                    /\ Abouts(errs) = raised \cap ResultFailures
    BY <1>7
  <2> DEFINE m == [type |-> "data", payload |-> "object", errors |-> errs]
  <2>2. told = <<m>> /\ m.type # "connection_error" /\ About(m) = raised \cap ResultFailures
    BY <1>1, <2>1
  <2> HIDE DEF m
  <2>3. \A f \in raised : MustBeTold(f) <=> f \in About(m)
    BY <1>2, <1>7, <2>2 DEF MustBeTold
  <2>4. About(m) \subseteq raised
    BY <2>2
  <2> QED  BY <1>5, <2>2, <2>3, <2>4
<1>8. CASE ~executed /\ operr # NoError /\ told = handleError(operr)
  <2>1. \A f \in raised : MustBeTold(f) <=> f \in raised \ swallowed
    BY <1>8 DEF StoryInv, MustBeTold
  <2>2. PICK m : /\ m.type \in {"close", "error"} /\ Abouts(m.errors) = raised \ swallowed
                 /\ \/ told = <<m>>
                    \/ \E c : /\ c.type = "connection_error" /\ Abouts(c.errors) = raised \ swallowed
                              /\ told = <<c, m>>
    BY <1>8, HandleErrorTells
  <2>3. About(m) = raised \ swallowed /\ m.type # "connection_error"
    BY <1>1, <2>2
  <2>4. CASE told = <<m>>
    BY <1>5, <2>1, <2>3, <2>4
  <2>5. ASSUME NEW c, c.type = "connection_error", Abouts(c.errors) = raised \ swallowed, told = <<c, m>>
        PROVE  EveryFailureTold
    BY <1>1, <1>6, <2>1, <2>3, <2>5
  <2> QED  BY <2>2, <2>4, <2>5
<1> QED  BY <1>4, <1>7, <1>8, WhatIsTold

\* Every failure of an operation reaches the client, and only once, unless the
\* client has stopped it, or an interceptor swallowed it, or returned it after
\* the execution: executed and operr decide who tells it.
THEOREM FailuresAreTold == OperationSpec => []EveryFailureTold
<1> QED
  BY StoryInit, StoryStep, StoryGivesFailuresTold, OperationParsing, PTL DEF OperationSpec

\* What is sent as data has the extensions of every error in it.
THEOREM ExtensionsAreKept == OperationSpec => []ExtensionsKept
<1>1. StoryInv => ExtensionsKept
  <2> SUFFICES ASSUME StoryInv, NEW i \in DOMAIN told, told[i].type = "data"
               PROVE  \A e \in told[i].errors : e.extends => e.shows
    BY DEF ExtensionsKept
  <2>1. ASSUME NEW errs, told = <<[type |-> "data", payload |-> "object", errors |-> errs]>>,
               \A e \in errs : e.extends => e.shows
        PROVE  \A e \in told[i].errors : e.extends => e.shows
    <3>1. told[i].errors = errs
      BY <2>1
    <3> QED  BY <2>1, <3>1
  <2>2. CASE operr # NoError /\ told = handleError(operr)
    BY <2>2, HandleErrorTells
  <2> QED  BY <2>1, <2>2, WhatIsTold
<1> QED
  BY <1>1, StoryInit, StoryStep, OperationParsing, PTL DEF OperationSpec

-----------------------------------------------------------------------------
(* Rejected operations.                                                    *)

\* Only a rejected operation passes by the execution with pc at rejected, and
\* what it fails with are the errors of parseAST, or what an interceptor made
\* of them.
RejectionInv ==
    /\ step \in {"unmarshal", "span", "operation", "execute", "results"} => pc # "rejected"
    /\ step \in {"return", "endSpan", "report", "cancel", "done"} /\ pc = "rejected" =>
          \/ Late \in raised
          \/ raised = errors /\ (operr = NoError \/ (operr.type = "result" /\ swallowed = {}))

LEMMA RejectionStep ==
    StoryInv /\ NothingSwallowed /\ RejectionInv /\ [OperationNext]_operationVars => RejectionInv'
<1> SUFFICES ASSUME StoryInv, NothingSwallowed, RejectionInv, OperationNext \/ UNCHANGED operationVars
             PROVE  RejectionInv'
  OBVIOUS
<1> USE DEF vars
<1>1. CASE Unmarshal \/ StartSpan \/ InterceptOperation \/ Execute
  BY <1>1 DEF Unmarshal, StartSpan, InterceptOperation, Execute, Refused, RejectionInv
<1>2. CASE Parse
  BY <1>2 DEF Parse, RejectionInv
<1>3. CASE ParseReturns
  <2>1. step = "parse" /\ swallowed = {} /\ UNCHANGED <<pc, errors, swallowed>>
    BY <1>3 DEF ParseReturns, StoryInv, Before
  <2> DEFINE errs == {GqlFormat(GoError(e, FALSE, "raw")) : e \in errors}
  <2>2. CASE pc = "rejected"
    <3>1. errs \subseteq Err(errors) /\ Abouts(errs) = errors /\ errs # {}
      BY <1>3, <2>2, ParseErrors DEF ParseReturns, NothingSwallowed, Abouts
    <3>2. Raise("result", errs) /\ step' = "return"
      BY <1>3, <2>2 DEF ParseReturns
    <3> HIDE DEF errs
    <3>3. operr'.type = "result" /\ raised' = errors
      BY <2>1, <3>1, <3>2, RaiseEnds DEF Before
    <3> QED  BY <2>1, <3>2, <3>3 DEF RejectionInv
  <2>3. CASE pc # "rejected"
    <3>1. step' \in {"return", "execute"}
      BY <1>3, <2>3 DEF ParseReturns, Refused
    <3> QED  BY <2>1, <2>3, <3>1 DEF RejectionInv
  <2> QED  BY <2>2, <2>3
<1>4. CASE Result
  <2>1. step = "results" /\ step' \in {"results", "return"} /\ UNCHANGED pc
    BY <1>4 DEF Result
  <2> QED  BY <2>1 DEF RejectionInv
<1>5. CASE InterceptorReturns
  <2>1. step = "return" /\ step' = "endSpan" /\ UNCHANGED <<pc, errors>>
    BY <1>5 DEF InterceptorReturns
  <2>2. \/ UNCHANGED <<operr, raised, swallowed>>
        \/ raised' = raised \cup {Late}
        \/ operr' = NoError /\ UNCHANGED raised
    BY <1>5, Outcomes
  <2> QED  BY <2>1, <2>2 DEF RejectionInv
<1>6. CASE ResultsEnd \/ EndSpan \/ Report \/ CancelAndDelete
  BY <1>6 DEF ResultsEnd, EndSpan, Report, CancelAndDelete, RejectionInv
<1>7. CASE ReadPing \/ ReadStop \/ UNCHANGED operationVars
  BY <1>7 DEF ReadPing, ReadStop, operationVars, RejectionInv
<1> QED  BY <1>1, <1>2, <1>3, <1>4, <1>5, <1>6, <1>7 DEF OperationNext

\* A client that reads a rejection as its protocol has it finds all errors of
\* parseAST, and no others, unless an interceptor replaced them.
THEOREM RejectionsAreRead == OperationSpec => []RejectionsReadable
<1>1. OperationInit => RejectionInv
  BY DEF OperationInit, Init, RejectionInv
<1>2. StoryInv /\ RejectionInv => RejectionsReadable
  <2> SUFFICES ASSUME StoryInv, RejectionInv, NEW i \in DOMAIN told,
                      told[i].type = "error", pc = "rejected", Late \notin raised
               PROVE  LET read == IF protocol = GWS THEN ReadPayloadError(told[i].payload, told[i].errors)
                                                    ELSE ReadPayloadErrors(told[i].payload, told[i].errors)
                      IN  Abouts(read) = errors
    BY DEF RejectionsReadable, Abouts
  <2>1. CASE \E errs : told = <<[type |-> "data", payload |-> "object", errors |-> errs]>>
    BY <2>1
  <2>2. CASE step \in {"cancel", "done"} /\ operr # NoError /\ told = handleError(operr)
    <3>1. operr.type = "result" /\ raised \ swallowed = errors
      BY <2>2 DEF RejectionInv
    <3>2. Abouts(told[i].errors) = raised \ swallowed /\ told[i].payload = IF protocol = GWS THEN "object" ELSE "list"
      BY <2>2, <3>1, HandleErrorTells
    <3> QED  BY <3>1, <3>2 DEF ReadPayloadError, ReadPayloadErrors
  <2> QED  BY <2>1, <2>2, WhatIsTold
<1> QED
  BY <1>1, <1>2, StoryInit, StoryStep, RejectionStep, OperationParsing, PTL DEF OperationSpec

-----------------------------------------------------------------------------
(* The span.                                                               *)

Inside == {"operation", "parse", "execute", "results", "return", "endSpan"}

\* The span is opened once the payload is decoded, and its status is set when
\* nothing can fail any more.
SpanInv ==
    /\ step \in {"unmarshal", "span"} => span = [open |-> FALSE, status |-> "unset", ends |-> 0]
    /\ step \in Inside => span = [open |-> TRUE, status |-> "unset", ends |-> 0]
    /\ step \in {"report", "cancel", "done"} =>
          IF sent.start \in Documents
          THEN span = [open |-> FALSE, status |-> IF raised \ swallowed # {} THEN "error" ELSE "ok", ends |-> 1]
          ELSE span = [open |-> FALSE, status |-> "unset", ends |-> 0]
    /\ step \in Inside \cup {"span"} => sent.start \in Documents

LEMMA SpanStep ==
    StoryInv /\ MemoryInv /\ SpanInv /\ [OperationNext]_operationVars => SpanInv'
<1> SUFFICES ASSUME StoryInv, MemoryInv, SpanInv, OperationNext \/ UNCHANGED operationVars
             PROVE  SpanInv'
  OBVIOUS
<1>1. CASE Unmarshal
  BY <1>1, StartText DEF Unmarshal, Undecodable, SpanInv, Inside
<1>2. CASE StartSpan
  <2>1. span' = [open |-> TRUE, status |-> "unset", ends |-> 0]
    <3>1. span' = [span EXCEPT !.open = TRUE]
      BY <1>2 DEF StartSpan
    <3>2. span = [open |-> FALSE, status |-> "unset", ends |-> 0]
      BY <1>2 DEF StartSpan, SpanInv
    <3> QED  BY <3>1, <3>2
  <2> QED  BY <1>2, <2>1 DEF StartSpan, SpanInv, Inside
<1>3. CASE InterceptOperation \/ ParseReturns \/ Execute \/ Result \/ ResultsEnd \/ InterceptorReturns
  <2>1. step \in Inside /\ step' \in Inside /\ UNCHANGED <<span, sent>>
    BY <1>3 DEF InterceptOperation, ParseReturns, Execute, Result, ResultsEnd, InterceptorReturns, Refused, Inside
  <2> QED  BY <2>1 DEF SpanInv, Inside
<1>4. CASE EndSpan
  <2>1. operr # NoError <=> raised \ swallowed # {}
    BY DEF StoryInv, NoError, Abouts
  <2>2. span.ends = 0 /\ sent.start \in Documents /\ step' = "report" /\ UNCHANGED <<sent, raised, swallowed>>
    BY <1>4 DEF EndSpan, SpanInv, Inside
  <2>3. span' = [open |-> FALSE, status |-> IF raised \ swallowed # {} THEN "error" ELSE "ok", ends |-> 1]
    <3>1. span' = [open |-> FALSE, status |-> IF operr # NoError THEN "error" ELSE "ok",
                   ends |-> span.ends + 1]
      BY <1>4 DEF EndSpan
    <3>2. span.ends + 1 = 1
      BY <2>2
    <3> QED  BY <2>1, <3>1, <3>2, Zenon
  <2> QED  BY <2>2, <2>3 DEF SpanInv, Inside
<1>5. CASE Report \/ CancelAndDelete
  BY <1>5 DEF Report, CancelAndDelete, SpanInv, Inside
<1>6. CASE ReadPing \/ ReadStop \/ Parse \/ UNCHANGED operationVars
  BY <1>6 DEF ReadPing, ReadStop, Parse, operationVars, SpanInv
<1> QED  BY <1>1, <1>2, <1>3, <1>4, <1>5, <1>6 DEF OperationNext

\* The span of an operation ends once, and is in error if and only if
\* something failed and was not swallowed.
THEOREM SpansAgree == OperationSpec => []SpanAgrees
<1>1. OperationInit => SpanInv
  BY DEF OperationInit, SpanInv, Inside
<1>2. SpanInv => SpanAgrees
  BY DEF SpanInv, SpanAgrees
<1>3. OperationInit => MemoryInv
  BY MessageInit DEF MessageInv
<1> QED
  BY <1>1, <1>2, <1>3, StoryInit, StoryStep, MemoryStep, SpanStep, OperationParsing, PTL DEF OperationSpec

-----------------------------------------------------------------------------
(* Types.                                                                  *)

LEMMA FiniteImage ==
    ASSUME NEW S, IsFiniteSet(S), NEW f, DOMAIN f = S
    PROVE  IsFiniteSet({f[x] : x \in S})
<1> DEFINE T == {f[x] : x \in S}
<1>1. \A t \in T : \E x \in S : f[x] = t
  OBVIOUS
<1>2. [x \in S |-> f[x]] \in [S -> T] /\ \A x \in S : [y \in S |-> f[y]][x] = f[x]
  OBVIOUS
<1> HIDE DEF T
<1>3. [x \in S |-> f[x]] \in Surjection(S, T)
  BY <1>1, <1>2, Fun_IsSurj
<1>4. IsFiniteSet(T)
  BY <1>3, FS_Surjection
<1> QED  BY <1>4 DEF T

\* There are finitely many errors, of parseAST and of the operation.
FiniteInv == IsFiniteSet(errors) /\ IsFiniteSet(operr.errors)

LEMMA SingleIsFinite == \A x : IsFiniteSet({x})
BY FS_Singleton

LEMMA ErrorsOfParsingFinite == IsFiniteSet(errors) /\ ParseOrStutter => IsFiniteSet(errors)'
<1> SUFFICES ASSUME IsFiniteSet(errors), ParseOrStutter PROVE IsFiniteSet(errors')
  OBVIOUS
<1>1. IsFiniteSet({}) /\ \A x : IsFiniteSet(errors \cup {x})
  BY FS_EmptySet, FS_AddElement
<1>2. ASSUME NEW hook, CallHook(hook) \/ CallFinisher(hook) PROVE IsFiniteSet(errors')
  <2>1. UNCHANGED errors \/ \E x : errors' = errors \cup {x}
    BY <1>2 DEF CallHook, HookReturns, HookPanics, CallFinisher
  <2> QED  BY <1>1, <2>1
<1>3. CASE InitsDone \/ ParseStarted \/ ParseFinished \/ ValidationStarted \/ ValidationFinished
  <2>1. UNCHANGED errors \/ errors' = {} \/ (\E x : errors' = {x}) \/ \E x : errors' = errors \cup {x}
    BY <1>3 DEF InitsDone, ParseStarted, ParseFinished, ValidationStarted, ValidationFinished
  <2> QED  BY <1>1, <2>1, SingleIsFinite
<1> QED  BY <1>2, <1>3 DEF ParseOrStutter, ParseStep, parseVars

LEMMA ResultErrorsFinite ==
    ASSUME NEW field \in FieldErrors, NEW data \in DataErrors
    PROVE  IsFiniteSet({FormatError(e) : e \in field \cup data})
<1>1. IsFiniteSet(field) /\ IsFiniteSet(data)
  <2>1. field = {} \/ \E x : field = {x}
    <3>1. \/ field = {}
          \/ \E extends \in BOOLEAN, shape \in {"raw", "located"} :
                field = {GqlFormat(GoError(Panic("Result", "field"), extends, shape))}
      <4>1. field \in {{}} \/ field \in {{GqlFormat(GoError(Panic("Result", "field"), extends, shape))} :
                                            extends \in BOOLEAN, shape \in {"raw", "located"}}
        BY DEF FieldErrors
      <4> QED  BY <4>1
    <3> QED  BY <3>1, Zenon
  <2>2. data = {} \/ \E x : data = {x}
    BY DEF DataErrors
  <2> QED  BY <2>1, <2>2, FS_EmptySet, SingleIsFinite
<1>2. IsFiniteSet(field \cup data)
  BY <1>1, FS_Union
<1> DEFINE S == field \cup data
           f == [e \in S |-> FormatError(e)]
<1>3. IsFiniteSet({f[e] : e \in S})
  <2>1. DOMAIN f = S /\ IsFiniteSet(S)
    BY <1>2
  <2> HIDE DEF f, S
  <2> QED  BY <2>1, FiniteImage
<1>4. {f[e] : e \in S} = {FormatError(e) : e \in S}
  OBVIOUS
<1> QED  BY <1>3, <1>4

LEMMA FiniteStep == FiniteInv /\ [OperationNext]_operationVars => FiniteInv'
<1> SUFFICES ASSUME FiniteInv, OperationNext \/ UNCHANGED operationVars PROVE FiniteInv'
  OBVIOUS
<1>1. IsFiniteSet(errors')
  BY OperationParses, ErrorsOfParsingFinite DEF FiniteInv
<1>2. ASSUME NEW type, NEW errs, Raise(type, errs), IsFiniteSet(errs) PROVE FiniteInv'
  BY <1>1, <1>2 DEF Raise, FiniteInv
<1>3. CASE UNCHANGED operr
  BY <1>1, <1>3 DEF FiniteInv
<1>4. CASE Unmarshal
  BY <1>2, <1>3, <1>4, SingleIsFinite DEF Unmarshal
<1>5. ASSUME NEW place, Refused(place) PROVE FiniteInv'
  BY <1>2, <1>5, SingleIsFinite DEF Refused
<1>6. CASE InterceptOperation \/ Execute
  BY <1>3, <1>5, <1>6 DEF InterceptOperation, Execute
<1>7. CASE ParseReturns
  <2>1. CASE pc = "rejected"
    <3> DEFINE f == [e \in errors |-> GqlFormat(GoError(e, FALSE, "raw"))]
    <3>1. IsFiniteSet({f[e] : e \in errors})
      <4>1. DOMAIN f = errors /\ IsFiniteSet(errors)
        BY DEF FiniteInv
      <4> HIDE DEF f
      <4> QED  BY <4>1, FiniteImage
    <3>2. {f[e] : e \in errors} = {GqlFormat(GoError(e, FALSE, "raw")) : e \in errors}
      OBVIOUS
    <3>3. Raise("result", {GqlFormat(GoError(e, FALSE, "raw")) : e \in errors})
      BY <1>7, <2>1 DEF ParseReturns
    <3> QED  BY <1>2, <3>1, <3>2, <3>3
  <2>2. CASE pc # "rejected"
    BY <1>3, <1>5, <1>7, <2>2 DEF ParseReturns
  <2> QED  BY <2>1, <2>2
<1>8. CASE Result
  <2>1. PICK field \in FieldErrors, data \in DataErrors :
           LET errs == {FormatError(e) : e \in field \cup data}
           IN  UNCHANGED operr \/ Raise("result", errs)
    BY <1>8 DEF Result
  <2> DEFINE errs == {FormatError(e) : e \in field \cup data}
  <2>2. IsFiniteSet(errs)
    BY ResultErrorsFinite
  <2>3. UNCHANGED operr \/ Raise("result", errs)
    BY <2>1
  <2> HIDE DEF errs
  <2> QED  BY <1>2, <1>3, <2>2, <2>3
<1>9. CASE InterceptorReturns
  <2>1. CASE operr' = NoError
    BY <1>1, <2>1, FS_EmptySet DEF FiniteInv, NoError
  <2>2. ASSUME NEW type, NEW err, operr' = [type |-> type, errors |-> {err}] PROVE FiniteInv'
    <3>1. operr'.errors = {err}
      BY <2>2
    <3> QED  BY <1>1, <3>1, SingleIsFinite DEF FiniteInv
  <2> QED  BY <1>3, <1>9, <2>1, <2>2, Outcomes
<1>10. CASE ReadPing \/ ReadStop \/ StartSpan \/ Parse \/ ResultsEnd \/ EndSpan \/ Report \/ CancelAndDelete
           \/ UNCHANGED operationVars
  BY <1>3, <1>10 DEF ReadPing, ReadStop, StartSpan, Parse, ResultsEnd, EndSpan, Report, CancelAndDelete,
     operationVars
<1> QED  BY <1>4, <1>6, <1>7, <1>8, <1>9, <1>10 DEF OperationNext

\* The flags of the operation, its entry in the table and its results.
FlagsInv ==
    /\ executed \in BOOLEAN /\ stopped \in BOOLEAN /\ canceled \in BOOLEAN
    /\ table \subseteq {"1"}
    /\ results \in 0..MaxResults

LEMMA FlagsStep == FlagsInv /\ [OperationNext]_operationVars => FlagsInv'
<1> SUFFICES ASSUME FlagsInv, OperationNext \/ UNCHANGED operationVars PROVE FlagsInv'
  OBVIOUS
<1>1. CASE ReadStop
  BY <1>1 DEF ReadStop, FlagsInv
<1>2. CASE Execute
  BY <1>2 DEF Execute, FlagsInv
<1>3. CASE Result
  <2>1. results' = results + 1 /\ results < MaxResults /\ UNCHANGED <<executed, stopped, canceled, table>>
    BY <1>3 DEF Result
  <2> QED  BY <2>1, ResultAssumption DEF FlagsInv
<1>4. CASE Report
  <2>1. UNCHANGED <<executed, canceled, table, results>>
    BY <1>4 DEF Report
  <2>2. stopped' = stopped \/ stopped' = (stopped \/ operr.type # "close")
    BY <1>4 DEF Report
  <2>3. stopped' \in BOOLEAN
    BY <2>2, Zenon DEF FlagsInv
  <2> QED  BY <2>1, <2>3 DEF FlagsInv
<1>5. CASE CancelAndDelete
  BY <1>5 DEF CancelAndDelete, FlagsInv
<1>6. CASE UNCHANGED <<executed, stopped, canceled, table, results>>
  BY <1>6 DEF FlagsInv
<1>7. CASE ReadPing \/ Unmarshal \/ StartSpan \/ InterceptOperation \/ Parse \/ ParseReturns \/ ResultsEnd
           \/ InterceptorReturns \/ EndSpan \/ UNCHANGED operationVars
  BY <1>6, <1>7 DEF ReadPing, Unmarshal, StartSpan, InterceptOperation, Parse, ParseReturns, ResultsEnd, InterceptorReturns,
     EndSpan, operationVars
<1> QED  BY <1>1, <1>2, <1>3, <1>4, <1>5, <1>7 DEF OperationNext

LEMMA FlagsInit == OperationInit => FlagsInv
<1> SUFFICES ASSUME OperationInit PROVE FlagsInv
  OBVIOUS
<1>1. table = {"1"} /\ results = 0 /\ executed = FALSE /\ stopped = FALSE /\ canceled = FALSE
  BY DEF OperationInit
<1>2. results \in 0..MaxResults
  BY <1>1, ResultAssumption
<1> QED  BY <1>1, <1>2 DEF FlagsInv

\* Types; and the span is open exactly while the operation is handled inside
\* the interceptor, from StartSpan to the error it returns.
THEOREM OperationTypes == OperationSpec => []OperationTypeOK
<1>1. OperationInit => FiniteInv /\ FlagsInv /\ SpanInv /\ MemoryInv
  <2> SUFFICES ASSUME OperationInit PROVE FiniteInv /\ FlagsInv /\ SpanInv /\ MemoryInv
    OBVIOUS
  <2>1. errors = {} /\ operr.errors = {}
    BY DEF OperationInit, Init, NoError
  <2>2. FiniteInv
    BY <2>1, FS_EmptySet DEF FiniteInv
  <2>3. FlagsInv
    BY FlagsInit
  <2>4. SpanInv
    BY DEF OperationInit, SpanInv, Inside
  <2> QED  BY <2>2, <2>3, <2>4, MessageInit DEF MessageInv
<1>2. TypeOK /\ StoryInv /\ SpanInv /\ FiniteInv /\ FlagsInv => OperationTypeOK
  <2> SUFFICES ASSUME TypeOK, StoryInv, SpanInv, FiniteInv, FlagsInv PROVE OperationTypeOK
    OBVIOUS
  <2>1. operr.type \in {"nil", "plain", "close", "result"}
    BY DEF StoryInv, NoError
  <2>2. span.open <=> step \in Inside
    <3>1. CASE step \in Inside
      BY <3>1 DEF SpanInv
    <3>2. CASE step \notin Inside
      <4>1. step \in {"unmarshal", "span"} \/ step \in {"report", "cancel", "done"}
        BY <3>2 DEF StoryInv, Steps, Inside
      <4>2. span.open = FALSE
        BY <4>1 DEF SpanInv
      <4> QED  BY <3>2, <4>2
    <3> QED  BY <3>1, <3>2
  <2> QED  BY <2>1, <2>2 DEF StoryInv, FiniteInv, FlagsInv, OperationTypeOK, Inside
<1> QED
  BY <1>1, <1>2, StoryInit, StoryStep, MemoryStep, SpanStep, FiniteStep, FlagsStep, OperationParsing,
     PTL DEF OperationSpec
-----------------------------------------------------------------------------
(* The operation as the connection sees it.                                *)

\* How an operation fails, and that it then is on its way out.
LEMMA Fails ==
    ASSUME NEW type \in {"plain", "close", "result"}, NEW errs, Raise(type, errs), Place' = "ending"
    PROVE  Failure' = IF type = "close" THEN "event" ELSE "other"
<1>1. operr' = [type |-> type, errors |-> errs]
  BY DEF Raise
<1>2. operr'.type = type /\ operr' # NoError
  BY <1>1 DEF NoError
<1> QED  BY <1>2 DEF Failure

LEMMA LifeInit == OperationInit => Life!Init
BY DEF OperationInit, Life!Init, Place, Failure, GWS, GTWS

LEMMA LifeStep ==
    ASSUME StoryInv, FlagsInv, [OperationNext]_operationVars
    PROVE  [Life!Next]_(Life!lifeVars)
<1> USE DEF Place
<1> DEFINE Kept == UNCHANGED <<protocol, executed, stopped, canceled>>
\* Nothing has failed before the operation is on its way out.
<1>1. step \in Steps /\ (Place # "ending" => Failure = "none")
  BY DEF StoryInv, Failure
<1>2. ASSUME UNCHANGED <<protocol, step, operr, executed>>,
             stopped' \in {stopped, TRUE}, canceled' \in {canceled, TRUE}
      PROVE  Life!Environment
  BY <1>2 DEF Life!Environment, Failure
<1>3. CASE ReadStop
  BY <1>2, <1>3 DEF ReadStop, Life!Next
<1>4. CASE ReadPing \/ Parse \/ UNCHANGED operationVars
  BY <1>2, <1>4 DEF ReadPing, Parse, operationVars, Life!Next
<1>5. CASE Unmarshal
  <2>1. step = "unmarshal" /\ Kept
    BY <1>5 DEF Unmarshal
  <2>2. CASE Undecodable(memory[Slot(1)].Payload.RawMessage)
    <3> DEFINE type == IF protocol = GTWS THEN "close" ELSE "plain"
    <3>1. step' = "report" /\ \E errs : Raise(type, errs)
      BY <1>5, <2>2 DEF Unmarshal
    <3>2. Failure' = IF protocol = GTWS THEN "event" ELSE "other"
      BY <3>1, Fails
    <3> QED  BY <2>1, <3>1, <3>2 DEF Life!Next, Life!Decode, GTWS
  <2>3. CASE ~Undecodable(memory[Slot(1)].Payload.RawMessage)
    <3>1. step' = "span"
      BY <1>5, <2>3 DEF Unmarshal
    <3> QED  BY <2>1, <3>1 DEF Failure, Life!Next, Life!Decode
  <2> QED  BY <2>2, <2>3
<1>6. ASSUME Kept, Place = "preparing", Place' = "preparing" PROVE UNCHANGED (Life!lifeVars)
  BY <1>6 DEF Life!lifeVars, Failure
<1>7. CASE InterceptorReturns
  <2>1. step = "return" /\ step' = "endSpan" /\ Kept
    BY <1>7 DEF InterceptorReturns
  <2>2. Failure' \in {"none", "other", "event"} /\ Failure = "none"
    BY <2>1 DEF Failure
  <2> QED  BY <2>1, <2>2 DEF Life!Next, Life!Prepare, Life!EndResults
<1>8. CASE StartSpan
  BY <1>6, <1>8 DEF StartSpan
<1>9. CASE InterceptOperation
  <2>1. step = "operation" /\ step' \in {"return", "parse"} /\ Kept /\ ~executed
    BY <1>9 DEF InterceptOperation, Refused, StoryInv, Before
  <2> QED  BY <1>6, <2>1
<1>10. CASE ParseReturns
  <2>1. step = "parse" /\ step' \in {"return", "execute"} /\ Kept /\ ~executed
    BY <1>10 DEF ParseReturns, Refused, StoryInv, Before
  <2> QED  BY <1>6, <2>1
<1>11. CASE Execute
  <2>1. step = "execute" /\ ~executed /\ UNCHANGED <<protocol, stopped, canceled>>
    BY <1>11 DEF Execute, StoryInv, Before
  <2>2. CASE Refused("OperationExecute") /\ UNCHANGED executed
    BY <1>6, <2>1, <2>2 DEF Refused
  <2>3. CASE step' = "results" /\ executed' = TRUE
    BY <2>1, <2>3 DEF Life!Next, Life!Prepare, Failure
  <2> QED  BY <1>11, <2>2, <2>3 DEF Execute
<1>12. CASE Result
  <2>1. step = "results" /\ step' \in {"results", "return"} /\ Kept /\ executed
    BY <1>12 DEF Result, StoryInv, Before
  <2> QED  BY <2>1 DEF Life!lifeVars, Failure
<1>13. CASE ResultsEnd
  <2>1. step = "results" /\ step' = "return" /\ Kept /\ executed
    BY <1>13 DEF ResultsEnd, StoryInv, Before
  <2> QED  BY <2>1 DEF Life!lifeVars, Failure
<1>14. CASE EndSpan
  <2>1. step = "endSpan" /\ step' = "report" /\ Kept /\ UNCHANGED operr
    BY <1>14 DEF EndSpan
  <2> QED  BY <2>1 DEF Life!lifeVars, Failure
<1>15. CASE Report
  <2>1. step = "report" /\ step' = "cancel" /\ UNCHANGED <<protocol, executed, canceled, operr>>
    BY <1>15 DEF Report
  <2>2. Failure = IF operr = NoError THEN "none" ELSE IF operr.type = "close" THEN "event" ELSE "other"
    BY <2>1 DEF Failure
  <2>3. stopped' = (stopped \/ (Life!Reports /\ Failure = "other"))
    <3>1. CASE operr # NoError /\ ~executed
      <4>1. stopped' = (stopped \/ operr.type # "close")
        BY <1>15, <3>1 DEF Report
      <4>2. Life!Reports /\ (Failure = "other" <=> operr.type # "close")
        BY <2>2, <3>1 DEF Life!Reports
      <4> HIDE DEF Place
      <4> QED  BY <4>1, <4>2, Zenon
    <3>2. CASE ~(operr # NoError /\ ~executed)
      <4>1. stopped' = stopped /\ stopped \in BOOLEAN
        BY <1>15, <3>2 DEF Report, FlagsInv
      <4>2. ~Life!Reports
        BY <2>2, <3>2 DEF Life!Reports
      <4> HIDE DEF Place
      <4> QED  BY <4>1, <4>2, Zenon
    <3> QED  BY <3>1, <3>2
  <2>4. Failure' = "none" /\ Place = "ending" /\ Place' = "leaving"
    BY <2>1 DEF Failure
  <2> QED  BY <2>1, <2>3, <2>4 DEF Life!Next, Life!Report
<1>16. CASE CancelAndDelete
  <2>1. step = "cancel" /\ step' = "done" /\ canceled' = TRUE /\ UNCHANGED <<protocol, executed, stopped>>
    BY <1>16 DEF CancelAndDelete
  <2> QED  BY <2>1 DEF Life!Next, Life!Leave, Failure
<1> QED
  BY <1>2, <1>3, <1>4, <1>5, <1>7, <1>8, <1>9, <1>10, <1>11, <1>12, <1>13, <1>14, <1>15, <1>16
     DEF OperationNext, Life!Next, operationVars

\* Operation implements OperationLife: seen from the connection, all that the
\* extensions, interceptors and results of an operation do is what WsConnection
\* allows one of its operations.
THEOREM OperationHasLife == OperationSpec => LifeSpec
<1>1. StoryInv /\ FlagsInv /\ [OperationNext]_operationVars => [Life!Next]_(Life!lifeVars)
  BY LifeStep
<1> QED
  BY <1>1, FlagsInit, LifeInit, StoryInit, StoryStep, FlagsStep, OperationParsing, PTL
     DEF OperationSpec, LifeSpec, Life!Spec
=============================================================================
