------------------------ MODULE MutableContextProofs ------------------------
(***************************************************************************)
(* What holds of the contexts of a request for every number of operations, *)
(* of goroutines and of values.  All of it follows from one inductive      *)
(* invariant: at which level a context finds itself (Levels), what a       *)
(* lookup under way can still answer (Jobs) and what a stop leaves behind  *)
(* (Stops).                                                                *)
(***************************************************************************)
EXTENDS MutableContext, TLAPS

\* The request's context is found at the root and an operation's at itself, as
\* soon as anyone has it; the stop's mark is there from the stop on.
Levels ==
    /\ values[Root]["RequestContext"] = 1
    /\ values[Root]["OperationContext"] = 0
    /\ \A o \in Operations :
          /\ values[o]["RequestContext"] = 0
          /\ values[o]["OperationContext"] = IF life[o] = "unborn" THEN 0 ELSE 1
          /\ stop[o] # "none" => values[o]["Stopped"] # 0

\* A lookup has seen what is visible now; it left the first level only if
\* nothing was there, and saw nothing at all unless the root has a value.
LookupInv(g) ==
    /\ Visible(values, job[g].from, job[g].key) \in seen[g]
    /\ job[g].at \in {job[g].from, Root}
    /\ job[g].shadowed => values[job[g].from][job[g].key] # 0 /\ job[g].at = job[g].from
    /\ job[g].at # job[g].from => Nil \in seen[g] \/ values[Root][job[g].key] # 0

MarkInv(g) ==
    /\ job[g].from \in Operations => life[job[g].from] # "unborn"
    /\ job[g].flag \in Flags
    /\ job[g].key \in {"RequestContext", "OperationContext"}
    /\ job[g].key = "OperationContext" => job[g].at = job[g].from

JudgeInv(g) ==
    /\ job[g].from \in Operations /\ job[g].from \in done
    /\ job[g].key = "Stopped"
    /\ cause[job[g].from] = "stop" => job[g].at = job[g].from

Jobs ==
    \A g \in Goroutines :
        /\ job[g].why # "none" => LookupInv(g)
        /\ job[g].why = "mark" => MarkInv(g)
        /\ job[g].why = "judge" => JudgeInv(g)

Stops ==
    \A o \in Operations :
        /\ cause[o] = "stop" => stop[o] # "none"
        /\ verdict[o] = "canceled" => o \in done /\ cause[o] # "stop"
        /\ verdict[o] = "stopped" => {<<o, "Stopped">>, <<Root, "Stopped">>} \cap marked # {}

IInv == TypeOK /\ Levels /\ Jobs /\ Stops /\ MarksLand

-----------------------------------------------------------------------------
(* Single steps.                                                           *)

USE DEF Contexts

\* The steps that begin a lookup.
Begins(g) ==
    \/ \E c \in Contexts : MarkStarted(g, c)
    \/ \E c \in Contexts : \E k \in Flags \cup {"App"} : Value(g, c, k)
    \/ \E o \in Operations : Execute(g, o) \/ Judge(g, o) \/ Fail(g, o)
    \/ FailReading(g) \/ Terminate(g)

LEMMA Steps ==
    Step <=> \/ \E o \in Operations : NewOperation(o)
             \/ \E o \in Operations : Finish(o)
             \/ \E o \in Operations : Propagate(o)
             \/ \E o \in Operations : StopMark(o)
             \/ \E o \in Operations : StopCancel(o)
             \/ CancelRequest
             \/ \E c \in Contexts : Set(c)
             \/ \E g \in Goroutines : Begins(g)
             \/ \E g \in Goroutines : Climb(g)
             \/ \E g \in Goroutines : AnswerValue(g)
             \/ \E g \in Goroutines : AnswerJudge(g)
             \/ \E g \in Goroutines : AnswerMark(g)
BY Zenon DEF Step, Begins

\* They leave the contexts as they are, but for how far the operation is.
LEMMA BeginsLookup ==
    ASSUME NEW g \in Goroutines, Begins(g)
    PROVE  /\ \E c \in Contexts, k \in Keys, w \in Purposes, f \in {"none"} \cup Flags :
                 BeginLookup(g, c, k, w, f)
           /\ UNCHANGED <<values, done, cause, stop, marked, verdict>>
           /\ \/ UNCHANGED life
              \/ \E o \in Operations, l \in {"executing", "failing"} :
                    life[o] = "running" /\ life' = [life EXCEPT ![o] = l]
<1>1. /\ Flags \subseteq Keys /\ {"App", "RequestContext", "OperationContext"} \subseteq Keys
      /\ {"Started", "Executed", "Stopped"} \subseteq Flags
      /\ {"value", "judge", "mark"} \subseteq Purposes
  BY DEF Keys, Flags, Purposes
<1>2. \E c \in Contexts, k \in Keys, w \in Purposes, f \in {"none"} \cup Flags :
         BeginLookup(g, c, k, w, f)
  <2>1. CASE \E c \in Contexts : \E k \in Flags \cup {"App"} : Value(g, c, k)
    <3>1. PICK c \in Contexts, k \in Flags \cup {"App"} : Value(g, c, k)
      BY <2>1
    <3>2. k \in Keys /\ BeginLookup(g, c, k, "value", "none")
      BY <1>1, <3>1 DEF Value
    <3> QED
      BY <1>1, <3>2
  <2>2. CASE \E o \in Operations : Judge(g, o)
    BY <1>1, <2>2 DEF Judge
  <2>3. CASE \E c \in Contexts : MarkStarted(g, c)
    BY <1>1, <2>3 DEF MarkStarted, Mark
  <2>4. CASE \E o \in Operations : Execute(g, o) \/ Fail(g, o)
    BY <1>1, <2>4 DEF Execute, Fail, Mark
  <2>5. CASE FailReading(g) \/ Terminate(g)
    BY <1>1, <2>5 DEF FailReading, Terminate, Mark
  <2> QED
    BY <2>1, <2>2, <2>3, <2>4, <2>5 DEF Begins
<1>3. UNCHANGED <<values, done, cause, stop, marked, verdict>>
  BY <1>2 DEF BeginLookup
<1>4. \/ UNCHANGED life
      \/ \E o \in Operations, l \in {"executing", "failing"} :
            life[o] = "running" /\ life' = [life EXCEPT ![o] = l]
  <2>1. CASE \E o \in Operations : Execute(g, o)
    BY <2>1 DEF Execute
  <2>2. CASE \E o \in Operations : Fail(g, o)
    BY <2>2 DEF Fail
  <2>3. CASE UNCHANGED life
    BY <2>3
  <2>4. \/ \E o \in Operations : Execute(g, o)
        \/ \E o \in Operations : Fail(g, o)
        \/ UNCHANGED life
    BY DEF Begins, MarkStarted, Value, Judge, FailReading, Terminate
  <2> QED
    BY <2>1, <2>2, <2>3, <2>4
<1> QED
  BY <1>2, <1>3, <1>4

LEMMA NilIsNoEntry ==
    ASSUME NEW c \in Contexts, NEW n \in Nat PROVE <<c, n>> # Nil
BY TreeAssumption

LEMMA VisibleType ==
    ASSUME NEW vs \in [Contexts -> [Keys -> 0..MaxSets]], NEW c \in Contexts, NEW k \in Keys
    PROVE  Visible(vs, c, k) \in Values
<1>1. vs[c][k] \in 0..MaxSets /\ vs[Root][k] \in 0..MaxSets
  OBVIOUS
<1>2. ASSUME NEW d \in Contexts, vs[d][k] \in 0..MaxSets PROVE Entry(vs, d, k) \in Values
  BY <1>2, BoundAssumption DEF Entry, Values
<1> QED
  BY <1>1, <1>2 DEF Visible

\* A flag lands on the context it is meant for, and only there: on the request,
\* on the operation that sets it, or nowhere.
LEMMA MarkTarget ==
    ASSUME TypeOK, Levels, Jobs, NEW g \in Goroutines, AnswerMark(g)
    PROVE  \E c \in Contexts, f \in Flags :
              \/ /\ values' = [values EXCEPT ![c][f] = 1]
                 /\ marked' = marked \cup {<<c, f>>}
              \/ values' = values /\ marked' = marked
<1> DEFINE j == job[g]
<1>1. j.why = "mark" /\ LookupInv(g) /\ MarkInv(g) /\ ~ClimbsFrom(g)
  BY DEF Jobs, AnswerMark, Answers
<1>2. j.from \in Contexts /\ j.key \in Keys /\ j.at \in Contexts /\ j.flag \in Flags
  BY <1>1 DEF MarkInv, TypeOK
<1>3. /\ values' = IF Found(g) = Nil THEN values ELSE [values EXCEPT ![Found(g)[1]][j.flag] = 1]
      /\ marked' = marked \cup (Targets(j.from, j.key) \X {j.flag})
  BY DEF AnswerMark
<1>4. CASE j.key = "RequestContext"
  <2>1. j.at = Root
    BY <1>1, <1>2, <1>4, TreeAssumption DEF LookupInv, ClimbsFrom, Levels
  <2>2. Found(g) = <<Root, 1>>
    BY <2>1, <1>4 DEF Found, Entry, Levels
  <2>3. Found(g) # Nil
    BY <2>2, NilIsNoEntry
  <2>4. Targets(j.from, j.key) \X {j.flag} = {<<Root, j.flag>>}
    BY <1>4 DEF Targets
  <2>5. /\ values' = [values EXCEPT ![Root][j.flag] = 1]
        /\ marked' = marked \cup {<<Root, j.flag>>}
    BY <1>3, <2>2, <2>3, <2>4
  <2> QED
    BY <1>2, <2>5
<1>5. CASE j.key = "OperationContext" /\ j.from \in Operations
  <2>1. j.at = j.from
    BY <1>1, <1>5 DEF MarkInv
  <2>2. Found(g) = <<j.from, 1>>
    BY <1>1, <1>5, <2>1 DEF Found, Entry, Levels, MarkInv
  <2>3. Found(g) # Nil
    BY <1>5, <2>2, NilIsNoEntry
  <2>4. Targets(j.from, j.key) \X {j.flag} = {<<j.from, j.flag>>}
    BY <1>5 DEF Targets
  <2>5. /\ values' = [values EXCEPT ![j.from][j.flag] = 1]
        /\ marked' = marked \cup {<<j.from, j.flag>>}
    BY <1>3, <2>2, <2>3, <2>4
  <2> QED
    BY <1>2, <2>5
<1>6. CASE j.key = "OperationContext" /\ j.from = Root
  <2>1. Found(g) = Nil
    BY <1>1, <1>6 DEF MarkInv, Found, Entry, Levels
  <2>2. Targets(j.from, j.key) \X {j.flag} = {}
    BY <1>6, TreeAssumption DEF Targets
  <2> QED
    BY <1>2, <1>3, <2>1, <2>2
<1> QED
  BY <1>1, <1>2, <1>4, <1>5, <1>6 DEF MarkInv

\* What a step does to the values: a new operation finds itself, the application
\* sets a value, a flag is set where it is marked, or nothing happens to them.
LEMMA ValueSteps ==
    ASSUME TypeOK, Levels, Jobs, Step
    PROVE  \/ \E o \in Operations : NewOperation(o)
           \/ \E c \in Contexts : Set(c)
           \/ \E c \in Contexts, f \in Flags :
                 /\ values' = [values EXCEPT ![c][f] = 1]
                 /\ marked' = marked \cup {<<c, f>>}
           \/ UNCHANGED <<values, marked>>
<1>1. ASSUME NEW o \in Operations, StopMark(o)
      PROVE  \E c \in Contexts, f \in Flags :
                /\ values' = [values EXCEPT ![c][f] = 1]
                /\ marked' = marked \cup {<<c, f>>}
  <2>1. /\ values' = [values EXCEPT ![o]["Stopped"] = 1]
        /\ marked' = marked \cup {<<o, "Stopped">>}
        /\ "Stopped" \in Flags
    BY <1>1 DEF StopMark, Raise, Flags
  <2> QED
    BY <2>1
<1>2. ASSUME NEW g \in Goroutines, AnswerMark(g)
      PROVE  \/ \E c \in Contexts, f \in Flags :
                   /\ values' = [values EXCEPT ![c][f] = 1]
                   /\ marked' = marked \cup {<<c, f>>}
             \/ UNCHANGED <<values, marked>>
  BY <1>2, MarkTarget
<1>3. \/ \E o \in Operations : NewOperation(o) \/ StopMark(o)
      \/ \E c \in Contexts : Set(c)
      \/ \E g \in Goroutines : AnswerMark(g)
      \/ UNCHANGED <<values, marked>>
  BY Steps, BeginsLookup
     DEF Finish, Propagate, StopCancel, CancelRequest, Climb, AnswerValue, AnswerJudge
<1> QED
  BY <1>1, <1>2, <1>3

\* Nothing that was set is taken back, and the contexts stay where they are found.
LEMMA ValuesAfterStep ==
    ASSUME TypeOK, Levels, Jobs, Step
    PROVE  /\ values' \in [Contexts -> [Keys -> 0..MaxSets]]
           /\ \A c \in Contexts, k \in Keys : values[c][k] # 0 => values'[c][k] # 0
           /\ \A c \in Contexts : values'[c]["RequestContext"] = values[c]["RequestContext"]
           /\ values'[Root]["OperationContext"] = 0
           /\ \/ \E o \in Operations : NewOperation(o)
              \/ \A c \in Contexts : values'[c]["OperationContext"] = values[c]["OperationContext"]
<1>1. values \in [Contexts -> [Keys -> 0..MaxSets]] /\ 1 \in 1..MaxSets /\ MaxSets \in Nat
  BY BoundAssumption DEF TypeOK
<1>2. /\ "OperationContext" \in Keys /\ "RequestContext" \in Keys /\ "App" \in Keys
      /\ \A f \in Flags : f \in Keys /\ f \notin {"RequestContext", "OperationContext"}
  BY DEF Keys, Flags
<1>3. ASSUME NEW c \in Contexts, NEW k \in Keys, NEW n \in 1..MaxSets,
             values' = [values EXCEPT ![c][k] = n]
      PROVE  /\ values' \in [Contexts -> [Keys -> 0..MaxSets]]
             /\ \A d \in Contexts, l \in Keys : values[d][l] # 0 => values'[d][l] # 0
             /\ \A d \in Contexts, l \in Keys : d # c \/ l # k => values'[d][l] = values[d][l]
  <2>1. values' \in [Contexts -> [Keys -> 0..MaxSets]]
    BY <1>1, <1>3
  <2>2. values'[c][k] = n
    BY <1>1, <1>3
  <2>3. \A d \in Contexts, l \in Keys : d # c \/ l # k => values'[d][l] = values[d][l]
    BY <1>1, <1>3
  <2> QED
    BY <1>1, <2>1, <2>2, <2>3
<1>4. values[Root]["OperationContext"] = 0
  BY DEF Levels
<1>5. ASSUME NEW o \in Operations, NewOperation(o)
      PROVE  \E c \in Operations : values' = [values EXCEPT ![c]["OperationContext"] = 1]
  BY <1>5 DEF NewOperation, Raise
<1>6. CASE \E o \in Operations : NewOperation(o)
  <2>1. PICK c \in Operations : values' = [values EXCEPT ![c]["OperationContext"] = 1]
    BY <1>5, <1>6
  <2>2. c # Root
    BY TreeAssumption
  <2> QED
    BY <1>1, <1>2, <1>3, <1>4, <1>6, <2>1, <2>2
<1>7. CASE \E c \in Contexts : Set(c)
  <2>1. PICK c \in Contexts : Set(c)
    BY <1>7
  <2>2. values[c]["App"] + 1 \in 1..MaxSets
    BY <1>1, <1>2, <2>1 DEF Set
  <2>3. values' = [values EXCEPT ![c]["App"] = values[c]["App"] + 1]
    BY <2>1 DEF Set
  <2> QED
    BY <1>1, <1>2, <1>3, <1>4, <2>2, <2>3
<1>8. CASE \E c \in Contexts, f \in Flags : values' = [values EXCEPT ![c][f] = 1]
  <2>1. PICK c \in Contexts, f \in Flags : values' = [values EXCEPT ![c][f] = 1]
    BY <1>8
  <2> QED
    BY <1>1, <1>2, <1>3, <1>4, <2>1
<1>9. CASE values' = values
  BY <1>1, <1>4, <1>9
<1> QED
  BY <1>6, <1>7, <1>8, <1>9, ValueSteps

\* What is done, and why, is settled once; a context that was used stays in
\* use; a stop is not taken back.
LEMMA FactsStay ==
    ASSUME TypeOK, Step
    PROVE  /\ \A c \in done : c \in done' /\ cause'[c] = cause[c]
           /\ \A o \in Operations : life[o] # "unborn" => life'[o] # "unborn"
           /\ \/ \E o \in Operations : NewOperation(o)
              \/ \A o \in Operations : life[o] = "unborn" => life'[o] = "unborn"
           /\ \A o \in Operations : stop[o] # "none" => stop'[o] # "none"
<1>1. ASSUME NEW c \in Contexts, NEW why, Cancel(c, why)
      PROVE  \A d \in done : d \in done' /\ cause'[d] = cause[d]
  BY <1>1 DEF Cancel, TypeOK
<1>2. \A c \in done : c \in done' /\ cause'[c] = cause[c]
  <2>1. CASE \E o \in Operations : NewOperation(o)
    <3>1. PICK o \in Operations : NewOperation(o)
      BY <2>1
    <3>2. o \notin done
      <4>1. LifeCycle
        BY DEF TypeOK
      <4> QED
        BY <3>1, <4>1 DEF NewOperation, LifeCycle
    <3>3. cause \in [Contexts -> {"none", "stop", "finish", "request"}] /\ done \subseteq Contexts
      BY DEF TypeOK
    <3>4. done \subseteq done' /\ (cause' = cause \/ cause' = [cause EXCEPT ![o] = "request"])
      BY <3>1 DEF NewOperation
    <3> QED
      BY <3>2, <3>3, <3>4
  <2>2. CASE UNCHANGED <<done, cause>>
    BY <2>2
  <2>3. CASE \E c \in Contexts, why \in {"stop", "finish", "request"} : Cancel(c, why)
    BY <1>1, <2>3
  <2> QED
    BY <2>1, <2>2, <2>3, Steps, BeginsLookup
       DEF Finish, Propagate, StopMark, StopCancel, CancelRequest, Set, Climb, AnswerValue,
           AnswerJudge, AnswerMark
<1>3. /\ \A o \in Operations : life[o] # "unborn" => life'[o] # "unborn"
      /\ \/ \E o \in Operations : NewOperation(o)
         \/ \A o \in Operations : life[o] = "unborn" => life'[o] = "unborn"
  <2>1. CASE \E o \in Operations : NewOperation(o)
    BY <2>1 DEF NewOperation, TypeOK
  <2>2. CASE \E o \in Operations : /\ life[o] # "unborn"
                                   /\ \E l \in {"executing", "failing", "finished"} :
                                         life' = [life EXCEPT ![o] = l]
    BY <2>2 DEF TypeOK
  <2>3. CASE UNCHANGED life
    BY <2>3
  <2> QED
    BY <2>1, <2>2, <2>3, Steps, BeginsLookup
       DEF Finish, Propagate, StopMark, StopCancel, CancelRequest, Set, Climb, AnswerValue,
           AnswerJudge, AnswerMark
<1>4. \A o \in Operations : stop[o] # "none" => stop'[o] # "none"
  BY Steps, BeginsLookup
     DEF NewOperation, Finish, Propagate, StopMark, StopCancel, CancelRequest, Set, Climb,
         AnswerValue, AnswerJudge, AnswerMark, TypeOK
<1> QED
  BY <1>2, <1>3, <1>4

\* The flags that stand are those that were marked, after a step as before.
LEMMA MarksLandNext ==
    ASSUME TypeOK, Levels, Jobs, MarksLand, Step PROVE MarksLand'
<1> SUFFICES ASSUME NEW c \in Contexts, NEW k \in Flags
             PROVE  values'[c][k] # 0 <=> <<c, k>> \in marked'
  BY DEF MarksLand
<1>1. values \in [Contexts -> [Keys -> 0..MaxSets]]
  BY DEF TypeOK
<1>2. k \in Keys /\ k \notin {"OperationContext", "App"}
  BY DEF Keys, Flags
<1>3. values[c][k] # 0 <=> <<c, k>> \in marked
  BY DEF MarksLand
<1>4. ASSUME NEW o \in Operations, NewOperation(o) PROVE values'[c][k] = values[c][k] /\ marked' = marked
  BY <1>1, <1>2, <1>4 DEF NewOperation, Raise
<1>5. ASSUME NEW d \in Contexts, Set(d) PROVE values'[c][k] = values[c][k] /\ marked' = marked
  BY <1>1, <1>2, <1>5 DEF Set
<1>6. ASSUME NEW d \in Contexts, NEW f \in Flags, values' = [values EXCEPT ![d][f] = 1],
             marked' = marked \cup {<<d, f>>}
      PROVE  values'[c][k] # 0 <=> <<c, k>> \in marked'
  <2>1. CASE c = d /\ k = f
    BY <1>1, <1>2, <1>6, <2>1
  <2>2. CASE ~(c = d /\ k = f)
    <3>1. values'[c][k] = values[c][k]
      BY <1>1, <1>2, <1>6, <2>2
    <3>2. <<c, k>> \in marked' <=> <<c, k>> \in marked
      BY <1>6, <2>2
    <3> QED
      BY <1>3, <3>1, <3>2
  <2> QED
    BY <2>1, <2>2
<1> QED
  BY <1>3, <1>4, <1>5, <1>6, ValueSteps

LEMMA TypeInit == Init => TypeOK
BY BoundAssumption, TreeAssumption
   DEF Init, TypeOK, LifeCycle, IdleJob, Keys, Values, Purposes, Flags, Lives

LEMMA LevelsInit == Init => Levels
BY TreeAssumption DEF Init, Levels, Keys

LEMMA TypeNext ==
    ASSUME TypeOK, Levels, Jobs, Next PROVE TypeOK'
<1>0. Step /\ Observe
  BY DEF Next
<1>1. values' \in [Contexts -> [Keys -> 0..MaxSets]]
  BY <1>0, ValuesAfterStep
<1>2. life' \in [Operations -> Lives]
  <2>1. CASE \E o \in Operations, l \in Lives : life' = [life EXCEPT ![o] = l]
    BY <2>1 DEF TypeOK
  <2>2. CASE UNCHANGED life
    BY <2>2 DEF TypeOK
  <2>3. CASE \E o \in Operations : NewOperation(o)
    BY <2>1, <2>3 DEF NewOperation, Lives
  <2>4. CASE \E o \in Operations : Finish(o)
    BY <2>1, <2>4 DEF Finish, Lives
  <2>5. CASE \E g \in Goroutines : Begins(g)
    BY <2>1, <2>2, <2>5, BeginsLookup DEF Lives
  <2> QED
    BY <1>0, <2>2, <2>3, <2>4, <2>5, Steps
       DEF Propagate, StopMark, StopCancel, CancelRequest, Set, Climb, AnswerValue, AnswerJudge,
           AnswerMark
<1>8. stop' \in [Operations -> {"none", "marked", "canceled"}]
  <2>1. CASE \E o \in Operations : StopMark(o) \/ StopCancel(o)
    BY <2>1 DEF StopMark, StopCancel, TypeOK
  <2>2. CASE UNCHANGED stop
    BY <2>2 DEF TypeOK
  <2> QED
    BY <1>0, <2>1, <2>2, Steps, BeginsLookup
       DEF NewOperation, Finish, Propagate, CancelRequest, Set, Climb, AnswerValue,
           AnswerJudge, AnswerMark
<1>3. /\ done' \subseteq Contexts
      /\ cause' \in [Contexts -> {"none", "stop", "finish", "request"}]
      /\ \A c \in Contexts : c \in done' <=> cause'[c] # "none"
  <2>1. ASSUME NEW c \in Contexts, NEW why \in {"stop", "finish", "request"}, Cancel(c, why)
        PROVE  /\ done' \subseteq Contexts
               /\ cause' \in [Contexts -> {"none", "stop", "finish", "request"}]
               /\ \A d \in Contexts : d \in done' <=> cause'[d] # "none"
    BY <2>1 DEF Cancel, TypeOK
  <2>2. CASE \E o \in Operations : NewOperation(o)
    BY <2>2 DEF NewOperation, TypeOK
  <2>3. CASE UNCHANGED <<done, cause>>
    BY <2>3 DEF TypeOK
  <2> QED
    BY <1>0, <2>1, <2>2, <2>3, Steps, BeginsLookup
       DEF Finish, Propagate, StopMark, StopCancel, CancelRequest, Set, Climb, AnswerValue,
           AnswerJudge, AnswerMark
<1> DEFINE JobType == [why : {"none"} \cup Purposes, from : Contexts, key : Keys,
                       flag : {"none"} \cup Flags, at : Contexts, shadowed : BOOLEAN]
<1>4. job' \in [Goroutines -> JobType]
  <2>0. job \in [Goroutines -> JobType]
    BY DEF TypeOK
  <2>1. ASSUME NEW g \in Goroutines, NEW c \in Contexts, NEW k \in Keys, NEW w \in Purposes,
               NEW f \in {"none"} \cup Flags, BeginLookup(g, c, k, w, f)
        PROVE  job' \in [Goroutines -> JobType]
    <3>1. [why |-> w, from |-> c, key |-> k, flag |-> f, at |-> c, shadowed |-> values[c][k] # 0]
             \in JobType
      BY DEF Purposes
    <3> HIDE DEF JobType
    <3> QED
      BY <2>0, <2>1, <3>1 DEF BeginLookup
  <2>2. CASE \E g \in Goroutines : Begins(g)
    <3>1. \E g \in Goroutines, c \in Contexts, k \in Keys, w \in Purposes,
             f \in {"none"} \cup Flags : BeginLookup(g, c, k, w, f)
      BY <2>2, BeginsLookup
    <3> QED
      BY <2>1, <3>1
  <2>3. CASE \E g \in Goroutines : Climb(g)
    <3>1. PICK g \in Goroutines : Climb(g)
      BY <2>3
    <3>2. job' = [job EXCEPT ![g] = [job[g] EXCEPT !.at = Root]]
      BY <3>1 DEF Climb
    <3>3. [job[g] EXCEPT !.at = Root] \in JobType
      BY <2>0
    <3> HIDE DEF JobType
    <3> QED
      BY <2>0, <3>2, <3>3
  <2>4. CASE \E g \in Goroutines : AnswerValue(g) \/ AnswerJudge(g) \/ AnswerMark(g)
    <3>1. IdleJob \in JobType
      BY DEF IdleJob, Keys
    <3>2. \E g \in Goroutines : job' = [job EXCEPT ![g] = IdleJob]
      BY <2>4 DEF AnswerValue, AnswerJudge, AnswerMark
    <3> HIDE DEF JobType
    <3> QED
      BY <2>0, <3>1, <3>2
  <2>5. CASE UNCHANGED job
    BY <2>0, <2>5
  <2> QED
    BY <1>0, <2>2, <2>3, <2>4, <2>5
       DEF Step, Begins, NewOperation, Finish, Propagate, StopMark, StopCancel, CancelRequest, Set
<1>5. seen' \in [Goroutines -> SUBSET Values]
  <2>1. ASSUME NEW g \in Goroutines
        PROVE  /\ Visible(values', job'[g].from, job'[g].key) \in Values
               /\ seen[g] \subseteq Values
    <3>1. job'[g].from \in Contexts /\ job'[g].key \in Keys
      BY <1>4
    <3> QED
      BY <1>1, <3>1, VisibleType DEF TypeOK
  <2> QED
    BY <1>0, <2>1 DEF Observe
<1>6. marked' \subseteq Contexts \X Flags
  <2>1. marked \subseteq Contexts \X Flags
    BY DEF TypeOK
  <2> QED
    BY <1>0, <2>1, ValueSteps DEF NewOperation, Set
<1>7. verdict' \in [Operations -> {"none", "stopped", "canceled"}]
  BY <1>0, Steps, BeginsLookup
     DEF TypeOK, NewOperation, Finish, Propagate, StopMark, StopCancel, CancelRequest, Set,
         Climb, AnswerValue, AnswerJudge, AnswerMark
<1>9. ASSUME NEW o \in Operations
      PROVE  /\ life'[o] = "unborn" => o \notin done' /\ stop'[o] = "none"
             /\ life'[o] = "finished" => o \in done'
  <2> DEFINE Used == life'[o] # "unborn" /\ (life'[o] = "finished" => o \in done')
             Same == /\ life'[o] = life[o] /\ stop'[o] = stop[o]
                     /\ o \in done' <=> o \in done
  <2>0. /\ life \in [Operations -> Lives]
        /\ stop \in [Operations -> {"none", "marked", "canceled"}]
        /\ life[o] = "unborn" => o \notin done /\ stop[o] = "none"
        /\ life[o] = "finished" => o \in done
        /\ o # Root
    <3>1. LifeCycle
      BY DEF TypeOK
    <3>2. /\ life \in [Operations -> Lives]
          /\ stop \in [Operations -> {"none", "marked", "canceled"}]
      BY DEF TypeOK
    <3> QED
      BY <3>1, <3>2, TreeAssumption DEF LifeCycle
  <2>1. ASSUME NEW p \in Operations, NewOperation(p) PROVE Used \/ Same
    BY <2>0, <2>1 DEF NewOperation
  <2>2. ASSUME NEW p \in Operations, Finish(p) PROVE Used \/ Same
    BY <2>0, <2>2 DEF Finish, Cancel
  <2>3. ASSUME NEW p \in Operations, Propagate(p) PROVE Used \/ Same
    BY <2>0, <2>3 DEF Propagate, Cancel
  <2>4. ASSUME NEW p \in Operations, StopMark(p) PROVE Used \/ Same
    BY <2>0, <2>4 DEF StopMark
  <2>5. ASSUME NEW p \in Operations, StopCancel(p) PROVE Used \/ Same
    BY <2>0, <2>5 DEF StopCancel, Cancel
  <2>6. ASSUME CancelRequest PROVE Used \/ Same
    BY <2>0, <2>6 DEF CancelRequest, Cancel
  <2>7. ASSUME UNCHANGED <<life, done, stop>> PROVE Used \/ Same
    BY <2>7
  <2>8. ASSUME NEW g \in Goroutines, Begins(g) PROVE Used \/ Same
    BY <2>0, <2>8, BeginsLookup DEF Lives
  <2>10. \/ \E p \in Operations : \/ NewOperation(p) \/ Finish(p) \/ Propagate(p)
                                  \/ StopMark(p) \/ StopCancel(p)
         \/ CancelRequest
         \/ \E g \in Goroutines : Begins(g)
         \/ UNCHANGED <<life, done, stop>>
    BY <1>0, Steps DEF Set, Climb, AnswerValue, AnswerJudge, AnswerMark
  <2>9. Used \/ Same
    <3> HIDE DEF Used, Same
    <3> QED
      BY <2>1, <2>2, <2>3, <2>4, <2>5, <2>6, <2>7, <2>8, <2>10
  <2> QED
    BY <2>0, <2>9
<1> QED
  BY <1>1, <1>2, <1>3, <1>4, <1>5, <1>6, <1>7, <1>8, <1>9 DEF TypeOK, LifeCycle

LEMMA LevelsNext ==
    ASSUME TypeOK, Levels, Jobs, Step PROVE Levels'
<1>1. /\ values \in [Contexts -> [Keys -> 0..MaxSets]]
      /\ stop \in [Operations -> {"none", "marked", "canceled"}]
      /\ life \in [Operations -> Lives]
  BY DEF TypeOK
<1>2. "OperationContext" \in Keys /\ "Stopped" \in Keys
  BY DEF Keys
<1>3. ASSUME NEW o \in Operations
      PROVE  values'[o]["OperationContext"] = IF life'[o] = "unborn" THEN 0 ELSE 1
  <2>1. values[o]["OperationContext"] = IF life[o] = "unborn" THEN 0 ELSE 1
    BY DEF Levels
  <2>2. CASE \E p \in Operations : NewOperation(p)
    <3>1. PICK p \in Operations : NewOperation(p)
      BY <2>2
    <3>2. values' = [values EXCEPT ![p]["OperationContext"] = 1] /\ life' = [life EXCEPT ![p] = "running"]
      BY <3>1 DEF NewOperation, Raise
    <3>3. CASE o = p
      BY <1>1, <1>2, <3>2, <3>3
    <3>4. CASE o # p
      BY <1>1, <1>2, <2>1, <3>2, <3>4
    <3> QED
      BY <3>3, <3>4
  <2>3. CASE ~\E p \in Operations : NewOperation(p)
    <3>1. values'[o]["OperationContext"] = values[o]["OperationContext"]
      BY <2>3, ValuesAfterStep
    <3>2. life'[o] = "unborn" <=> life[o] = "unborn"
      BY <2>3, FactsStay
    <3> QED
      BY <2>1, <3>1, <3>2
  <2> QED
    BY <2>2, <2>3
<1>4. ASSUME NEW o \in Operations, stop'[o] # "none" PROVE values'[o]["Stopped"] # 0
  <2>1. CASE stop[o] # "none"
    BY <1>2, <2>1, ValuesAfterStep DEF Levels
  <2>2. CASE stop[o] = "none"
    <3>1. ASSUME NEW p \in Operations, StopMark(p) PROVE values'[o]["Stopped"] # 0
      <4>1. o = p
        BY <1>1, <1>4, <2>2, <3>1 DEF StopMark
      <4> QED
        BY <1>1, <1>2, <3>1, <4>1 DEF StopMark, Raise
    <3>2. ASSUME NEW p \in Operations, StopCancel(p) PROVE FALSE
      BY <1>1, <1>4, <2>2, <3>2 DEF StopCancel
    <3>3. (\E p \in Operations : StopMark(p) \/ StopCancel(p)) \/ UNCHANGED stop
      BY Steps, BeginsLookup
         DEF NewOperation, Finish, Propagate, CancelRequest, Set, Climb, AnswerValue,
             AnswerJudge, AnswerMark
    <3> QED
      BY <1>4, <2>2, <3>1, <3>2, <3>3
  <2> QED
    BY <2>1, <2>2
<1> QED
  BY <1>3, <1>4, ValuesAfterStep DEF Levels

\* What one step does to the lookup of one goroutine.
LEMMA JobSteps ==
    ASSUME TypeOK, Step, NEW g \in Goroutines
    PROVE  \/ job'[g] = job[g]
           \/ job'[g] = IdleJob
           \/ Begins(g)
           \/ Climb(g)
<1>1. \A h \in Goroutines : \A j : job' = [job EXCEPT ![h] = j] =>
          IF h = g THEN job'[g] = j ELSE job'[g] = job[g]
  BY DEF TypeOK
<1>2. CASE \E h \in Goroutines : Begins(h)
  <2>1. PICK h \in Goroutines : Begins(h)
    BY <1>2
  <2>2. CASE h # g
    <3>1. \E c, k, w, f : BeginLookup(h, c, k, w, f)
      BY <2>1, BeginsLookup
    <3> QED
      BY <1>1, <2>2, <3>1 DEF BeginLookup
  <2> QED
    BY <2>1, <2>2
<1>3. CASE \E h \in Goroutines : Climb(h)
  <2>1. PICK h \in Goroutines : Climb(h)
    BY <1>3
  <2>2. job' = [job EXCEPT ![h] = [job[h] EXCEPT !.at = Root]]
    BY <2>1 DEF Climb
  <2> QED
    BY <1>1, <2>1, <2>2
<1>4. CASE \E h \in Goroutines : AnswerValue(h) \/ AnswerJudge(h) \/ AnswerMark(h)
  <2>1. \E h \in Goroutines : job' = [job EXCEPT ![h] = IdleJob]
    BY <1>4 DEF AnswerValue, AnswerJudge, AnswerMark
  <2> QED
    BY <1>1, <2>1
<1>5. CASE UNCHANGED job
  BY <1>5
<1> QED
  BY <1>2, <1>3, <1>4, <1>5
     DEF Step, Begins, NewOperation, Finish, Propagate, StopMark, StopCancel, CancelRequest, Set

LEMMA JobsNext ==
    ASSUME TypeOK, Levels, Jobs, Stops, Next PROVE Jobs'
<1> SUFFICES ASSUME NEW g \in Goroutines
             PROVE  (/\ job[g].why # "none" => LookupInv(g)
                     /\ job[g].why = "mark" => MarkInv(g)
                     /\ job[g].why = "judge" => JudgeInv(g))'
  BY DEF Jobs
<1>0. Step /\ Observe
  BY DEF Next
<1>1. IdleJob.why = "none"
  BY DEF IdleJob
<1>2. job'[g].why # "none" =>
         seen'[g] = seen[g] \cup {Visible(values', job'[g].from, job'[g].key)}
  BY <1>0, <1>1 DEF Observe
<1>3. /\ \A c \in Contexts, k \in Keys : values[c][k] # 0 => values'[c][k] # 0
      /\ \A c \in done : c \in done' /\ cause'[c] = cause[c]
      /\ \A o \in Operations : life[o] # "unborn" => life'[o] # "unborn"
  BY <1>0, ValuesAfterStep, FactsStay
<1>4. /\ job[g].from \in Contexts /\ job[g].key \in Keys /\ job[g].at \in Contexts
      /\ job[g].why \in {"none"} \cup Purposes
  BY DEF TypeOK
<1>5. CASE job'[g] = job[g]
  <2>1. job[g].why # "none" => LookupInv(g)'
    BY <1>2, <1>3, <1>4, <1>5 DEF Jobs, LookupInv
  <2>2. job[g].why = "mark" => MarkInv(g)'
    BY <1>3, <1>5 DEF Jobs, MarkInv
  <2>3. job[g].why = "judge" => JudgeInv(g)'
    BY <1>3, <1>5 DEF Jobs, JudgeInv
  <2> QED
    BY <1>5, <2>1, <2>2, <2>3
<1>6. CASE job'[g] = IdleJob
  BY <1>1, <1>6
<1>7. ASSUME NEW c \in Contexts, NEW k \in Keys, NEW w, NEW f, BeginLookup(g, c, k, w, f)
      PROVE  /\ job'[g].why = w /\ job'[g].from = c /\ job'[g].key = k /\ job'[g].at = c
             /\ job'[g].flag = f
             /\ w # "none" => LookupInv(g)'
             /\ UNCHANGED <<values, done, cause>>
  <2>1. job'[g] = [why |-> w, from |-> c, key |-> k, flag |-> f, at |-> c,
                   shadowed |-> values[c][k] # 0]
    BY <1>7 DEF BeginLookup, TypeOK
  <2>2. UNCHANGED <<values, done, cause>>
    BY <1>7 DEF BeginLookup
  <2>3. /\ job'[g].why = w /\ job'[g].from = c /\ job'[g].key = k /\ job'[g].at = c
        /\ job'[g].flag = f
    BY <2>1
  <2>4. job'[g].shadowed = (values[c][k] # 0)
    <3>1. ASSUME NEW b, NEW r,
                 r = [why |-> w, from |-> c, key |-> k, flag |-> f, at |-> c, shadowed |-> b]
          PROVE  r.shadowed = b
      BY <3>1
    <3> QED
      BY <2>1, <3>1, Zenon
  <2>5. w # "none" => LookupInv(g)'
    BY <1>2, <2>2, <2>3, <2>4 DEF LookupInv
  <2> QED
    BY <2>2, <2>3, <2>5
<1>8. CASE \E c \in Contexts : \E k \in Flags \cup {"App"} : Value(g, c, k)
  <2>1. PICK c \in Contexts, k \in Flags \cup {"App"} : Value(g, c, k)
    BY <1>8
  <2>2. k \in Keys /\ BeginLookup(g, c, k, "value", "none")
    BY <2>1 DEF Value, Keys, Flags
  <2>3. job'[g].why = "value" /\ LookupInv(g)'
    BY <1>7, <2>2
  <2> QED
    BY <2>3
<1>9. CASE \E o \in Operations : Judge(g, o)
  <2>1. PICK o \in Operations : Judge(g, o)
    BY <1>9
  <2>2. o \in done /\ "Stopped" \in Keys /\ BeginLookup(g, o, "Stopped", "judge", "none")
    BY <2>1 DEF Judge, Keys
  <2>3. /\ job'[g].why = "judge" /\ job'[g].from = o /\ job'[g].key = "Stopped"
        /\ job'[g].at = o /\ LookupInv(g)' /\ o \in done'
    BY <1>7, <2>2
  <2> QED
    BY <2>3 DEF JudgeInv
<1>10. ASSUME NEW c \in Contexts, NEW k \in {"RequestContext", "OperationContext"},
              NEW f \in Flags, Mark(g, c, k, f), c \in Operations => life[c] # "unborn"
       PROVE  /\ job'[g].why # "none" => LookupInv(g)'
              /\ job'[g].why = "mark" => MarkInv(g)'
              /\ job'[g].why = "judge" => JudgeInv(g)'
  <2>1. k \in Keys /\ BeginLookup(g, c, k, "mark", f)
    BY <1>10 DEF Mark, Keys
  <2>2. /\ job'[g].why = "mark" /\ job'[g].from = c /\ job'[g].key = k
        /\ job'[g].at = c /\ job'[g].flag = f /\ LookupInv(g)'
    BY <1>7, <2>1
  <2> QED
    BY <1>3, <1>10, <2>2 DEF MarkInv
<1>12. CASE \/ \E c \in Contexts : MarkStarted(g, c)
            \/ \E o \in Operations : Execute(g, o) \/ Fail(g, o)
            \/ FailReading(g) \/ Terminate(g)
  <2>1. "Started" \in Flags /\ "Executed" \in Flags /\ "Stopped" \in Flags
    BY DEF Flags
  <2>2. \E c \in Contexts, k \in {"RequestContext", "OperationContext"}, f \in Flags :
           Mark(g, c, k, f) /\ (c \in Operations => life[c] # "unborn")
    BY <1>12, <2>1, TreeAssumption DEF MarkStarted, Execute, Fail, FailReading, Terminate
  <2> QED
    BY <1>10, <2>2
<1>11. CASE Climb(g)
  <2>1. job'[g] = [job[g] EXCEPT !.at = Root] /\ UNCHANGED <<values, life, done, cause>>
    BY <1>11 DEF Climb, TypeOK
  <2>2. /\ job'[g].why = job[g].why /\ job'[g].from = job[g].from /\ job'[g].key = job[g].key
        /\ job'[g].at = Root /\ job'[g].shadowed = job[g].shadowed
        /\ job'[g].flag = job[g].flag
    BY <2>1 DEF TypeOK
  <2>3. /\ LookupInv(g) /\ job[g].at = job[g].from /\ job[g].at # Root
        /\ values[job[g].from][job[g].key] = 0
    BY <1>11 DEF Climb, ClimbsFrom, Jobs, LookupInv
  <2>4. Nil \in seen[g] \/ values[Root][job[g].key] # 0
    BY <2>3 DEF LookupInv, Visible, Entry
  <2>5. LookupInv(g)'
    <3>1. seen[g] \subseteq seen'[g] /\ Visible(values', job'[g].from, job'[g].key) \in seen'[g]
      BY <1>2, <1>11, <2>2 DEF Climb
    <3> QED
      BY <2>1, <2>2, <2>3, <2>4, <3>1 DEF LookupInv
  <2>6. job[g].why = "mark" => MarkInv(g)'
    <3> SUFFICES ASSUME job[g].why = "mark" PROVE MarkInv(g)'
      OBVIOUS
    <3>1. MarkInv(g)
      BY DEF Jobs
    <3>2. job[g].key # "OperationContext"
      BY <1>4, <2>3, <3>1 DEF MarkInv, Levels
    <3> QED
      BY <2>1, <2>2, <3>1, <3>2 DEF MarkInv
  <2>7. job[g].why = "judge" => JudgeInv(g)'
    <3> SUFFICES ASSUME job[g].why = "judge" PROVE JudgeInv(g)'
      OBVIOUS
    <3>1. JudgeInv(g)
      BY DEF Jobs
    <3>2. cause[job[g].from] # "stop"
      BY <2>3, <3>1 DEF JudgeInv, Levels, Stops
    <3> QED
      BY <2>1, <2>2, <3>1, <3>2 DEF JudgeInv
  <2> QED
    BY <2>2, <2>5, <2>6, <2>7
<1> QED
  BY <1>0, <1>5, <1>6, <1>8, <1>9, <1>11, <1>12, JobSteps DEF Begins

LEMMA StopsNext ==
    ASSUME TypeOK, Levels, Jobs, Stops, MarksLand, Step PROVE Stops'
<1> DEFINE Marked(o) == {<<o, "Stopped">>, <<Root, "Stopped">>} \cap marked # {}
<1> SUFFICES ASSUME NEW o \in Operations
             PROVE  /\ cause'[o] = "stop" => stop'[o] # "none"
                    /\ verdict'[o] = "canceled" => o \in done' /\ cause'[o] # "stop"
                    /\ verdict'[o] = "stopped" => Marked(o)'
  BY DEF Stops
<1>0. /\ cause \in [Contexts -> {"none", "stop", "finish", "request"}]
      /\ verdict \in [Operations -> {"none", "stopped", "canceled"}]
      /\ stop \in [Operations -> {"none", "marked", "canceled"}]
      /\ o \in done <=> cause[o] # "none"
  BY DEF TypeOK
<1>1. /\ o \in done => o \in done' /\ cause'[o] = cause[o]
      /\ stop[o] # "none" => stop'[o] # "none"
  BY FactsStay
<1>2. cause'[o] = "stop" => stop'[o] # "none"
  <2>1. CASE o \in done
    BY <1>1, <2>1 DEF Stops
  <2>2. CASE o \notin done
    <3>1. ASSUME NEW p \in Operations, StopCancel(p) PROVE cause'[o] = "stop" => stop'[o] # "none"
      BY <1>0, <2>2, <3>1 DEF StopCancel, Cancel
    <3>2. ASSUME NEW c \in Contexts, NEW w, Cancel(c, w), w # "stop" PROVE cause'[o] # "stop"
      BY <1>0, <2>2, <3>2 DEF Cancel
    <3>3. ASSUME NEW p \in Operations, NewOperation(p) PROVE cause'[o] # "stop"
      BY <1>0, <2>2, <3>3 DEF NewOperation
    <3>4. ASSUME UNCHANGED cause PROVE cause'[o] # "stop"
      BY <1>0, <2>2, <3>4
    <3>5. \/ \E p \in Operations : StopCancel(p) \/ NewOperation(p)
          \/ \E c \in Contexts : Cancel(c, "finish") \/ Cancel(c, "request")
          \/ UNCHANGED cause
      BY Steps, BeginsLookup
         DEF Finish, Propagate, StopMark, CancelRequest, Set, Climb, AnswerValue, AnswerJudge,
             AnswerMark
    <3> QED
      BY <3>1, <3>2, <3>3, <3>4, <3>5
  <2> QED
    BY <2>1, <2>2
<1>3. verdict'[o] = "canceled" => o \in done' /\ cause'[o] # "stop"
  <2>1. CASE verdict[o] = "canceled"
    BY <1>1, <2>1 DEF Stops
  <2>2. CASE verdict[o] # "canceled"
    <3>1. ASSUME NEW g \in Goroutines, AnswerJudge(g), verdict'[o] = "canceled"
          PROVE  o \in done /\ cause[o] # "stop"
      <4>1. JudgeInv(g) /\ ~ClimbsFrom(g)
        BY <3>1 DEF AnswerJudge, Answers, Jobs
      <4>2. job[g].from = o /\ Found(g) = Nil
        BY <1>0, <2>2, <3>1, <4>1 DEF AnswerJudge, JudgeInv
      <4>3. o \in done
        BY <4>1, <4>2 DEF JudgeInv
      <4>4. ASSUME cause[o] = "stop" PROVE FALSE
        <5>1. values[o]["Stopped"] # 0 /\ values[o]["Stopped"] \in Nat
          BY <4>4, BoundAssumption DEF Stops, Levels, TypeOK, Keys
        <5>2. Found(g) = <<o, values[o]["Stopped"]>>
          BY <4>1, <4>2, <4>4, <5>1 DEF JudgeInv, Found, Entry
        <5> QED
          BY <4>2, <5>1, <5>2, NilIsNoEntry
      <4> QED
        BY <4>3, <4>4
    <3>2. (\E g \in Goroutines : AnswerJudge(g)) \/ UNCHANGED verdict
      BY Steps, BeginsLookup
         DEF NewOperation, Finish, Propagate, StopMark, StopCancel, CancelRequest, Set, Climb,
             AnswerValue, AnswerMark
    <3> QED
      BY <1>1, <2>2, <3>1, <3>2
  <2> QED
    BY <2>1, <2>2
<1>4. verdict'[o] = "stopped" => Marked(o)'
  <2>1. marked \subseteq marked'
    BY ValueSteps DEF NewOperation, Set
  <2>2. verdict[o] = "stopped" => Marked(o)
    BY DEF Stops
  <2>3. ASSUME NEW g \in Goroutines, AnswerJudge(g), verdict'[o] = "stopped", verdict[o] # "stopped"
        PROVE  Marked(o)
    <3>1. JudgeInv(g) /\ LookupInv(g)
      BY <2>3 DEF AnswerJudge, Answers, Jobs
    <3>2. job[g].from = o /\ Found(g) # Nil
      BY <1>0, <2>3, <3>1 DEF AnswerJudge, JudgeInv
    <3>3. job[g].at \in {o, Root} /\ values[job[g].at]["Stopped"] # 0
      BY <3>1, <3>2 DEF JudgeInv, LookupInv, Found, Entry
    <3>4. <<job[g].at, "Stopped">> \in marked
      BY <3>3 DEF MarksLand, Flags
    <3> QED
      BY <3>3, <3>4
  <2>4. (\E g \in Goroutines : AnswerJudge(g)) \/ UNCHANGED verdict
    BY Steps, BeginsLookup
       DEF NewOperation, Finish, Propagate, StopMark, StopCancel, CancelRequest, Set, Climb,
           AnswerValue, AnswerMark
  <2>5. Marked(o) => Marked(o)'
    BY <2>1
  <2> HIDE DEF Marked
  <2> QED
    BY <2>2, <2>3, <2>4, <2>5
<1> QED
  BY <1>2, <1>3, <1>4

LEMMA IInvInit == Init => IInv
<1> SUFFICES ASSUME Init PROVE IInv
  OBVIOUS
<1>1. Jobs
  BY DEF Init, Jobs, IdleJob
<1>2. Stops
  BY DEF Init, Stops
<1>3. MarksLand
  BY DEF Init, MarksLand, Keys, Flags
<1> QED
  BY <1>1, <1>2, <1>3, TypeInit, LevelsInit DEF IInv

LEMMA IInvNext == IInv /\ [Next]_vars => IInv'
<1> SUFFICES ASSUME IInv, [Next]_vars PROVE IInv'
  OBVIOUS
<1>1. CASE Next
  <2>1. Step
    BY <1>1 DEF Next
  <2> QED
    BY <1>1, <2>1, TypeNext, LevelsNext, JobsNext, StopsNext, MarksLandNext DEF IInv
<1>2. CASE UNCHANGED vars
  <2>1. TypeOK'
    BY <1>2 DEF IInv, TypeOK, LifeCycle, vars
  <2>2. Levels' /\ Stops' /\ MarksLand'
    BY <1>2 DEF IInv, Levels, Stops, MarksLand, vars
  <2>3. Jobs'
    BY <1>2 DEF IInv, Jobs, LookupInv, MarkInv, JudgeInv, Visible, Entry, vars
  <2> QED
    BY <2>1, <2>2, <2>3 DEF IInv
<1> QED
  BY <1>1, <1>2

\* Every state of the tree satisfies the inductive invariant.
THEOREM Invariant == Spec => []IInv
BY IInvInit, IInvNext, PTL DEF Spec

-----------------------------------------------------------------------------
(* What follows.                                                           *)

LEMMA LookupInvImplies == TypeOK /\ Levels /\ Jobs => LookupLinearizable
<1> SUFFICES ASSUME TypeOK, Levels, Jobs, NEW g \in Goroutines, Answers(g)
             PROVE  AnswerWasVisible(g) \/ (job[g].key = "App" /\ OvertakenBySet(g))
  BY DEF LookupLinearizable
<1> DEFINE from == job[g].from
           key == job[g].key
           now == Visible(values, from, key)
<1>1. LookupInv(g) /\ ~ClimbsFrom(g)
  BY DEF Answers, Jobs
<1>2. /\ from \in Contexts /\ key \in Keys /\ job[g].at \in {from, Root}
      /\ values \in [Contexts -> [Keys -> 0..MaxSets]]
  BY <1>1 DEF TypeOK, LookupInv
<1>3. ASSUME NEW c \in Contexts PROVE Entry(values, c, key) = Nil <=> values[c][key] = 0
  <2>1. values[c][key] \in Nat
    BY <1>2, BoundAssumption
  <2> QED
    BY <2>1, NilIsNoEntry DEF Entry
<1>4. now \in seen[g]
  BY <1>1 DEF LookupInv
<1>5. ASSUME Found(g) \in seen[g] PROVE AnswerWasVisible(g)
  BY <1>5 DEF AnswerWasVisible
<1>6. CASE job[g].at = from
  <2>1. values[from][key] # 0 \/ from = Root
    BY <1>1, <1>6 DEF ClimbsFrom
  <2>2. Found(g) = now
    BY <1>6, <2>1 DEF Found, Visible
  <2> QED
    BY <1>4, <1>5, <2>2
<1>7. CASE job[g].at # from
  <2>1. job[g].at = Root /\ from \in Operations /\ Found(g) = Entry(values, Root, key)
    BY <1>2, <1>7 DEF Found
  <2>2. ~job[g].shadowed /\ (Nil \in seen[g] \/ values[Root][key] # 0)
    BY <1>1, <1>7 DEF LookupInv
  <2>3. CASE values[from][key] = 0
    <3>1. Found(g) = now
      BY <2>1, <2>3 DEF Visible
    <3> QED
      BY <1>4, <1>5, <3>1
  <2>4. CASE values[Root][key] = 0
    BY <1>3, <1>5, <2>1, <2>2, <2>4
  <2>5. CASE values[from][key] # 0 /\ values[Root][key] # 0
    <3>1. Found(g) # Nil /\ now # Nil
      BY <1>2, <1>3, <2>1, <2>5 DEF Visible
    <3>2. CASE key \in Flags
      BY <1>4, <3>1, <3>2 DEF AnswerWasVisible
    <3>3. CASE key = "App"
      BY <2>1, <2>2, <2>5, <3>3 DEF OvertakenBySet
    <3>4. CASE key \in {"RequestContext", "OperationContext"}
      BY <2>1, <2>5, <3>4 DEF Levels
    <3> QED
      BY <1>2, <3>2, <3>3, <3>4 DEF Keys, Flags
  <2> QED
    BY <2>3, <2>4, <2>5
<1> QED
  BY <1>6, <1>7

LEMMA ShadowInvImplies == TypeOK /\ Jobs => ShadowingHolds
<1> SUFFICES ASSUME TypeOK, Jobs, NEW g \in Goroutines, Answers(g), job[g].shadowed
             PROVE  Found(g) # Nil /\ Found(g)[1] = job[g].from
  BY DEF ShadowingHolds
<1>1. LookupInv(g)
  BY DEF Answers, Jobs
<1>2. job[g].from \in Contexts /\ values[job[g].from][job[g].key] \in Nat
  BY BoundAssumption DEF TypeOK
<1>3. Found(g) = <<job[g].from, values[job[g].from][job[g].key]>>
  BY <1>1 DEF LookupInv, Found, Entry
<1> QED
  BY <1>2, <1>3, NilIsNoEntry

\* The types, and the life of an operation: set up before it is used, canceled
\* once it is finished.
THEOREM TypesHold == Spec => []TypeOK
BY Invariant, PTL DEF IInv

\* What a lookup says of a flag, set at one level or at both, was true at one
\* moment of it, however many goroutines set values meanwhile; to the keys of the
\* contexts its answer is exact, and a value of the application is at worst the
\* request's, when the operation got its own during the lookup.
THEOREM LookupsAreLinearizable == Spec => []LookupLinearizable
<1>1. IInv => LookupLinearizable
  BY LookupInvImplies DEF IInv
<1> QED
  BY <1>1, Invariant, PTL

\* Once an operation has a value, the request's value of the key stays hidden.
THEOREM ShadowingTheorem == Spec => []ShadowingHolds
<1>1. IInv => ShadowingHolds
  BY ShadowInvImplies DEF IInv
<1> QED
  BY <1>1, Invariant, PTL

\* The mark before the cancel suffices: whoever finds a context canceled by a
\* stop finds its mark, so that no stopped operation is answered as cut off; and
\* none is taken for stopped unless its own flag or the request's was set.
THEOREM StopsAreRecognised == Spec => []StopNotMistaken
<1>1. IInv => StopNotMistaken
  BY DEF IInv, Stops, StopNotMistaken
<1> QED
  BY <1>1, Invariant, PTL

\* A flag is set through an accessor or on the context itself: it stands where it
\* was meant to, and what the reader reports of no operation marks nothing.
THEOREM FlagsAreKept == Spec => []MarksLand
BY Invariant, PTL DEF IInv
=============================================================================
