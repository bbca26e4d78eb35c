------------------------- MODULE WsConnectionProofs -------------------------
(***************************************************************************)
(* Theorems about WsConnection, for every set of ids, every number of      *)
(* operations, every channel capacity and every option.                    *)
(***************************************************************************)
EXTENDS WsConnection, SequenceTheorems, TLAPS

USE DEF taskVars, reqVars, readerVars, chanVars, writerVars,
        NotReaderVars, NotTaskVars, NotWriterVars

-----------------------------------------------------------------------------
(* What is put on the channel.                                             *)

LEMMA MsgType ==
    ASSUME NEW k \in Kinds \cup CloseKinds, NEW t \in Tasks \cup {NoTask}
    PROVE  Msg(k, t) \in Message
BY DEF Msg, Message

LEMMA SingletonType ==
    ASSUME NEW m \in Message
    PROVE  <<m>> \in Seq(Message)
OBVIOUS

LEMMA PairType ==
    ASSUME NEW m \in Message, NEW n \in Message
    PROVE  <<m, n>> \in Seq(Message)
OBVIOUS

LEMMA ErrorMessagesType ==
    ASSUME NEW e, NEW t \in Tasks \cup {NoTask}
    PROVE  ErrorMessages(e, t) \in Seq(Message)
<1>1. CloseMessage(e) \in Message
  BY MsgType DEF CloseMessage, CloseKinds
<1>2. Msg("connection_error", t) \in Message /\ Msg("error", t) \in Message
  BY MsgType DEF Kinds
<1> QED  BY <1>1, <1>2, SingletonType, PairType DEF ErrorMessages

\* Replacing what a goroutine has to send keeps the type of pending.
LEMMA PendingType ==
    ASSUME pending \in [Goroutines -> Seq(Message)],
           NEW g \in Goroutines, NEW msgs \in Seq(Message),
           pending' = [pending EXCEPT ![g] = msgs]
    PROVE  pending' \in [Goroutines -> Seq(Message)]
OBVIOUS

LEMMA QueueType ==
    ASSUME TypeOK, NEW g \in Goroutines, NEW msgs \in Seq(Message), Queue(g, msgs)
    PROVE  pending' \in [Goroutines -> Seq(Message)]
BY PendingType DEF Queue, TypeOK

LEMMA OneMessageType ==
    ASSUME NEW k \in Kinds \cup CloseKinds, NEW t \in Tasks \cup {NoTask}
    PROVE  <<Msg(k, t)>> \in Seq(Message)
BY MsgType, SingletonType

LEMMA GoroutineNames ==
    /\ Tasks \subseteq Goroutines /\ Reader \in Goroutines /\ Timer \in Goroutines
    /\ \A t \in Tasks : t # Reader /\ t # Timer /\ t # NoTask
    /\ Reader # Timer
BY NameAssumption DEF Goroutines

-----------------------------------------------------------------------------
(* Type correctness.                                                       *)

LEMMA InitType == Init => TypeOK
<1> SUFFICES ASSUME Init PROVE TypeOK
  OBVIOUS
<1>1. <<>> \in Seq(Message) /\ <<>> \in Seq(Kinds) /\ Len(outgoing) <= ChanCap
  BY ChanCapAssumption DEF Init
<1> QED  BY <1>1 DEF Init, TypeOK, Pcs, ReaderPcs, Errors

LEMMA SendType ==
    ASSUME TypeOK, NEW g \in Goroutines, Send(g) \/ Drop(g) \/ SendPanics(g)
    PROVE  TypeOK'
<1>1. CASE Send(g)
  <2>1. pending[g] \in Seq(Message) /\ pending[g] # <<>> /\ outgoing \in Seq(Message)
    BY <1>1 DEF Send, TypeOK
  <2>2. Head(pending[g]) \in Message /\ Tail(pending[g]) \in Seq(Message)
    BY <2>1, HeadTailProperties
  <2>3. outgoing' \in Seq(Message) /\ Len(outgoing') = Len(outgoing) + 1
    BY <1>1, <2>1, <2>2, AppendProperties DEF Send
  <2>4. Len(outgoing') <= ChanCap
    BY <1>1, <2>1, <2>3, ChanCapAssumption, LenProperties DEF Send, HasRoom
  <2>5. pending' \in [Goroutines -> Seq(Message)]
    BY <1>1, <2>2 DEF Send, TypeOK
  <2> QED  BY <1>1, <2>3, <2>4, <2>5 DEF Send, TypeOK
<1>2. CASE Drop(g)
  <2>1. pending[g] \in Seq(Message) /\ pending[g] # <<>>
    BY <1>2 DEF Drop, TypeOK
  <2>2. Tail(pending[g]) \in Seq(Message)
    BY <2>1, HeadTailProperties
  <2>3. pending' \in [Goroutines -> Seq(Message)]
    BY <1>2, <2>2 DEF Drop, TypeOK
  <2> QED  BY <1>2, <2>3 DEF Drop, TypeOK
<1>3. CASE SendPanics(g)
  BY <1>3 DEF SendPanics, TypeOK
<1> QED  BY <1>1, <1>2, <1>3

LEMMA ReaderType ==
    ASSUME TypeOK, ReaderMessage \/ ReaderStep
    PROVE  TypeOK'
<1> USE GoroutineNames DEF Fail, ReaderPcs, Errors, EventErrors
<1>1. CASE ReadInit
  BY <1>1 DEF ReadInit, TypeOK
<1>2. CASE ReadTerminate
  <2>1. /\ rpc' \in ReaderPcs /\ failure' \in Errors /\ reqStopped' \in BOOLEAN
        /\ UNCHANGED <<taskVars, protocol, init, reqCanceled, target, NotReaderVars>>
    <3>1. CASE Fail("event") /\ UNCHANGED <<pending, reqStopped>>
      BY <1>2, <3>1 DEF ReadTerminate, TypeOK
    <3>2. CASE reqStopped' = TRUE /\ UNCHANGED <<rpc, failure>>
      BY <1>2, <3>2 DEF ReadTerminate, TypeOK
    <3> QED  BY <1>2, <3>1, <3>2 DEF ReadTerminate
  <2>2. pending' \in [Goroutines -> Seq(Message)]
    <3>1. <<CloseMessage("event")>> \in Seq(Message)
      BY OneMessageType DEF CloseMessage, CloseKinds
    <3>2. CASE UNCHANGED pending
      BY <3>2 DEF TypeOK
    <3>3. CASE Queue(Reader, <<CloseMessage("event")>>)
      BY <3>1, <3>3, QueueType
    <3> QED  BY <1>2, <3>2, <3>3 DEF ReadTerminate
  <2> QED  BY <2>1, <2>2 DEF TypeOK
<1>3. CASE ReadPing
  <2>1. pending' \in [Goroutines -> Seq(Message)]
    BY <1>3, OneMessageType, QueueType DEF ReadPing, Kinds
  <2> QED  BY <1>3, <2>1 DEF ReadPing, TypeOK
<1>4. CASE ReadMalformed \/ ReadFails
  BY <1>4 DEF ReadMalformed, ReadFails, TypeOK
<1>5. ASSUME NEW i \in Ids, ReadStart(i)
      PROVE  TypeOK'
  <2>1. UNCHANGED <<reqVars, pending, NotReaderVars>>
    BY <1>5 DEF ReadStart
  <2>2. CASE UNCHANGED <<taskVars, target>> /\ Fail("event")
    BY <2>1, <2>2 DEF TypeOK
  <2>3. CASE UNCHANGED taskVars /\ Fail("exists") /\ target' = operations[i]
    <3>1. target' \in Tasks \cup {NoTask}
      BY <2>3 DEF TypeOK
    <3> QED  BY <2>1, <2>3, <3>1 DEF TypeOK
  <2>4. ASSUME NEW t \in Tasks, StartTask(i, t)
        PROVE  TypeOK'
    <3>1. /\ operations' \in [Ids -> Tasks \cup {NoTask}]
          /\ idOf' \in [Tasks -> Ids \cup {NoTask}]
          /\ pc' \in [Tasks -> Pcs]
      BY <2>4 DEF StartTask, TypeOK, Pcs
    <3>2. UNCHANGED <<stopped, executed, canceled, err, readerVars>>
      BY <2>4 DEF StartTask
    <3> QED  BY <2>1, <3>1, <3>2 DEF TypeOK
  <2> QED  BY <1>5, <2>2, <2>3, <2>4 DEF ReadStart
<1>6. ASSUME NEW i \in Ids, ReadStop(i)
      PROVE  TypeOK'
  BY <1>6 DEF ReadStop, TypeOK
<1>7. CASE Signal \/ StopMark \/ StopCancel
  BY <1>7 DEF Signal, StopMark, StopCancel, TypeOK
<1>8. CASE Initialise
  <2>1. CASE UNCHANGED pending
    BY <1>8, <2>1 DEF Initialise, TypeOK
  <2>2. CASE Queue(Reader, <<Msg("ack", NoTask)>>) /\ rpc' = "read" /\ UNCHANGED failure
    <3>1. pending' \in [Goroutines -> Seq(Message)]
      BY <2>2, OneMessageType, QueueType DEF Kinds
    <3> QED  BY <1>8, <2>2, <3>1 DEF Initialise, TypeOK
  <2> QED  BY <1>8, <2>1, <2>2 DEF Initialise
<1>9. CASE HandleReaderError
  <2>1. pending' \in [Goroutines -> Seq(Message)]
    BY <1>9, ErrorMessagesType, QueueType DEF HandleReaderError
  <2> QED  BY <1>9, <2>1 DEF HandleReaderError, TypeOK
<1>10. CASE CancelRequest \/ CloseOutgoing
  BY <1>10 DEF CancelRequest, CloseOutgoing, TypeOK
<1> QED
  BY <1>1, <1>2, <1>3, <1>4, <1>5, <1>6, <1>7, <1>8, <1>9, <1>10
     DEF ReaderMessage, ReaderStep

LEMMA TimerType ==
    ASSUME TypeOK, TimerFires \/ TimerCanceled \/ TimerReturns
    PROVE  TypeOK'
<1>1. CASE TimerFires
  <2>1. pending' \in [Goroutines -> Seq(Message)]
    BY <1>1, GoroutineNames, ErrorMessagesType, QueueType DEF TimerFires
  <2> QED  BY <1>1, <2>1 DEF TimerFires, TypeOK
<1>2. CASE TimerCanceled \/ TimerReturns
  BY <1>2 DEF TimerCanceled, TimerReturns, TypeOK
<1> QED  BY <1>1, <1>2

LEMMA TaskType ==
    ASSUME TypeOK, NEW t \in Tasks, TaskStep(t)
    PROVE  TypeOK'
<1> USE GoroutineNames DEF Goto, Pcs, Errors, EventErrors
<1>1. CASE Unmarshal(t) \/ Prepare(t)
  <2>1. pc' \in [Tasks -> Pcs] /\ err' \in [Tasks -> Errors] /\ executed' \in [Tasks -> BOOLEAN]
    <3>1. CASE Unmarshal(t)
      BY <3>1 DEF Unmarshal, TypeOK
    <3>2. CASE Prepare(t)
      BY <3>2 DEF Prepare, TypeOK
    <3> QED  BY <1>1, <3>1, <3>2
  <2>2. UNCHANGED <<operations, idOf, stopped, canceled, pending, NotTaskVars>>
    BY <1>1 DEF Unmarshal, Prepare
  <2> QED  BY <2>1, <2>2 DEF TypeOK
<1>2. ASSUME NEW bad \in BOOLEAN, ResultArrives(t, bad)
      PROVE  TypeOK'
  <2>1. pending' \in [Goroutines -> Seq(Message)]
    <3>1. CASE UNCHANGED pending
      BY <3>1 DEF TypeOK
    <3>2. CASE Queue(t, <<Msg("data", t)>>)
      BY <3>2, OneMessageType, QueueType DEF Kinds
    <3> QED  BY <1>2, <3>1, <3>2 DEF ResultArrives
  <2>2. pc' \in [Tasks -> Pcs] /\ err' \in [Tasks -> Errors]
    <3>1. CASE bad
      <4>1. pc' = [pc EXCEPT ![t] = "finish"] /\ err' = [err EXCEPT ![t] = "other"]
        BY <1>2, <3>1, Zenon DEF ResultArrives
      <4> QED  BY <4>1 DEF TypeOK
    <3>2. CASE ~bad
      <4>1. UNCHANGED <<pc, err>>
        BY <1>2, <3>2 DEF ResultArrives
      <4> QED  BY <4>1 DEF TypeOK
    <3> QED  BY <3>1, <3>2
  <2>3. UNCHANGED <<operations, idOf, stopped, executed, canceled, NotTaskVars>>
    BY <1>2 DEF ResultArrives
  <2> QED  BY <2>1, <2>2, <2>3 DEF TypeOK
<1>3. CASE StreamEnds(t) \/ ContextDone(t)
  BY <1>3 DEF StreamEnds, ContextDone, TypeOK
<1>4. CASE Finish(t)
  <2>1. pending' \in [Goroutines -> Seq(Message)]
    <3>1. CASE UNCHANGED pending
      BY <3>1 DEF TypeOK
    <3>2. CASE Queue(t, ErrorMessages(err[t], t))
      BY <3>2, ErrorMessagesType, QueueType
    <3> QED  BY <1>4, <3>1, <3>2 DEF Finish
  <2>2. stopped' \in [Tasks -> BOOLEAN]
    BY <1>4 DEF Finish, TypeOK
  <2> QED  BY <1>4, <2>1, <2>2 DEF Finish, TypeOK
<1>5. CASE Complete(t)
  <2>1. pending' \in [Goroutines -> Seq(Message)]
    <3>1. CASE UNCHANGED pending
      BY <3>1 DEF TypeOK
    <3>2. CASE Queue(t, <<Msg("complete", t)>>)
      BY <3>2, OneMessageType, QueueType DEF Kinds
    <3> QED  BY <1>5, <3>1, <3>2 DEF Complete
  <2> QED  BY <1>5, <2>1 DEF Complete, TypeOK
<1>6. CASE CancelOperation(t) \/ Delete(t)
  BY <1>6 DEF CancelOperation, Delete, TypeOK
<1> QED  BY <1>1, <1>2, <1>3, <1>4, <1>5, <1>6 DEF TaskStep

LEMMA RecordedType ==
    ASSUME NEW s \in Seq(Kinds), NEW k \in Kinds
    PROVE  Recorded(s, k) \in Seq(Kinds)
BY AppendProperties DEF Recorded

LEMMA WriterType ==
    ASSUME TypeOK, WriterStep \/ KeepaliveFails \/ PeerLeaves \/ ParentCancel
    PROVE  TypeOK'
<1>1. ASSUME Receive
      PROVE  /\ Head(outgoing) \in Message
             /\ outgoing' \in Seq(Message) /\ Len(outgoing') <= ChanCap
  <2>1. outgoing \in Seq(Message) /\ outgoing # <<>>
    BY <1>1 DEF Receive, TypeOK
  <2>2. Head(outgoing) \in Message /\ outgoing' \in Seq(Message) /\ Len(outgoing') = Len(outgoing) - 1
    BY <1>1, <2>1, HeadTailProperties DEF Receive
  <2> QED  BY <2>1, <2>2, LenProperties, ChanCapAssumption DEF TypeOK
<1>2. CASE WriteOk
  <2>1. Receive
    BY <1>2 DEF WriteOk
  <2>2. Head(outgoing).task # NoTask => Head(outgoing).task \in Tasks
    BY <1>1, <2>1 DEF Message
  <2>3. Head(outgoing).kind \in Kinds
    BY <1>1, <1>2, <2>1 DEF WriteOk, Message, IsClose
  <2>4. delivered' \in [Tasks -> Seq(Kinds)]
    <3>1. CASE UNCHANGED delivered
      BY <3>1 DEF TypeOK
    <3>2. CASE Head(outgoing).task # NoTask /\ ws # "broken"
      <4>1. Recorded(delivered[Head(outgoing).task], Head(outgoing).kind) \in Seq(Kinds)
        BY <2>2, <2>3, <3>2, RecordedType DEF TypeOK
      <4> QED  BY <1>2, <2>2, <3>2, <4>1 DEF WriteOk, TypeOK
    <3> QED  BY <1>2, <3>1, <3>2 DEF WriteOk
  <2>5. notices' \subseteq {"ack", "timeout"}
    BY <1>2 DEF WriteOk, Noted, TypeOK
  <2> QED  BY <1>1, <1>2, <2>1, <2>4, <2>5 DEF WriteOk, Receive, TypeOK
<1>3. CASE WriteFails \/ WriteClose
  <2>1. Receive
    BY <1>3 DEF WriteFails, WriteClose
  <2>2. notices' \subseteq {"ack", "timeout"} /\ delivered' = delivered /\ ws' = "closed"
    BY <1>3 DEF WriteFails, WriteClose, Noted, TypeOK
  <2> QED  BY <1>1, <2>1, <2>2 DEF Receive, TypeOK
<1>4. CASE WriterExits \/ KeepaliveFails \/ PeerLeaves \/ ParentCancel
  BY <1>4 DEF WriterExits, KeepaliveFails, PeerLeaves, ParentCancel, TypeOK
<1> QED  BY <1>2, <1>3, <1>4 DEF WriterStep

LEMMA TypeStep == TypeOK /\ [Next]_vars => TypeOK'
<1> SUFFICES ASSUME TypeOK, [Next]_vars PROVE TypeOK'
  OBVIOUS
<1>1. CASE UNCHANGED vars
  BY <1>1 DEF vars, TypeOK
<1>2. CASE Step
  BY <1>2, SendType, ReaderType, TimerType, TaskType, WriterType DEF Step
<1> QED  BY <1>1, <1>2 DEF Next

\* Every reachable state has the type TypeOK: in particular the buffer of
\* req.outgoing never holds more than its capacity.
THEOREM TypeCorrect == Spec => []TypeOK
<1> QED  BY InitType, TypeStep, PTL DEF Spec

-----------------------------------------------------------------------------
(* The operations table.                                                   *)

\* A step that moves operation goroutines without starting or ending any.
LEMMA TableFrame ==
    ASSUME TypeOK, TableConsistent, UNCHANGED <<operations, idOf>>,
           \A t \in Tasks : Live(t)' <=> Live(t)
    PROVE  TableConsistent'
<1>1. \A i \in Ids : operations[i] # NoTask => operations[i] \in Tasks
  BY DEF TypeOK
<1> QED  BY <1>1 DEF TableConsistent, Live

LEMMA TableStart ==
    ASSUME TypeOK, TableConsistent, NEW i \in Ids, NEW t \in Tasks,
           ~IdInUse(i), StartTask(i, t)
    PROVE  TableConsistent'
<1>1. /\ operations' = [operations EXCEPT ![i] = t]
      /\ idOf' = [idOf EXCEPT ![t] = i]
      /\ pc' = [pc EXCEPT ![t] = "unmarshal"]
      /\ pc[t] = "idle" /\ operations[i] = NoTask
  BY DEF StartTask, IdInUse
<1>2. \A u \in Tasks : u # t => (Live(u)' <=> Live(u)) /\ idOf'[u] = idOf[u]
  BY <1>1 DEF TypeOK, Live
<1>3. Live(t)' /\ ~Live(t) /\ idOf'[t] = i
  BY <1>1 DEF TypeOK, Live
<1> USE DEF Live
<1>4. ASSUME NEW j \in Ids, operations'[j] # NoTask
      PROVE  pc'[operations'[j]] \notin {"idle", "done"} /\ idOf'[operations'[j]] = j
  <2>1. CASE j = i
    BY <1>1, <1>3, <2>1 DEF TypeOK
  <2>2. CASE j # i
    <3>1. operations'[j] = operations[j] /\ operations[j] # NoTask
      BY <1>1, <1>4, <2>2 DEF TypeOK
    <3>2. operations[j] \in Tasks /\ Live(operations[j]) /\ idOf[operations[j]] = j
      BY <3>1 DEF TypeOK, TableConsistent
    <3>3. operations[j] # t
      BY <1>3, <3>2
    <3> QED  BY <1>2, <3>1, <3>2, <3>3
  <2> QED  BY <2>1, <2>2
<1>5. ASSUME NEW u \in Tasks, Live(u)'
      PROVE  idOf'[u] \in Ids /\ operations'[idOf'[u]] = u
  <2>1. CASE u = t
    BY <1>1, <1>3, <2>1 DEF TypeOK
  <2>2. CASE u # t
    <3>1. Live(u) /\ idOf'[u] = idOf[u]
      BY <1>2, <1>5, <2>2
    <3>2. idOf[u] \in Ids /\ operations[idOf[u]] = u /\ u # NoTask
      BY <3>1, NameAssumption DEF TableConsistent
    <3> QED  BY <1>1, <3>1, <3>2 DEF TypeOK
  <2> QED  BY <2>1, <2>2
<1> QED  BY <1>4, <1>5 DEF TableConsistent, Live

LEMMA TableDelete ==
    ASSUME TypeOK, TableConsistent, NEW t \in Tasks, Delete(t)
    PROVE  TableConsistent'
<1>1. /\ operations' = [operations EXCEPT ![idOf[t]] = NoTask]
      /\ pc' = [pc EXCEPT ![t] = "done"] /\ pc[t] = "delete" /\ idOf' = idOf
  BY DEF Delete, Goto
<1>2. idOf[t] \in Ids /\ operations[idOf[t]] = t
  BY <1>1 DEF TableConsistent, Live
<1>3. ~Live(t)' /\ \A u \in Tasks : u # t => (Live(u)' <=> Live(u))
  BY <1>1 DEF TypeOK, Live
<1> USE DEF Live
<1>4. ASSUME NEW j \in Ids, operations'[j] # NoTask
      PROVE  pc'[operations'[j]] \notin {"idle", "done"} /\ idOf'[operations'[j]] = j
  <2>1. j # idOf[t] /\ operations'[j] = operations[j]
    BY <1>1, <1>4 DEF TypeOK
  <2>2. operations[j] \in Tasks /\ Live(operations[j]) /\ idOf[operations[j]] = j
    BY <1>4, <2>1 DEF TypeOK, TableConsistent
  <2>3. operations[j] # t
    BY <2>1, <2>2
  <2> QED  BY <1>1, <1>3, <2>1, <2>2, <2>3
<1>5. ASSUME NEW u \in Tasks, Live(u)'
      PROVE  idOf'[u] \in Ids /\ operations'[idOf'[u]] = u
  <2>1. u # t /\ Live(u)
    BY <1>3, <1>5
  <2>2. idOf[u] \in Ids /\ operations[idOf[u]] = u
    BY <2>1 DEF TableConsistent
  <2>3. idOf[u] # idOf[t]
    BY <1>2, <2>1, <2>2
  <2> QED  BY <1>1, <2>2, <2>3 DEF TypeOK
<1> QED  BY <1>4, <1>5 DEF TableConsistent, Live

\* The other steps of an operation goroutine keep it alive.
LEMMA TaskStaysLive ==
    ASSUME TypeOK, NEW t \in Tasks, TaskStep(t), ~Delete(t)
    PROVE  /\ UNCHANGED <<operations, idOf>>
           /\ \A u \in Tasks : Live(u)' <=> Live(u)
<1>1. CASE Unmarshal(t) \/ Prepare(t)
  BY <1>1 DEF Unmarshal, Prepare, Goto, Live, TypeOK
<1>2. ASSUME NEW bad \in BOOLEAN, ResultArrives(t, bad)
      PROVE  /\ UNCHANGED <<operations, idOf>>
             /\ \A u \in Tasks : Live(u)' <=> Live(u)
  <2>1. pc[t] = "results" /\ (pc' = pc \/ pc' = [pc EXCEPT ![t] = "finish"])
    BY <1>2, Zenon DEF ResultArrives, Goto
  <2>2. UNCHANGED <<operations, idOf>>
    BY <1>2 DEF ResultArrives
  <2> QED  BY <2>1, <2>2 DEF Live, TypeOK
<1>3. CASE StreamEnds(t) \/ ContextDone(t) \/ Finish(t) \/ Complete(t) \/ CancelOperation(t)
  <2>1. /\ UNCHANGED <<operations, idOf>>
        /\ pc[t] \notin {"idle", "done"}
        /\ \E l \in Pcs \ {"idle", "done"} : pc' = [pc EXCEPT ![t] = l]
    BY <1>3, Zenon DEF StreamEnds, ContextDone, Finish, Complete, CancelOperation, Goto, Pcs
  <2> QED  BY <2>1 DEF Live, TypeOK
<1> QED  BY <1>1, <1>2, <1>3 DEF TaskStep

LEMMA TableStep == TypeOK /\ TableConsistent /\ [Next]_vars => TableConsistent'
<1> SUFFICES ASSUME TypeOK, TableConsistent, [Next]_vars PROVE TableConsistent'
  OBVIOUS
<1>1. CASE UNCHANGED <<operations, idOf, pc>>
  <2>1. \A t \in Tasks : Live(t)' <=> Live(t)
    BY <1>1 DEF Live
  <2> QED  BY <1>1, <2>1, TableFrame
<1>2. ASSUME NEW i \in Ids, ReadStart(i)
      PROVE  TableConsistent'
  <2>1. CASE UNCHANGED taskVars
    BY <1>1, <2>1
  <2>2. ASSUME NEW t \in Tasks, ~IdInUse(i), StartTask(i, t)
        PROVE  TableConsistent'
    BY <2>2, TableStart
  <2> QED  BY <1>2, <2>1, <2>2 DEF ReadStart
<1>3. ASSUME NEW t \in Tasks, TaskStep(t)
      PROVE  TableConsistent'
  BY <1>3, TableDelete, TaskStaysLive, TableFrame
<1>4. CASE (ReaderMessage /\ ~(\E i \in Ids : ReadStart(i))) \/ ReaderStep
  BY <1>1, <1>4 DEF ReaderMessage, ReaderStep, ReadInit, ReadTerminate, ReadPing, ReadMalformed,
        ReadStop, Signal, Initialise, StopMark, StopCancel, ReadFails, HandleReaderError,
        CancelRequest, CloseOutgoing
<1>5. CASE TimerFires \/ TimerCanceled \/ TimerReturns
  BY <1>1, <1>5 DEF TimerFires, TimerCanceled, TimerReturns
<1>6. CASE \E g \in Goroutines : Send(g) \/ Drop(g) \/ SendPanics(g)
  BY <1>1, <1>6 DEF Send, Drop, SendPanics
<1>7. CASE WriterStep \/ KeepaliveFails \/ PeerLeaves \/ ParentCancel
  BY <1>1, <1>7 DEF WriterStep, WriteOk, WriteFails, WriteClose, Receive, WriterExits,
        KeepaliveFails, PeerLeaves, ParentCancel
<1>8. CASE UNCHANGED vars
  BY <1>1, <1>8 DEF vars
<1> QED  BY <1>2, <1>3, <1>4, <1>5, <1>6, <1>7, <1>8 DEF Next, Step, ReaderMessage

\* In every reachable state the operations table holds exactly the
\* operations under way, each under its own id.
THEOREM TableAlwaysConsistent == Spec => []TableConsistent
<1>1. Init => TableConsistent
  BY DEF Init, TableConsistent, Live
<1> QED  BY <1>1, InitType, TypeStep, TableStep, PTL DEF Spec

-----------------------------------------------------------------------------
(* The end of a connection.                                                *)

\* Goroutines have sent all they had by the time the channel is closed; what
\* makes this inductive is how far each of them must be to have sent it.
ReaderDrained == rpc \in {"wait", "done"} => reqCanceled /\ Idle(Reader)
TasksDrained  == \A t \in Tasks : pc[t] \in {"idle", "delete", "done"} => Idle(t)
TimerOff      == ~ConnectTimeout => timer = "off" /\ Idle(Timer)
ClosedLast    == (closed => rpc = "done") /\ (rpc = "done" => AllTasksDone)
WriterLast    == writer = "done" => closed /\ outgoing = <<>>

ShutdownInv == ReaderDrained /\ TasksDrained /\ TimerOff /\ ClosedLast /\ WriterLast

LEMMA ShutdownInit == Init => ShutdownInv
BY GoroutineNames DEF Init, ShutdownInv, ReaderDrained, TasksDrained, TimerOff, ClosedLast,
      WriterLast, AllTasksDone, Live, Idle

\* Putting a sequence of messages in front of one goroutine leaves what the
\* others have to send alone.
LEMMA QueueOthers ==
    ASSUME TypeOK, NEW g \in Goroutines, NEW msgs, Queue(g, msgs)
    PROVE  \A h \in Goroutines \ {g} : Idle(h)' <=> Idle(h)
BY DEF Queue, Idle, TypeOK

\* The reader closes last, and starts operations only before that.
LEMMA ShutdownReader ==
    ASSUME TypeOK, ShutdownInv, ReaderMessage \/ ReaderStep
    PROVE  ShutdownInv'
<1> USE GoroutineNames DEF Fail
<1>1. \A g \in Goroutines \ {Reader} : Idle(g)' <=> Idle(g)
  <2>1. CASE UNCHANGED pending
    BY <2>1 DEF Idle
  <2>2. ASSUME NEW msgs, Queue(Reader, msgs)
        PROVE  \A g \in Goroutines \ {Reader} : Idle(g)' <=> Idle(g)
    BY <2>2, QueueOthers
  <2> QED
    BY <2>1, <2>2 DEF ReaderMessage, ReaderStep, ReadInit, ReadTerminate, ReadPing,
       ReadMalformed, ReadStart, ReadStop, Signal, Initialise, StopMark, StopCancel, ReadFails,
       HandleReaderError, CancelRequest, CloseOutgoing
<1>2. \/ /\ rpc \notin {"wait", "done"} /\ rpc' \notin {"wait", "done"} /\ UNCHANGED closed
      \/ CancelRequest
      \/ CloseOutgoing
  BY DEF ReaderMessage, ReaderStep, Reading, ReadInit, ReadTerminate, ReadPing,
     ReadMalformed, ReadStart, StartTask, ReadStop, Signal, Initialise, StopMark, StopCancel,
     ReadFails, HandleReaderError
<1>3. UNCHANGED <<writer, outgoing>>
  BY DEF ReaderMessage, ReaderStep, ReadInit, ReadTerminate, ReadPing,
     ReadMalformed, ReadStart, ReadStop, Signal, Initialise, StopMark, StopCancel, ReadFails,
     HandleReaderError, CancelRequest, CloseOutgoing
<1>4. ReaderDrained'
  <2>1. CASE CancelRequest
    BY <2>1 DEF CancelRequest, ReaderDrained, Idle
  <2>2. CASE CloseOutgoing
    BY <2>2 DEF CloseOutgoing, ReaderDrained, ShutdownInv, Idle
  <2> QED  BY <1>2, <2>1, <2>2 DEF ReaderDrained
<1>5. TasksDrained'
  <2>1. UNCHANGED pc \/ \E t \in Tasks : pc[t] = "idle" /\ pc' = [pc EXCEPT ![t] = "unmarshal"]
    BY DEF ReaderMessage, ReaderStep, ReadInit, ReadTerminate, ReadPing,
       ReadMalformed, ReadStart, StartTask, ReadStop, Signal, Initialise, StopMark, StopCancel,
       ReadFails, HandleReaderError, CancelRequest, CloseOutgoing
  <2>2. \A t \in Tasks : pc'[t] \in {"idle", "delete", "done"} => pc[t] = pc'[t]
    BY <2>1 DEF TypeOK
  <2> QED  BY <1>1, <2>2 DEF TasksDrained, ShutdownInv
<1>6. TimerOff'
  <2>1. UNCHANGED timer \/ timer = "waiting"
    BY DEF ReaderMessage, ReaderStep, ReadInit, ReadTerminate, ReadPing,
       ReadMalformed, ReadStart, ReadStop, Signal, Initialise, StopMark, StopCancel, ReadFails,
       HandleReaderError, CancelRequest, CloseOutgoing
  <2> QED  BY <1>1, <2>1 DEF TimerOff, ShutdownInv
<1>7. ClosedLast'
  <2>1. CASE CancelRequest
    BY <2>1 DEF CancelRequest, ClosedLast, ShutdownInv
  <2>2. CASE CloseOutgoing
    BY <2>2 DEF CloseOutgoing, ClosedLast, AllTasksDone, Live
  <2> QED  BY <1>2, <2>1, <2>2 DEF ClosedLast, ShutdownInv
<1>8. WriterLast'
  <2>1. closed => closed'
    BY <1>2 DEF CancelRequest, CloseOutgoing
  <2> QED  BY <1>3, <2>1 DEF WriterLast, ShutdownInv
<1> QED  BY <1>4, <1>5, <1>6, <1>7, <1>8 DEF ShutdownInv

LEMMA ShutdownTask ==
    ASSUME TypeOK, ShutdownInv, NEW t \in Tasks, TaskStep(t)
    PROVE  ShutdownInv'
<1> USE GoroutineNames
<1>1. \A g \in Goroutines \ {t} : Idle(g)' <=> Idle(g)
  <2>1. CASE UNCHANGED pending
    BY <2>1 DEF Idle
  <2>2. ASSUME NEW msgs, Queue(t, msgs)
        PROVE  \A g \in Goroutines \ {t} : Idle(g)' <=> Idle(g)
    BY <2>2, QueueOthers
  <2> QED
    BY <2>1, <2>2 DEF TaskStep, Unmarshal, Prepare, ResultArrives, StreamEnds, ContextDone,
       Finish, Complete, CancelOperation, Delete
<1>2. UNCHANGED NotTaskVars
  BY DEF TaskStep, Unmarshal, Prepare, ResultArrives, StreamEnds, ContextDone,
     Finish, Complete, CancelOperation, Delete
<1>3. /\ pc[t] \notin {"idle", "done"}
      /\ \E l \in Pcs \ {"idle"} : pc' = [pc EXCEPT ![t] = l]
  <2>1. ASSUME NEW bad \in BOOLEAN, ResultArrives(t, bad)
        PROVE  /\ pc[t] \notin {"idle", "done"}
               /\ \E l \in Pcs \ {"idle"} : pc' = [pc EXCEPT ![t] = l]
    <3>1. pc[t] = "results" /\ (pc' = pc \/ pc' = [pc EXCEPT ![t] = "finish"])
      BY <2>1, Zenon DEF ResultArrives, Goto
    <3>2. pc = [pc EXCEPT ![t] = pc[t]]
      BY DEF TypeOK
    <3> QED  BY <3>1, <3>2 DEF Pcs
  <2>2. CASE ~(\E bad \in BOOLEAN : ResultArrives(t, bad))
    BY <2>2 DEF TaskStep, Unmarshal, Prepare, StreamEnds, ContextDone,
       Finish, Complete, CancelOperation, Delete, Goto, Pcs
  <2> QED  BY <2>1, <2>2
<1>4. \A u \in Tasks \ {t} : pc'[u] = pc[u]
  BY <1>3 DEF TypeOK
<1>5. pc'[t] \in {"delete", "done"} => Idle(t)'
  <2>1. CASE CancelOperation(t)
    BY <2>1 DEF CancelOperation, Idle
  <2>2. CASE Delete(t)
    BY <2>2 DEF Delete, Idle, ShutdownInv, TasksDrained
  <2>3. ASSUME NEW bad \in BOOLEAN, ResultArrives(t, bad)
        PROVE  pc'[t] \notin {"delete", "done"}
    <3>1. pc[t] = "results" /\ (pc' = pc \/ pc' = [pc EXCEPT ![t] = "finish"])
      BY <2>3, Zenon DEF ResultArrives, Goto
    <3> QED  BY <3>1 DEF TypeOK
  <2>4. CASE Unmarshal(t) \/ Prepare(t) \/ StreamEnds(t) \/ ContextDone(t) \/ Finish(t)
              \/ Complete(t)
    BY <2>4 DEF Unmarshal, Prepare, StreamEnds, ContextDone, Finish, Complete, Goto, TypeOK
  <2> QED  BY <2>1, <2>2, <2>3, <2>4 DEF TaskStep
<1>6. TasksDrained'
  <2>1. pc'[t] # "idle"
    BY <1>3 DEF TypeOK
  <2> QED  BY <1>1, <1>4, <1>5, <2>1 DEF TasksDrained, ShutdownInv
<1>7. rpc # "done"
  BY <1>3 DEF ShutdownInv, ClosedLast, AllTasksDone, Live
<1>8. ReaderDrained' /\ TimerOff' /\ ClosedLast' /\ WriterLast'
  BY <1>1, <1>2, <1>7 DEF ShutdownInv, ReaderDrained, TimerOff, ClosedLast, WriterLast
<1> QED  BY <1>6, <1>8 DEF ShutdownInv

\* A send never gives a goroutine more to send.
LEMMA ShutdownSend ==
    ASSUME TypeOK, ShutdownInv, NEW g \in Goroutines, Send(g) \/ Drop(g) \/ SendPanics(g)
    PROVE  ShutdownInv'
<1>1. \A h \in Goroutines : Idle(h) => Idle(h)'
  BY DEF Send, Drop, SendPanics, Idle, TypeOK
<1>2. closed => UNCHANGED outgoing
  BY DEF Send, Drop, SendPanics
<1>3. UNCHANGED <<taskVars, reqVars, readerVars, timer, closed, writerVars>>
  BY DEF Send, Drop, SendPanics
<1>4. AllTasksDone => AllTasksDone'
  BY <1>3 DEF AllTasksDone, Live
<1> QED
  BY <1>1, <1>2, <1>3, <1>4, GoroutineNames
     DEF ShutdownInv, ReaderDrained, TasksDrained, TimerOff, ClosedLast, WriterLast

LEMMA ShutdownOthers ==
    ASSUME TypeOK, ShutdownInv,
           \/ TimerFires \/ TimerCanceled \/ TimerReturns
           \/ WriterStep \/ KeepaliveFails \/ PeerLeaves \/ ParentCancel
    PROVE  ShutdownInv'
<1> USE GoroutineNames
<1>1. CASE TimerFires \/ TimerCanceled \/ TimerReturns
  <2>1. \A t \in Tasks \cup {Reader} : Idle(t)' <=> Idle(t)
    BY <1>1, QueueOthers DEF TimerFires, TimerCanceled, TimerReturns, Idle
  <2>2. timer # "off" /\ UNCHANGED <<taskVars, reqVars, readerVars, chanVars, writerVars>>
    BY <1>1 DEF TimerFires, TimerCanceled, TimerReturns
  <2> QED
    BY <2>1, <2>2 DEF ShutdownInv, ReaderDrained, TasksDrained, TimerOff, ClosedLast,
       WriterLast, AllTasksDone, Live
<1>2. CASE WriterStep \/ KeepaliveFails \/ PeerLeaves
  <2>1. UNCHANGED NotWriterVars
    BY <1>2 DEF WriterStep, WriteOk, WriteFails, WriteClose, Receive, WriterExits,
       KeepaliveFails, PeerLeaves
  <2>2. writer' = "done" => closed /\ outgoing' = <<>>
    BY <1>2 DEF WriterStep, WriteOk, WriteFails, WriteClose, Receive, WriterExits,
       KeepaliveFails, PeerLeaves, ShutdownInv, WriterLast
  <2> QED
    BY <2>1, <2>2 DEF ShutdownInv, ReaderDrained, TasksDrained, TimerOff, ClosedLast,
       WriterLast, AllTasksDone, Live, Idle
<1>3. CASE ParentCancel
  BY <1>3 DEF ParentCancel, ShutdownInv, ReaderDrained, TasksDrained, TimerOff, ClosedLast,
     WriterLast, AllTasksDone, Live, Idle
<1> QED  BY <1>1, <1>2, <1>3

LEMMA ShutdownStep == TypeOK /\ ShutdownInv /\ [Next]_vars => ShutdownInv'
<1> SUFFICES ASSUME TypeOK, ShutdownInv, [Next]_vars PROVE ShutdownInv'
  OBVIOUS
<1>1. CASE UNCHANGED vars
  BY <1>1 DEF vars, ShutdownInv, ReaderDrained, TasksDrained, TimerOff, ClosedLast,
     WriterLast, AllTasksDone, Live, Idle
<1>2. CASE Step
  BY <1>2, ShutdownReader, ShutdownTask, ShutdownSend, ShutdownOthers DEF Step
<1> QED  BY <1>1, <1>2 DEF Next

\* Nobody waits for the timer: once the channel is closed it alone may have
\* something to send.
LEMMA OnlyTimerSendsAfterClose ==
    ASSUME ShutdownInv, closed
    PROVE  \A g \in Goroutines \ {Timer} : Idle(g)
BY DEF ShutdownInv, ReaderDrained, TasksDrained, ClosedLast, AllTasksDone, Live, Goroutines

\* The timer sends what it queued when it fired; and while it has not seen the
\* reader's signal, a reader that got a connection_init waits to give it.
TimerLate ==
    /\ ~Idle(Timer) => timer = "fired"
    /\ timer \in {"waiting", "fired"} /\ init => rpc = "signal"

LEMMA TimerLateInit == Init => TimerLate
BY GoroutineNames DEF Init, TimerLate, Idle

LEMMA TimerLateStep == TypeOK /\ TimerOff /\ TimerLate /\ [Next]_vars => TimerLate'
<1> SUFFICES ASSUME TypeOK, TimerOff, TimerLate, Step \/ UNCHANGED vars PROVE TimerLate'
  BY DEF Next
<1> USE GoroutineNames DEF TimerLate
<1>1. ASSUME UNCHANGED <<timer, init, rpc>>, Idle(Timer) => Idle(Timer)' PROVE TimerLate'
  BY <1>1
<1>2. CASE ReaderMessage \/ ReaderStep
  <2>1. Idle(Timer)' <=> Idle(Timer)
    <3>1. CASE UNCHANGED pending
      BY <3>1 DEF Idle
    <3>2. ASSUME NEW msgs, Queue(Reader, msgs) PROVE Idle(Timer)' <=> Idle(Timer)
      BY <3>2, QueueOthers
    <3> QED
      BY <1>2, <3>1, <3>2 DEF ReaderMessage, ReaderStep, ReadInit, ReadTerminate, ReadPing,
         ReadMalformed, ReadStart, ReadStop, Signal, Initialise, StopMark, StopCancel, ReadFails,
         HandleReaderError, CancelRequest, CloseOutgoing
  <2>2. CASE ReadInit
    BY <2>1, <2>2 DEF ReadInit, Reading, Fail, TimerOff
  <2>3. CASE Signal
    BY <2>1, <2>3 DEF Signal, Idle
  <2>4. CASE ~ReadInit /\ ~Signal
    <3>1. rpc # "signal" /\ UNCHANGED <<timer, init>>
      BY <1>2, <2>4 DEF ReaderMessage, ReaderStep, Reading, ReadTerminate, ReadPing,
         ReadMalformed, ReadStart, ReadStop, Initialise, StopMark, StopCancel, ReadFails,
         HandleReaderError, CancelRequest, CloseOutgoing
    <3> QED  BY <2>1, <3>1
  <2> QED  BY <2>2, <2>3, <2>4
<1>3. CASE TimerFires \/ TimerCanceled \/ TimerReturns
  BY <1>3 DEF TimerFires, TimerCanceled, TimerReturns, Idle
<1>4. ASSUME NEW t \in Tasks, TaskStep(t) PROVE TimerLate'
  <2>1. UNCHANGED <<timer, init, rpc>>
    BY <1>4 DEF TaskStep, Unmarshal, Prepare, ResultArrives, StreamEnds, ContextDone,
       Finish, Complete, CancelOperation, Delete
  <2>2. CASE UNCHANGED pending
    BY <1>1, <2>1, <2>2 DEF Idle
  <2>3. ASSUME NEW msgs, Queue(t, msgs) PROVE TimerLate'
    BY <1>1, <2>1, <2>3, QueueOthers
  <2> QED
    BY <1>4, <2>2, <2>3 DEF TaskStep, Unmarshal, Prepare, ResultArrives, StreamEnds, ContextDone,
       Finish, Complete, CancelOperation, Delete
<1>5. ASSUME NEW g \in Goroutines, Send(g) \/ Drop(g) \/ SendPanics(g) PROVE TimerLate'
  BY <1>1, <1>5 DEF Send, Drop, SendPanics, Idle, TypeOK
<1>6. CASE WriterStep \/ KeepaliveFails \/ PeerLeaves \/ ParentCancel
  BY <1>1, <1>6 DEF WriterStep, WriteOk, WriteFails, WriteClose, Receive, WriterExits,
     KeepaliveFails, PeerLeaves, ParentCancel, Idle
<1>7. CASE UNCHANGED vars
  BY <1>1, <1>7 DEF vars, Idle
<1> QED  BY <1>2, <1>3, <1>4, <1>5, <1>6, <1>7 DEF Step

\* What the end of a connection may still find to send: only the timer's
\* report, of a connection that was never initialised.
LateTimer == timer = "fired" /\ ~Idle(Timer) /\ ~init

LEMMA OnlyLateTimer ==
    ASSUME ShutdownInv, TimerLate, closed, NEW g \in Goroutines, ~Idle(g)
    PROVE  g = Timer /\ ConnectTimeout /\ LateTimer
<1>1. g = Timer
  BY OnlyTimerSendsAfterClose
<1>2. ConnectTimeout
  BY <1>1 DEF ShutdownInv, TimerOff
<1>3. rpc = "done"
  BY DEF ShutdownInv, ClosedLast
<1> QED  BY <1>1, <1>2, <1>3 DEF TimerLate, LateTimer

\* A send on the closed channel crashes the process only when the connect
\* timeout reports late, of a connection that sent no connection_init.
PanicIsLateTimer == panicked => ConnectTimeout /\ closed /\ LateTimer

LEMMA PanicStep ==
    TypeOK /\ ShutdownInv /\ TimerLate /\ PanicIsLateTimer /\ [Next]_vars => PanicIsLateTimer'
<1> SUFFICES ASSUME TypeOK, ShutdownInv, TimerLate, PanicIsLateTimer, [Next]_vars
             PROVE  PanicIsLateTimer'
  OBVIOUS
<1>1. CASE UNCHANGED vars
  BY <1>1 DEF vars, PanicIsLateTimer, LateTimer, Idle
<1>2. ASSUME NEW g \in Goroutines, SendPanics(g) PROVE PanicIsLateTimer'
  <2>1. closed /\ ~Idle(g)
    BY <1>2 DEF SendPanics, Idle
  <2>2. ConnectTimeout /\ closed /\ LateTimer
    BY <2>1, OnlyLateTimer
  <2> QED  BY <1>2, <2>2 DEF SendPanics, PanicIsLateTimer, LateTimer, Idle
<1>3. ASSUME ~panicked, UNCHANGED panicked PROVE PanicIsLateTimer'
  BY <1>3 DEF PanicIsLateTimer
<1>4. CASE ~panicked /\ (ReaderMessage \/ ReaderStep)
  BY <1>3, <1>4 DEF ReaderMessage, ReaderStep, ReadInit, ReadTerminate, ReadPing,
     ReadMalformed, ReadStart, ReadStop, Signal, Initialise, StopMark, StopCancel, ReadFails,
     HandleReaderError, CancelRequest, CloseOutgoing
<1>5. CASE ~panicked /\ (TimerFires \/ TimerCanceled \/ TimerReturns \/ ParentCancel)
  BY <1>3, <1>5 DEF TimerFires, TimerCanceled, TimerReturns, ParentCancel
<1>6. ASSUME NEW t \in Tasks, ~panicked, TaskStep(t) PROVE PanicIsLateTimer'
  BY <1>3, <1>6 DEF TaskStep, Unmarshal, Prepare, ResultArrives, StreamEnds, ContextDone,
     Finish, Complete, CancelOperation, Delete
<1>7. CASE ~panicked /\ (WriterStep \/ KeepaliveFails \/ PeerLeaves)
  BY <1>3, <1>7 DEF WriterStep, WriteOk, WriteFails, WriteClose, Receive, WriterExits,
     KeepaliveFails, PeerLeaves
<1>8. CASE ~panicked /\ (\E g \in Goroutines : Send(g) \/ Drop(g))
  BY <1>3, <1>8 DEF Send, Drop
<1> QED  BY <1>1, <1>2, <1>4, <1>5, <1>6, <1>7, <1>8 DEF Next, Step

\* For every configuration: if a goroutine sends on the channel the reader
\* closed (server_websocket.go, 364-367), it is backgroundTimeout, with its
\* report of a client that had not sent its connection_init by then.  No
\* operation does, and no connection that was initialised is lost this way.
THEOREM PanicsOnlyOfLateTimer == Spec => []PanicIsLateTimer
<1>1. Init => PanicIsLateTimer
  BY DEF Init, PanicIsLateTimer
<1>2. ShutdownInv => TimerOff
  BY DEF ShutdownInv
<1> QED  BY <1>1, <1>2, InitType, TypeStep, ShutdownInit, ShutdownStep, TimerLateInit, TimerLateStep,
            PanicStep, PTL DEF Spec

\* Without a connect timeout nothing writes to req.outgoing after the reader
\* closed it (server_websocket.go, 364-367), however many operations run.
THEOREM NeverSendsOnClosed ==
    ASSUME ~ConnectTimeout
    PROVE  Spec => []NoSendOnClosed
<1>1. PanicIsLateTimer => NoSendOnClosed
  BY DEF PanicIsLateTimer, NoSendOnClosed
<1> QED  BY <1>1, PanicsOnlyOfLateTimer, PTL

\* The handler returns after the reader and every operation, with nothing
\* left to write and nothing left to send but the report of a late timer.
ReturnsBeforeTimerOnly ==
    writer = "done" => /\ AllTasksDone /\ reqCanceled /\ outgoing = <<>>
                       /\ \A g \in Goroutines : ~Idle(g) => g = Timer /\ ConnectTimeout /\ LateTimer

\* For every configuration the handler of the request outlives all it started
\* but backgroundTimeout, and that only on a connection never initialised.
THEOREM OnlyTimerOutlivesHandler == Spec => []ReturnsBeforeTimerOnly
<1>1. ShutdownInv /\ TimerLate => ReturnsBeforeTimerOnly
  <2> SUFFICES ASSUME ShutdownInv, TimerLate, writer = "done"
               PROVE  /\ AllTasksDone /\ reqCanceled /\ outgoing = <<>>
                      /\ \A g \in Goroutines : ~Idle(g) => g = Timer /\ ConnectTimeout /\ LateTimer
    BY DEF ReturnsBeforeTimerOnly
  <2>1. closed /\ outgoing = <<>>
    BY DEF ShutdownInv, WriterLast
  <2>2. AllTasksDone /\ reqCanceled
    BY <2>1 DEF ShutdownInv, ClosedLast, ReaderDrained
  <2> QED  BY <2>1, <2>2, OnlyLateTimer
<1>2. ShutdownInv => TimerOff
  BY DEF ShutdownInv
<1> QED  BY <1>1, <1>2, InitType, TypeStep, ShutdownInit, ShutdownStep, TimerLateInit, TimerLateStep, PTL
            DEF Spec

\* Without a connect timeout the handler of the request returns last: no
\* operation runs, and no message is left to send or to write.
THEOREM HandlerAlwaysReturnsLast ==
    ASSUME ~ConnectTimeout
    PROVE  Spec => []HandlerReturnsLast
<1>1. ReturnsBeforeTimerOnly => HandlerReturnsLast
  BY DEF ReturnsBeforeTimerOnly, HandlerReturnsLast
<1> QED  BY <1>1, OnlyTimerOutlivesHandler, PTL

-----------------------------------------------------------------------------
(* Stopping an operation.                                                  *)

\* Between marking and cancelling, the reader holds on to an operation that
\* is already marked.
StopInv ==
    /\ StopBeforeCancel
    /\ rpc = "stopMark" => target \in Tasks
    /\ rpc = "stopCancel" => target \in Tasks /\ stopped[target]

LEMMA StopStep == TypeOK /\ StopInv /\ [Next]_vars => StopInv'
<1> SUFFICES ASSUME TypeOK, StopInv, [Next]_vars PROVE StopInv'
  OBVIOUS
<1> USE NameAssumption DEF Fail
<1>1. CASE UNCHANGED <<pc, canceled, stopped, target, rpc>>
  BY <1>1 DEF StopInv, StopBeforeCancel
<1>2. CASE StopMark
  BY <1>2 DEF StopMark, StopInv, StopBeforeCancel, TypeOK
<1>3. CASE StopCancel
  <2>1. \A t \in Tasks : canceled'[t] => canceled[t] \/ t = target
    BY <1>3 DEF StopCancel, TypeOK
  <2> QED  BY <1>3, <2>1 DEF StopCancel, StopInv, StopBeforeCancel
<1>4. CASE (ReaderMessage \/ ReaderStep) /\ ~StopMark /\ ~StopCancel
  <2>1. UNCHANGED <<canceled, stopped>>
    BY <1>4 DEF ReaderMessage, ReaderStep, ReadInit, ReadTerminate, ReadPing,
       ReadMalformed, ReadStart, StartTask, ReadStop, Signal, Initialise, ReadFails,
       HandleReaderError, CancelRequest, CloseOutgoing
  <2>2. rpc' # "stopCancel" /\ (rpc' = "stopMark" => target' \in Tasks)
    <3>1. ASSUME NEW i \in Ids, ReadStop(i)
          PROVE  rpc' # "stopCancel" /\ (rpc' = "stopMark" => target' \in Tasks)
      BY <3>1 DEF ReadStop, IdInUse, TypeOK
    <3>2. CASE ~(\E i \in Ids : ReadStop(i))
      BY <1>4, <3>2 DEF ReaderMessage, ReaderStep, Reading, ReadInit, ReadTerminate, ReadPing,
         ReadMalformed, ReadStart, StartTask, Signal, Initialise, ReadFails,
         HandleReaderError, CancelRequest, CloseOutgoing
    <3> QED  BY <3>1, <3>2
  <2>3. \A t \in Tasks : pc[t] \in {"delete", "done"} => pc'[t] = pc[t]
    <3>1. UNCHANGED pc \/ \E t \in Tasks : pc[t] = "idle" /\ pc' = [pc EXCEPT ![t] = "unmarshal"]
      BY <1>4 DEF ReaderMessage, ReaderStep, ReadInit, ReadTerminate, ReadPing,
         ReadMalformed, ReadStart, StartTask, ReadStop, Signal, Initialise, ReadFails,
         HandleReaderError, CancelRequest, CloseOutgoing
    <3> QED  BY <3>1 DEF TypeOK
  <2> QED  BY <2>1, <2>2, <2>3 DEF StopInv, StopBeforeCancel
<1>5. ASSUME NEW t \in Tasks, TaskStep(t)
      PROVE  StopInv'
  <2>1. UNCHANGED <<target, rpc>>
    BY <1>5 DEF TaskStep, Unmarshal, Prepare, ResultArrives, StreamEnds, ContextDone,
       Finish, Complete, CancelOperation, Delete
  <2>2. \A u \in Tasks : stopped[u] => stopped'[u]
    <3>1. UNCHANGED stopped \/ stopped' = [stopped EXCEPT ![t] = @ \/ err[t] = "other"]
      BY <1>5 DEF TaskStep, Unmarshal, Prepare, ResultArrives, StreamEnds, ContextDone,
         Finish, Complete, CancelOperation, Delete
    <3> QED  BY <3>1 DEF TypeOK
  <2>3. CASE CancelOperation(t)
    BY <2>1, <2>2, <2>3 DEF CancelOperation, Goto, StopInv, StopBeforeCancel, TypeOK
  <2>4. CASE Delete(t)
    BY <2>1, <2>2, <2>4 DEF Delete, Goto, StopInv, StopBeforeCancel, TypeOK
  <2>5. CASE ~CancelOperation(t) /\ ~Delete(t)
    <3>1. UNCHANGED canceled /\ pc[t] \notin {"delete", "done"}
      BY <1>5, <2>5 DEF TaskStep, Unmarshal, Prepare, ResultArrives, StreamEnds, ContextDone,
         Finish, Complete
    <3>2. \A u \in Tasks \ {t} : pc'[u] = pc[u]
      <4>1. ASSUME NEW bad \in BOOLEAN, ResultArrives(t, bad)
            PROVE  pc' = pc \/ pc' = [pc EXCEPT ![t] = "finish"]
        BY <4>1, Zenon DEF ResultArrives, Goto
      <4>2. pc' = pc \/ \E l \in Pcs : pc' = [pc EXCEPT ![t] = l]
        BY <1>5, <2>5, <4>1 DEF TaskStep, Unmarshal, Prepare, StreamEnds, ContextDone,
           Finish, Complete, Goto, Pcs
      <4> QED  BY <4>2 DEF TypeOK
    <3> QED  BY <2>1, <2>2, <3>1, <3>2 DEF StopInv, StopBeforeCancel
  <2> QED  BY <2>3, <2>4, <2>5
<1>6. CASE \E g \in Goroutines : Send(g) \/ Drop(g) \/ SendPanics(g)
  BY <1>1, <1>6 DEF Send, Drop, SendPanics
<1>7. CASE TimerFires \/ TimerCanceled \/ TimerReturns
  BY <1>1, <1>7 DEF TimerFires, TimerCanceled, TimerReturns
<1>8. CASE WriterStep \/ KeepaliveFails \/ PeerLeaves \/ ParentCancel
  BY <1>1, <1>8 DEF WriterStep, WriteOk, WriteFails, WriteClose, Receive, WriterExits,
     KeepaliveFails, PeerLeaves, ParentCancel
<1>9. CASE UNCHANGED vars
  BY <1>1, <1>9 DEF vars
<1> QED  BY <1>2, <1>3, <1>4, <1>5, <1>6, <1>7, <1>8, <1>9 DEF Next, Step

\* Whatever steps come between the three of a stop, an operation that finds
\* itself cancelled by it also finds itself stopped.
THEOREM StopAlwaysMarksFirst == Spec => []StopBeforeCancel
<1>1. Init => StopInv
  BY DEF Init, StopInv, StopBeforeCancel
<1>2. StopInv => StopBeforeCancel
  BY DEF StopInv
<1> QED  BY <1>1, <1>2, InitType, TypeStep, StopStep, PTL DEF Spec
=============================================================================
