--------------------------- MODULE WsStreamProofs ---------------------------
(***************************************************************************)
(* WsConnection implements OperationStream, for every set of ids, every    *)
(* number of operations, every channel capacity and every option.          *)
(***************************************************************************)
EXTENDS WsConnectionProofs

USE DEF taskVars, reqVars, readerVars, chanVars, writerVars,
        NotReaderVars, NotTaskVars, NotWriterVars

-----------------------------------------------------------------------------
(* What is on its way to the client about an operation.                    *)

Told   == {"data", "error", "connection_error", "complete"}
Failed == {"error", "connection_error"}
Closes == {Msg("close", NoTask), Msg("timeout", NoTask)}

\* What the goroutine of an operation may have left to send.
Queues(t) ==
    {<<>>} \cup {<<Msg(k, t)>> : k \in Told \ {"connection_error"}} \cup {<<c>> : c \in Closes}
           \cup {<<Msg("connection_error", t), c>> : c \in Closes}

\* The kinds of its messages: still to be sent, in the channel, written.
Own(t)     == {n \in DOMAIN outgoing : outgoing[n].task = t}
ToSend(t)  == IF pending[t] = <<>> THEN {} ELSE {Head(pending[t]).kind} \cap Told
Channel(t) == {outgoing[n].kind : n \in Own(t)}
Heard(t)   == {delivered[t][n] : n \in DOMAIN delivered[t]}
Said(t)    == ToSend(t) \cup Channel(t) \cup Heard(t)

Silent(t) == pending[t] = <<>> /\ Own(t) = {} /\ delivered[t] = <<>>
Gone      == ws # "open" \/ reqCanceled
Ending    == {"cancel", "delete", "done"}

CloseBefore(n) == \E m \in DOMAIN outgoing : m < n /\ IsClose(outgoing[m])
CloseToCome(t) == \/ CloseBefore(Len(outgoing) + 1)
                  \/ pending[t] # <<>> /\ Head(pending[t]) \in Closes

\* What an operation may have said, by where its goroutine is.
KindsInv(t) ==
    /\ pending[t] \in Queues(t)
    /\ pc[t] \in {"idle", "unmarshal", "prepare"} => ~executed[t] /\ Silent(t)
    /\ pc[t] = "finish" /\ ~executed[t] => Silent(t)
    /\ pc[t] = "results" => executed[t]
    /\ pc[t] \in {"delete", "done"} => pending[t] = <<>>
    /\ Said(t) \subseteq IF executed[t] THEN {"data", "complete"} ELSE Told \ {"data"}
    /\ "complete" \in Said(t) => pc[t] \in Ending
    /\ "error" \in Said(t) => protocol = GWS \/ (stopped[t] /\ "complete" \notin Said(t))
    /\ pc[t] \in Ending => "complete" \in Said(t) \/ Gone \/ (stopped[t] /\ protocol = GTWS)

\* In which order: an error first, complete last, and between connection_error
\* and complete the message that closes the websocket.
OrderInv(t) ==
    /\ ToSend(t) \cap Failed # {} => Own(t) = {} /\ delivered[t] = <<>>
    /\ \A n \in Own(t) : outgoing[n].kind \in Failed =>
          delivered[t] = <<>> /\ \A m \in Own(t) : n <= m
    /\ \A n \in Own(t) : outgoing[n].kind = "complete" =>
          pending[t] = <<>> /\ \A m \in Own(t) : m <= n
    /\ "complete" \in Heard(t) => Own(t) = {} /\ pending[t] = <<>> /\ Stream!LastOf(delivered[t]) = "complete"
    /\ "connection_error" \in Channel(t) \cup Heard(t) =>
          /\ ws # "open" \/ CloseToCome(t)
          /\ \A n \in Own(t) : outgoing[n].kind = "complete" => ws # "open" \/ CloseBefore(n)

\* Of two operations under one id one is over, and was heard first.
Precedes(t, u) ==
    /\ pc[t] = "done"
    /\ \A m \in Own(t), n \in Own(u) : m < n
    /\ delivered[u] # <<>> => Own(t) = {}

TurnsInv ==
    \A t, u \in Tasks :
        t # u /\ pc[t] # "idle" /\ pc[u] # "idle" /\ idOf[t] = idOf[u] => Precedes(t, u) \/ Precedes(u, t)

\* A message about no operation, or a message of an operation.
ChannelInv ==
    /\ \A n \in DOMAIN outgoing : outgoing[n].task = NoTask \/ outgoing[n].kind \in Told
    /\ \A g \in {Reader, Timer} : \A n \in DOMAIN pending[g] : pending[g][n].task = NoTask

StopsInv ==
    /\ reqStopped => protocol = GWS
    /\ rpc \in {"stopMark", "stopCancel"} => target \in Tasks /\ pc[target] # "idle"
    /\ \A t \in Tasks : pc[t] = "idle" => idOf[t] = NoTask /\ ~stopped[t]

StreamInv ==
    /\ ChannelInv /\ StopsInv /\ TurnsInv
    /\ \A t \in Tasks : KindsInv(t) /\ OrderInv(t)

LEMMA StreamInit == Init => StreamInv
<1> SUFFICES ASSUME Init PROVE StreamInv
  OBVIOUS
<1>1. ASSUME NEW t \in Tasks PROVE KindsInv(t) /\ OrderInv(t)
  <2>1. /\ pending[t] = <<>> /\ Own(t) = {} /\ delivered[t] = <<>> /\ pc[t] = "idle" /\ ~executed[t]
        /\ Said(t) = {} /\ ToSend(t) = {} /\ Channel(t) = {} /\ Heard(t) = {}
    BY GoroutineNames DEF Init, Own, Said, ToSend, Channel, Heard
  <2> HIDE DEF Own, Said, ToSend, Channel, Heard
  <2> QED  BY <2>1 DEF KindsInv, OrderInv, Silent, Queues, Ending
<1>2. ChannelInv /\ StopsInv /\ TurnsInv
  BY GoroutineNames DEF Init, ChannelInv, StopsInv, TurnsInv
<1> QED  BY <1>1, <1>2 DEF StreamInv

-----------------------------------------------------------------------------
(* Steps that say nothing about an operation.                              *)

\* The history of an operation goes on: marks stay, and what is lost is lost.
Onward(t) ==
    /\ UNCHANGED protocol
    /\ stopped[t] => stopped'[t]
    /\ ws # "open" => ws' # "open"
    /\ reqCanceled => reqCanceled'

LEMMA TaskFrame ==
    ASSUME NEW t \in Tasks, KindsInv(t), OrderInv(t), Onward(t),
           UNCHANGED <<outgoing, pc[t], executed[t], pending[t], delivered[t]>>
    PROVE  KindsInv(t)' /\ OrderInv(t)'
<1>1. /\ UNCHANGED <<Own(t), ToSend(t), Channel(t), Heard(t)>>
      /\ \A n : UNCHANGED CloseBefore(n)
      /\ UNCHANGED CloseToCome(t)
  BY DEF Own, ToSend, Channel, Heard, CloseBefore, CloseToCome
<1>2. KindsInv(t)'
  BY <1>1 DEF KindsInv, Onward, Silent, Said, Gone
<1>3. OrderInv(t)'
  BY <1>1 DEF OrderInv, Onward
<1> QED  BY <1>2, <1>3

LEMMA TurnsFrame ==
    ASSUME TurnsInv, UNCHANGED <<outgoing, delivered, idOf>>,
           \A t \in Tasks : (pc[t] = "idle" <=> pc'[t] = "idle") /\ (pc[t] = "done" => pc'[t] = "done")
    PROVE  TurnsInv'
<1>1. \A t \in Tasks : UNCHANGED Own(t)
  BY DEF Own
<1> QED  BY <1>1 DEF TurnsInv, Precedes

\* The reader, the timer and the client leave the operations to themselves.
Aside ==
    /\ UNCHANGED <<protocol, outgoing, delivered, idOf, pc, executed>>
    /\ \A t \in Tasks : UNCHANGED pending[t] /\ Onward(t)

LEMMA AsideFrame ==
    ASSUME StreamInv, Aside
    PROVE  TurnsInv' /\ \A t \in Tasks : KindsInv(t)' /\ OrderInv(t)'
<1>1. TurnsInv'
  BY TurnsFrame DEF StreamInv, Aside
<1>2. ASSUME NEW t \in Tasks PROVE KindsInv(t)' /\ OrderInv(t)'
  BY TaskFrame DEF StreamInv, Aside
<1> QED  BY <1>1, <1>2

\* What the reader and the timer send is about no operation.
LEMMA OthersMessages ==
    ASSUME NEW e, NEW n \in DOMAIN ErrorMessages(e, NoTask)
    PROVE  ErrorMessages(e, NoTask)[n].task = NoTask
<1> DEFINE close == CloseMessage(e)
           first == Msg("connection_error", NoTask)
           plain == Msg("error", NoTask)
<1>1. close.task = NoTask /\ first.task = NoTask /\ plain.task = NoTask
  BY DEF CloseMessage, Msg
<1> HIDE DEF close, first, plain
<1>2. ErrorMessages(e, NoTask) \in {<<first, close>>, <<close>>, <<plain>>}
  BY DEF ErrorMessages, close, first, plain
<1> QED  BY <1>1, <1>2

LEMMA OthersQueue ==
    ASSUME TypeOK, ChannelInv, NEW g \in {Reader, Timer}, NEW msgs, Queue(g, msgs), UNCHANGED outgoing,
           \A n \in DOMAIN msgs : msgs[n].task = NoTask
    PROVE  ChannelInv' /\ \A t \in Tasks : UNCHANGED pending[t]
BY GoroutineNames DEF TypeOK, Queue, ChannelInv

LEMMA OneOther ==
    ASSUME NEW k, NEW n \in DOMAIN <<Msg(k, NoTask)>>
    PROVE  <<Msg(k, NoTask)>>[n].task = NoTask
BY DEF Msg

\* A start of the reader that accepts an operation.
Starts(i, t) == ~IdInUse(i) /\ StartTask(i, t) /\ UNCHANGED <<reqVars, pending, NotReaderVars>>

LEMMA ReaderSteps ==
    ASSUME TypeOK, TableConsistent, StreamInv, ReaderMessage \/ ReaderStep
    PROVE  \/ Aside /\ ChannelInv' /\ StopsInv'
           \/ \E i \in Ids, t \in Tasks : Starts(i, t)
<1> DEFINE Goal == Aside /\ ChannelInv' /\ StopsInv'
<1> HIDE DEF Goal
<1>1. ASSUME UNCHANGED <<taskVars, protocol, reqStopped, pending, outgoing, delivered>>,
             ws # "open" => ws' # "open", reqCanceled => reqCanceled',
             rpc' \notin {"stopMark", "stopCancel"}
      PROVE  Goal
  BY <1>1 DEF Goal, Aside, Onward, StreamInv, ChannelInv, StopsInv
<1>2. ASSUME UNCHANGED <<taskVars, protocol, reqCanceled, outgoing, delivered, ws>>,
             reqStopped' => protocol = GWS, rpc' \notin {"stopMark", "stopCancel"},
             NEW msgs, Queue(Reader, msgs), \A n \in DOMAIN msgs : msgs[n].task = NoTask
      PROVE  Goal
  <2>1. ChannelInv' /\ \A t \in Tasks : UNCHANGED pending[t]
    BY <1>2, OthersQueue DEF StreamInv
  <2> QED  BY <1>2, <2>1 DEF Goal, Aside, Onward, StreamInv, StopsInv
<1>3. CASE ReadInit \/ ReadMalformed \/ ReadFails \/ Signal \/ CancelRequest \/ CloseOutgoing
  BY <1>1, <1>3 DEF ReadInit, ReadMalformed, ReadFails, Signal, CancelRequest, CloseOutgoing, Fail, Reading, Goal
<1>4. CASE ReadPing
  BY <1>2, <1>4, OneOther DEF ReadPing, Reading, Goal, StreamInv, StopsInv
<1>5. CASE ReadTerminate
  <2>1. CASE Fail("event") /\ UNCHANGED <<pending, reqStopped>>
    BY <1>1, <1>5, <2>1 DEF ReadTerminate, Fail, Goal
  <2>2. CASE protocol = GWS /\ Queue(Reader, <<CloseMessage("event")>>) /\ UNCHANGED rpc
    <3>1. CloseMessage("event") = Msg("close", NoTask)
      BY DEF CloseMessage
    <3> QED  BY <1>2, <1>5, <2>2, <3>1, OneOther DEF ReadTerminate, Reading, Goal
  <2> QED  BY <1>5, <2>1, <2>2 DEF ReadTerminate
<1>6. CASE Initialise
  <2>1. CASE UNCHANGED pending /\ rpc' = "fail"
    BY <1>1, <1>6, <2>1 DEF Initialise, Goal
  <2>2. CASE rpc' = "read" /\ Queue(Reader, <<Msg("ack", NoTask)>>)
    BY <1>2, <1>6, <2>2, OneOther DEF Initialise, Goal, StreamInv, StopsInv
  <2> QED  BY <1>6, <2>1, <2>2 DEF Initialise, Fail
<1>7. CASE HandleReaderError
  BY <1>2, <1>7, OthersMessages DEF HandleReaderError, Goal, StreamInv, StopsInv
<1>8. CASE StopMark
  <2>1. target \in Tasks
    BY <1>8 DEF StopMark, StreamInv, StopsInv
  <2> QED  BY <1>8, <2>1 DEF StopMark, Goal, Aside, Onward, StreamInv, ChannelInv, StopsInv, TypeOK
<1>9. CASE StopCancel
  BY <1>1, <1>9 DEF StopCancel, Goal, Aside, Onward, StreamInv, ChannelInv, StopsInv
<1>10. ASSUME NEW i \in Ids, ReadStop(i) PROVE Goal
  <2>1. CASE Fail("event")
    BY <1>1, <1>10, <2>1 DEF ReadStop, Fail, Goal
  <2>2. CASE IdInUse(i) /\ target' = operations[i]
    <3>1. operations[i] \in Tasks /\ pc[operations[i]] # "idle"
      BY <2>2 DEF IdInUse, TableConsistent, TypeOK, Live
    <3> QED  BY <1>10, <2>2, <3>1 DEF ReadStop, Goal, Aside, Onward, StreamInv, ChannelInv, StopsInv
  <2> QED  BY <1>10, <2>1, <2>2 DEF ReadStop
<1>11. ASSUME NEW i \in Ids, ReadStart(i) PROVE Goal \/ \E t \in Tasks : Starts(i, t)
  <2>1. CASE UNCHANGED taskVars /\ rpc' = "fail"
    BY <1>1, <1>11, <2>1 DEF ReadStart, Goal
  <2>2. CASE ~IdInUse(i) /\ \E t \in Tasks : StartTask(i, t)
    BY <1>11, <2>2 DEF ReadStart, Starts
  <2> QED  BY <1>11, <2>1, <2>2 DEF ReadStart, Fail
<1>12. CASE \E i \in Ids : ReadStart(i) \/ ReadStop(i)
  <2>1. PICK i \in Ids : ReadStart(i) \/ ReadStop(i)
    BY <1>12
  <2> QED  BY <2>1, <1>10, <1>11 DEF Goal
<1>13. CASE Goal
  BY <1>13 DEF Goal
<1>14. ReaderMessage => \/ ReadInit \/ ReadTerminate \/ ReadPing \/ ReadMalformed
                        \/ \E i \in Ids : ReadStart(i) \/ ReadStop(i)
  BY DEF ReaderMessage
<1> QED  BY <1>3, <1>4, <1>5, <1>6, <1>7, <1>8, <1>9, <1>12, <1>13, <1>14 DEF ReaderStep

LEMMA OtherSteps ==
    ASSUME TypeOK, StreamInv,
           TimerFires \/ TimerCanceled \/ TimerReturns \/ KeepaliveFails \/ PeerLeaves \/ ParentCancel
    PROVE  Aside /\ ChannelInv' /\ StopsInv'
<1>1. CASE TimerFires
  <2>1. ChannelInv' /\ \A t \in Tasks : UNCHANGED pending[t]
    BY <1>1, OthersQueue, OthersMessages DEF TimerFires, StreamInv
  <2> QED  BY <1>1, <2>1 DEF TimerFires, Aside, Onward, StreamInv, StopsInv
<1>2. CASE TimerCanceled \/ TimerReturns
  BY <1>2 DEF TimerCanceled, TimerReturns, Aside, Onward, StreamInv, ChannelInv, StopsInv
<1>3. CASE KeepaliveFails \/ PeerLeaves \/ ParentCancel
  BY <1>3 DEF KeepaliveFails, PeerLeaves, ParentCancel, Aside, Onward, StreamInv, ChannelInv, StopsInv
<1> QED  BY <1>1, <1>2, <1>3

LEMMA StartStep ==
    ASSUME TypeOK, TableConsistent, StreamInv, NEW i \in Ids, NEW t \in Tasks, Starts(i, t)
    PROVE  StreamInv'
<1> USE DEF Starts, StartTask
<1>1. ASSUME NEW u \in Tasks \ {t} PROVE KindsInv(u)' /\ OrderInv(u)'
  <2>1. UNCHANGED pc[u]
    BY DEF TypeOK
  <2> QED  BY <2>1, TaskFrame DEF StreamInv, Onward
<1>2. KindsInv(t)' /\ OrderInv(t)'
  <2>1. /\ UNCHANGED <<Own(t), ToSend(t), Channel(t), Heard(t), executed[t], pending[t], delivered[t], stopped, protocol, ws, reqCanceled>>
        /\ \A n : UNCHANGED CloseBefore(n)
        /\ UNCHANGED CloseToCome(t)
    BY DEF Own, ToSend, Channel, Heard, CloseBefore, CloseToCome
  <2>2. pc[t] = "idle" /\ pc'[t] = "unmarshal"
    BY DEF TypeOK
  <2>3. KindsInv(t)'
    BY <2>1, <2>2 DEF StreamInv, KindsInv, Silent, Said, Gone, Ending
  <2>4. OrderInv(t)'
    BY <2>1 DEF StreamInv, OrderInv
  <2> QED  BY <2>3, <2>4
<1>3. TurnsInv'
  <2>1. \A u \in Tasks : UNCHANGED <<Own(u), delivered>>
    BY DEF Own
  <2>2. Own(t) = {} /\ delivered[t] = <<>>
    BY DEF StreamInv, KindsInv, Silent
  <2>3. \A u \in Tasks \ {t} : UNCHANGED <<pc[u], idOf[u]>>
    BY DEF TypeOK
  <2>4. idOf'[t] = i
    BY DEF TypeOK
  <2>5. \A u \in Tasks \ {t} : pc[u] # "idle" /\ idOf[u] = i => pc[u] = "done"
    BY GoroutineNames DEF TableConsistent, Live, IdInUse
  <2> HIDE DEF Starts, StartTask
  <2>6. ASSUME NEW u \in Tasks, NEW v \in Tasks, u # v, (pc[u] # "idle")', (pc[v] # "idle")', (idOf[u] = idOf[v])'
        PROVE  (Precedes(u, v) \/ Precedes(v, u))'
    <3>1. CASE v = t
      <4>1. pc[u] = "done" /\ UNCHANGED pc[u]
        BY <2>3, <2>4, <2>5, <2>6, <3>1
      <4> QED  BY <2>1, <2>2, <3>1, <4>1 DEF Precedes
    <3>2. CASE u = t
      <4>1. pc[v] = "done" /\ UNCHANGED pc[v]
        BY <2>3, <2>4, <2>5, <2>6, <3>2
      <4> QED  BY <2>1, <2>2, <3>2, <4>1 DEF Precedes
    <3>3. CASE u # t /\ v # t
      <4>1. Precedes(u, v) \/ Precedes(v, u)
        BY <2>3, <2>6, <3>3 DEF StreamInv, TurnsInv
      <4> QED  BY <2>1, <2>3, <3>3, <4>1 DEF Precedes
    <3> QED  BY <3>1, <3>2, <3>3
  <2> QED  BY <2>6 DEF TurnsInv
<1>4. ChannelInv' /\ StopsInv'
  <2>1. ChannelInv'
    BY DEF StreamInv, ChannelInv
  <2>2. \A u \in Tasks : (pc[u] = "idle")' => pc[u] = "idle" /\ u # t
    BY DEF TypeOK
  <2>3. \A u \in Tasks \ {t} : UNCHANGED idOf[u]
    BY DEF TypeOK
  <2> QED  BY <2>1, <2>2, <2>3 DEF StreamInv, StopsInv
<1> QED  BY <1>1, <1>2, <1>3, <1>4 DEF StreamInv

-----------------------------------------------------------------------------
(* Steps of the operation itself.                                          *)

LEMMA ErrorQueue ==
    ASSUME TypeOK, NEW t \in Tasks, NEW e \in Errors, e # "none"
    PROVE  /\ ErrorMessages(e, t) \in Queues(t)
           /\ Head(ErrorMessages(e, t)).kind = "error" => e = "other"
           /\ Head(ErrorMessages(e, t)).kind \notin {"data", "complete"}
           /\ ErrorMessages(e, t) # <<>>
<1> DEFINE close == CloseMessage(e)
           first == Msg("connection_error", t)
           plain == Msg("error", t)
<1>1. close \in Closes /\ close.kind \in {"close", "timeout"}
  BY DEF CloseMessage, Msg, Closes
<1>2. first.kind = "connection_error" /\ plain.kind = "error"
  BY DEF Msg
<1>3. <<close>> \in Queues(t) /\ <<first, close>> \in Queues(t) /\ <<plain>> \in Queues(t)
  BY <1>1 DEF Queues, Told
<1> HIDE DEF close, first, plain
<1>4. \/ ErrorMessages(e, t) = <<first, close>> \/ ErrorMessages(e, t) = <<close>>
      \/ ErrorMessages(e, t) = <<plain>> /\ e \notin EventErrors
  BY DEF ErrorMessages, close, first, plain
<1>5. e \notin EventErrors => e = "other"
  BY DEF Errors
<1> QED  BY <1>1, <1>2, <1>3, <1>4, <1>5

LEMMA OneQueue ==
    ASSUME NEW t \in Tasks, NEW k \in {"data", "error", "complete"}
    PROVE  /\ <<Msg(k, t)>> \in Queues(t) /\ <<Msg(k, t)>> # <<>>
           /\ Head(<<Msg(k, t)>>).kind = k /\ Head(<<Msg(k, t)>>) \notin Closes
BY DEF Queues, Told, Msg, Closes

LEMMA OwnStep ==
    ASSUME TypeOK, StreamInv, NEW t \in Tasks, TaskStep(t)
    PROVE  KindsInv(t)' /\ OrderInv(t)'
<1>1. /\ UNCHANGED <<outgoing, delivered, ws, reqCanceled, protocol>>
      /\ UNCHANGED <<Own(t), Channel(t), Heard(t)>>
      /\ \A n : UNCHANGED CloseBefore(n)
  <2>1. UNCHANGED <<outgoing, delivered, ws, reqCanceled, protocol>>
    BY DEF TaskStep, Unmarshal, Prepare, ResultArrives, StreamEnds, ContextDone, Finish, Complete,
           CancelOperation, Delete
  <2> QED  BY <2>1 DEF Own, Channel, Heard, CloseBefore
<1>2. KindsInv(t) /\ OrderInv(t) /\ protocol \in {GWS, GTWS} /\ (reqStopped => protocol = GWS)
  BY ProtocolAssumption DEF StreamInv, StopsInv, TypeOK
<1>3. executed[t] \in BOOLEAN /\ stopped[t] \in BOOLEAN /\ t \in Goroutines
  BY GoroutineNames DEF TypeOK
\* A step that sends nothing only has to know where it goes.
<1>4. ASSUME UNCHANGED <<pending[t], executed[t], stopped[t]>>,
             pc'[t] \in {"idle", "unmarshal", "prepare"} => Silent(t) /\ ~executed[t],
             pc'[t] = "finish" /\ ~executed[t] => Silent(t),
             pc'[t] = "results" => executed[t],
             pc'[t] \in {"delete", "done"} => pending[t] = <<>>,
             "complete" \in Said(t) => pc'[t] \in Ending,
             pc'[t] \in Ending => "complete" \in Said(t) \/ Gone \/ (stopped[t] /\ protocol = GTWS)
      PROVE  KindsInv(t)' /\ OrderInv(t)'
  <2>1. UNCHANGED <<ToSend(t), Said(t), CloseToCome(t), Gone>> /\ (Silent(t) => Silent(t)')
    BY <1>1, <1>4 DEF ToSend, Said, CloseToCome, Gone, Silent
  <2>2. KindsInv(t)'
    BY <1>1, <1>2, <1>4, <2>1 DEF KindsInv
  <2>3. OrderInv(t)'
    BY <1>1, <1>2, <1>4, <2>1 DEF OrderInv
  <2> QED  BY <2>2, <2>3
<1>5. CASE Unmarshal(t)
  <2>1. pc[t] = "unmarshal" /\ pc'[t] \in {"prepare", "finish"} /\ UNCHANGED <<pending, executed, stopped>>
    BY <1>5 DEF Unmarshal, Goto, TypeOK
  <2> QED  BY <1>2, <1>4, <2>1 DEF KindsInv, Ending
<1>6. CASE Prepare(t)
  <2>1. pc[t] = "prepare" /\ UNCHANGED <<pending, stopped>>
    BY <1>6 DEF Prepare
  <2>2. CASE pc'[t] = "finish" /\ UNCHANGED executed
    BY <1>2, <1>4, <2>1, <2>2 DEF KindsInv, Ending
  <2>3. CASE pc'[t] = "results" /\ executed'[t]
    <3>1. Silent(t) /\ Silent(t)' /\ Said(t) = {} /\ ToSend(t)' = {} /\ Said(t)' = {}
      BY <1>1, <1>2, <2>1 DEF KindsInv, Silent, Said, ToSend, Channel, Heard
    <3> QED  BY <1>1, <1>2, <2>1, <2>3, <3>1 DEF KindsInv, OrderInv, Ending, Said, Silent
  <2> QED  BY <1>6, <2>2, <2>3 DEF Prepare, Goto, TypeOK
<1>7. ASSUME NEW bad \in BOOLEAN, ResultArrives(t, bad) PROVE KindsInv(t)' /\ OrderInv(t)'
  <2>1. /\ pc[t] = "results" /\ pc'[t] \in {"results", "finish"} /\ pending[t] = <<>>
        /\ UNCHANGED <<executed, stopped>>
    BY <1>7 DEF ResultArrives, Goto, TypeOK, Idle
  <2>2. CASE UNCHANGED pending
    BY <1>2, <1>4, <2>1, <2>2 DEF KindsInv, Ending
  <2>3. CASE Queue(t, <<Msg("data", t)>>)
    <3>1. pending'[t] = <<Msg("data", t)>>
      BY <1>3, <2>3 DEF Queue, TypeOK
    <3>2. ToSend(t) = {} /\ ToSend(t)' = {"data"} /\ Said(t)' = Said(t) \cup {"data"}
      BY <1>1, <2>1, <3>1, OneQueue DEF ToSend, Told, Said
    <3>3. executed[t] /\ "complete" \notin Said(t) /\ Said(t) \subseteq {"data", "complete"}
      BY <1>2, <2>1 DEF KindsInv, Ending
    <3>4. KindsInv(t)'
      BY <1>1, <1>2, <2>1, <3>1, <3>2, <3>3, OneQueue DEF KindsInv, Ending
    <3>5. \A n \in Own(t) : outgoing[n].kind \in Said(t)
      BY DEF Said, Channel
    <3>6. OrderInv(t)'
      BY <1>1, <1>2, <3>1, <3>2, <3>3, <3>5 DEF OrderInv, Failed, Said
    <3> QED  BY <3>4, <3>6
  <2> QED  BY <1>7, <2>2, <2>3 DEF ResultArrives
<1>8. CASE StreamEnds(t) \/ ContextDone(t)
  <2>1. pc[t] = "results" /\ pc'[t] = "finish" /\ UNCHANGED <<pending, executed, stopped>>
    BY <1>8 DEF StreamEnds, ContextDone, Goto, TypeOK
  <2> QED  BY <1>2, <1>4, <2>1 DEF KindsInv, Ending
<1>9. CASE Finish(t)
  <2>1. pc[t] = "finish" /\ pc'[t] = "complete" /\ pending[t] = <<>> /\ UNCHANGED executed
    BY <1>9 DEF Finish, Goto, TypeOK, Idle
  <2>2. CASE ~Reports(t)
    BY <1>2, <1>4, <1>9, <2>1, <2>2 DEF Finish, KindsInv, Ending
  <2>3. CASE Reports(t)
    <3>1. err[t] \in Errors /\ err[t] # "none" /\ ~executed[t]
      BY <2>3 DEF Reports, TypeOK
    <3>2. pending'[t] = ErrorMessages(err[t], t) /\ (stopped'[t] <=> stopped[t] \/ err[t] = "other")
      BY <1>3, <1>9, <2>3 DEF Finish, Queue, TypeOK
    <3>3. Own(t) = {} /\ delivered[t] = <<>> /\ Channel(t) = {} /\ Heard(t) = {}
      BY <1>2, <2>1, <3>1 DEF KindsInv, Silent, Channel, Heard
    <3>4. /\ ToSend(t)' \subseteq Failed /\ Said(t)' = ToSend(t)' 
          /\ "error" \in ToSend(t)' => stopped'[t]
      BY <1>1, <3>1, <3>2, <3>3, ErrorQueue DEF ToSend, Said, Told, Failed
    <3>5. KindsInv(t)'
      BY <1>1, <2>1, <3>1, <3>2, <3>4, ErrorQueue DEF KindsInv, Ending, Failed, Told
    <3>6. OrderInv(t)'
      BY <1>1, <3>3 DEF OrderInv
    <3> QED  BY <3>5, <3>6
  <2> QED  BY <2>2, <2>3
<1>10. CASE Complete(t)
  <2>1. pc[t] = "complete" /\ pc'[t] = "cancel" /\ pending[t] = <<>> /\ UNCHANGED <<executed, stopped>>
    BY <1>10 DEF Complete, Goto, TypeOK, Idle
  <2>2. "complete" \notin Said(t)
    BY <1>2, <2>1 DEF KindsInv, Ending
  <2>3. CASE ~Completes(t)
    <3>1. stopped[t] /\ protocol = GTWS
      BY <1>2, <2>3 DEF Completes, Stopped, GWS, GTWS
    <3> QED  BY <1>2, <1>4, <1>10, <2>1, <2>2, <2>3, <3>1 DEF Complete, Ending
  <2>4. CASE Completes(t)
    <3>1. pending'[t] = <<Msg("complete", t)>>
      BY <1>3, <1>10, <2>4 DEF Complete, Queue, TypeOK
    <3>2. ToSend(t) = {} /\ ToSend(t)' = {"complete"} /\ Said(t)' = Said(t) \cup {"complete"}
      BY <1>1, <2>1, <3>1, OneQueue DEF ToSend, Told, Said
    <3>3. protocol = GWS \/ ~stopped[t]
      BY <2>4 DEF Completes, Stopped
    <3>4. KindsInv(t)'
      BY <1>1, <1>2, <2>1, <3>1, <3>2, <3>3, OneQueue DEF KindsInv, Ending, Told
    <3>5. \A n \in Own(t) : outgoing[n].kind \in Said(t)
      BY DEF Said, Channel
    <3>6. CloseToCome(t) => CloseToCome(t)'
      BY <1>1, <2>1 DEF CloseToCome
    <3>7. OrderInv(t)'
      BY <1>1, <1>2, <2>2, <3>1, <3>2, <3>5, <3>6 DEF OrderInv, Failed, Said
    <3> QED  BY <3>4, <3>7
  <2> QED  BY <2>3, <2>4
<1>11. CASE CancelOperation(t) \/ Delete(t)
  <2>1. /\ pc[t] \in Ending /\ pc'[t] \in Ending /\ pending[t] = <<>>
        /\ UNCHANGED <<pending, executed, stopped>>
    BY <1>2, <1>11 DEF CancelOperation, Delete, Goto, TypeOK, Idle, Ending, KindsInv
  <2> QED  BY <1>2, <1>4, <2>1 DEF KindsInv, Ending
<1> QED  BY <1>5, <1>6, <1>7, <1>8, <1>9, <1>10, <1>11 DEF TaskStep

LEMMA TaskStreamStep ==
    ASSUME TypeOK, StreamInv, NEW t \in Tasks, TaskStep(t)
    PROVE  StreamInv'
<1>1. /\ UNCHANGED <<protocol, outgoing, delivered, ws, reqCanceled, reqStopped, idOf, rpc, target>>
      /\ \A u \in Tasks \ {t} : UNCHANGED <<pc[u], executed[u], pending[u], stopped[u]>>
      /\ UNCHANGED <<pending[Reader], pending[Timer]>>
      /\ pc[t] \notin {"idle", "done"} /\ pc'[t] # "idle"
  BY GoroutineNames DEF TaskStep, Unmarshal, Prepare, ResultArrives, StreamEnds, ContextDone, Finish, Complete,
         CancelOperation, Delete, Goto, Queue, TypeOK
<1>2. ASSUME NEW u \in Tasks \ {t} PROVE KindsInv(u)' /\ OrderInv(u)'
  BY <1>1, TaskFrame DEF StreamInv, Onward
<1>3. TurnsInv'
  BY <1>1, TurnsFrame DEF StreamInv
<1>4. ChannelInv'
  BY <1>1 DEF StreamInv, ChannelInv
<1>5. StopsInv'
  <2>1. \A u \in Tasks : pc'[u] = "idle" => u # t
    BY <1>1
  <2> QED  BY <1>1, <2>1 DEF StreamInv, StopsInv
<1> QED  BY <1>2, <1>3, <1>4, <1>5, OwnStep DEF StreamInv

-----------------------------------------------------------------------------
(* Messages move: into the channel, out of it, or away.                    *)

LEMMA QueueCases ==
    ASSUME NEW t \in Tasks, pending[t] \in Queues(t), pending[t] # <<>>
    PROVE  \/ Head(pending[t]) \in Closes /\ Tail(pending[t]) = <<>>
           \/ \E k \in Told \ {"connection_error"} : Head(pending[t]) = Msg(k, t) /\ Tail(pending[t]) = <<>>
           \/ /\ Head(pending[t]) = Msg("connection_error", t)
              /\ \E c \in Closes : Tail(pending[t]) = <<c>>
<1>1. CASE \E k \in Told \ {"connection_error"} : pending[t] = <<Msg(k, t)>>
  BY <1>1
<1>2. CASE \E c \in Closes : pending[t] = <<c>>
  BY <1>2
<1>3. ASSUME NEW c \in Closes, pending[t] = <<Msg("connection_error", t), c>>
      PROVE  Head(pending[t]) = Msg("connection_error", t) /\ Tail(pending[t]) = <<c>>
  BY <1>3
<1> QED  BY <1>1, <1>2, <1>3 DEF Queues

\* What is left of them may close the websocket.
LEMMA RestQueue ==
    ASSUME NEW t \in Tasks, NEW s, s = <<>> \/ \E c \in Closes : s = <<c>>
    PROVE  s \in Queues(t) /\ (s # <<>> => Head(s) \in Closes /\ Head(s).kind \notin Told)
<1>1. CASE s = <<>>
  BY <1>1 DEF Queues
<1>2. ASSUME NEW c \in Closes, s = <<c>> PROVE s \in Queues(t) /\ Head(s) \in Closes /\ Head(s).kind \notin Told
  <2>1. c.kind \notin Told
    BY DEF Closes, Msg, Told
  <2> QED  BY <1>2, <2>1 DEF Queues
<1> QED  BY <1>1, <1>2

LEMMA HeadFacts ==
    /\ \A t \in Tasks : \A k : Msg(k, t).task = t /\ Msg(k, t).kind = k
    /\ \A c \in Closes : c.task = NoTask /\ c.kind \notin Told /\ IsClose(c)
    /\ \A m : IsClose(m) => m.kind \notin Told
    /\ \A t \in Tasks, k \in Told : ~IsClose(Msg(k, t)) /\ Msg(k, t) \notin Closes
BY GoroutineNames DEF Msg, Closes, Told, IsClose, CloseKinds

\* A sender puts its own messages on the channel, or messages about nobody.
LEMMA HeadTask ==
    ASSUME TypeOK, StreamInv, NEW g \in Goroutines, pending[g] # <<>>
    PROVE  /\ Head(pending[g]).task = NoTask \/ (g \in Tasks /\ Head(pending[g]).task = g /\ Head(pending[g]).kind \in Told)
           /\ pending[g] \in Seq(Message)
<1>1. pending[g] \in Seq(Message)
  BY DEF TypeOK
<1>2. CASE g \in Tasks
  <2>1. pending[g] \in Queues(g)
    BY <1>2 DEF StreamInv, KindsInv
  <2>2. \/ Head(pending[g]) \in Closes
        \/ \E k \in Told : Head(pending[g]) = Msg(k, g)
    BY <1>2, <2>1, QueueCases DEF Told
  <2> QED  BY <1>1, <1>2, <2>2, HeadFacts
<1>3. CASE g \notin Tasks
  <2>1. 1 \in DOMAIN pending[g] /\ Head(pending[g]) = pending[g][1]
    BY <1>1
  <2> QED  BY <1>1, <1>3, <2>1 DEF StreamInv, ChannelInv, Goroutines
<1> QED  BY <1>2, <1>3

LEMMA DropStep ==
    ASSUME TypeOK, StreamInv, NEW g \in Goroutines, Drop(g)
    PROVE  StreamInv'
<1> USE DEF Drop
<1>1. /\ UNCHANGED <<protocol, outgoing, delivered, idOf, pc, executed, stopped, reqStopped, rpc, target, ws>>
      /\ reqCanceled /\ reqCanceled' /\ pending[g] # <<>> /\ ~IsClose(Head(pending[g]))
      /\ pending'[g] = Tail(pending[g]) /\ \A h \in Goroutines \ {g} : UNCHANGED pending[h]
  BY DEF TypeOK
<1> HIDE DEF Drop
<1>2. ASSUME NEW t \in Tasks \ {g} PROVE KindsInv(t)' /\ OrderInv(t)'
  BY <1>1, <1>2, TaskFrame, GoroutineNames DEF StreamInv, Onward
<1>3. ASSUME g \in Tasks PROVE KindsInv(g)' /\ OrderInv(g)'
  <2>1. KindsInv(g) /\ OrderInv(g)
    BY <1>3 DEF StreamInv
  <2>2. pending'[g] = <<>> \/ \E c \in Closes : pending'[g] = <<c>>
    BY <1>1, <1>3, <2>1, QueueCases, HeadFacts DEF KindsInv
  <2>3. pending'[g] \in Queues(g) /\ ToSend(g)' = {}
    BY <1>3, <2>2, RestQueue DEF ToSend
  <2>4. UNCHANGED <<Own(g), Channel(g), Heard(g)>> /\ Said(g)' \subseteq Said(g) /\ \A n : UNCHANGED CloseBefore(n)
    BY <1>1, <2>3 DEF Own, Channel, Heard, Said, CloseBefore
  <2>5. KindsInv(g)'
    BY <1>1, <2>1, <2>3, <2>4 DEF KindsInv, Silent, Gone
  <2>6. CloseToCome(g) => CloseToCome(g)'
    BY <1>1, <2>4, HeadFacts DEF CloseToCome
  <2>7. OrderInv(g)'
    BY <1>1, <2>1, <2>3, <2>4, <2>6 DEF OrderInv
  <2> QED  BY <2>5, <2>7
<1>4. TurnsInv'
  BY <1>1, TurnsFrame DEF StreamInv
<1>5. ChannelInv'
  <2>1. ASSUME NEW h \in {Reader, Timer}, NEW n \in DOMAIN pending'[h]
        PROVE  pending'[h][n].task = NoTask
    <3>1. CASE h = g
      <4>1. /\ pending[g] \in Seq(Message) /\ n \in 1..(Len(pending[g]) - 1)
            /\ Tail(pending[g])[n] = pending[g][n + 1] /\ n + 1 \in DOMAIN pending[g]
        BY <1>1, <2>1, <3>1 DEF TypeOK
      <4> QED  BY <1>1, <3>1, <4>1 DEF StreamInv, ChannelInv
    <3> QED  BY <1>1, <2>1, <3>1, GoroutineNames DEF StreamInv, ChannelInv
  <2> QED  BY <1>1, <2>1 DEF StreamInv, ChannelInv
<1>6. StopsInv'
  BY <1>1 DEF StreamInv, StopsInv
<1> QED  BY <1>2, <1>3, <1>4, <1>5, <1>6 DEF StreamInv

LEMMA Appended ==
    ASSUME TypeOK, NEW m, outgoing' = Append(outgoing, m)
    PROVE  /\ Len(outgoing) \in Nat /\ Len(outgoing') = Len(outgoing) + 1
           /\ DOMAIN outgoing = 1..Len(outgoing) /\ DOMAIN outgoing' = 1..(Len(outgoing) + 1)
           /\ \A n \in 1..Len(outgoing) : outgoing'[n] = outgoing[n]
           /\ outgoing'[Len(outgoing) + 1] = m
BY DEF TypeOK

LEMMA AppendedOwn ==
    ASSUME TypeOK, NEW m, outgoing' = Append(outgoing, m), NEW t \in Tasks
    PROVE  /\ Own(t) \subseteq 1..Len(outgoing) /\ \A n \in Own(t) : outgoing'[n] = outgoing[n]
           /\ m.task # t => UNCHANGED <<Own(t), Channel(t)>>
           /\ m.task = t => /\ Own(t)' = Own(t) \cup {Len(outgoing) + 1}
                            /\ Channel(t)' = Channel(t) \cup {m.kind}
           /\ \A n \in 1..(Len(outgoing) + 1) : UNCHANGED CloseBefore(n)
           /\ CloseBefore(Len(outgoing) + 1) \/ IsClose(m) => CloseBefore(Len(outgoing) + 1)'
<1>1. /\ Own(t) \subseteq 1..Len(outgoing) /\ \A n \in Own(t) : outgoing'[n] = outgoing[n]
      /\ m.task # t => UNCHANGED Own(t)
      /\ m.task = t => Own(t)' = Own(t) \cup {Len(outgoing) + 1}
  BY Appended DEF Own
<1>2. /\ m.task # t => UNCHANGED Channel(t)
      /\ m.task = t => Channel(t)' = Channel(t) \cup {m.kind}
  BY <1>1, Appended DEF Channel
<1>3. \A n \in 1..(Len(outgoing) + 1) : UNCHANGED CloseBefore(n)
  BY Appended DEF CloseBefore
<1>4. CloseBefore(Len(outgoing) + 1) \/ IsClose(m) => CloseBefore(Len(outgoing) + 1)'
  BY Appended DEF CloseBefore
<1> QED  BY <1>1, <1>2, <1>3, <1>4

LEMMA SendStep ==
    ASSUME TypeOK, StreamInv, NEW g \in Goroutines, Send(g)
    PROVE  StreamInv'
<1> DEFINE h == Head(pending[g])
<1> PICK l \in Nat : l = Len(outgoing)
  BY DEF TypeOK
<1>1. /\ UNCHANGED <<protocol, delivered, idOf, pc, executed, stopped, reqStopped, rpc, target, ws, reqCanceled>>
      /\ outgoing' = Append(outgoing, h) /\ pending[g] # <<>>
      /\ pending'[g] = Tail(pending[g]) /\ \A u \in Goroutines \ {g} : UNCHANGED pending[u]
  BY DEF Send, TypeOK
<1>2. /\ h.task = NoTask \/ (g \in Tasks /\ h.task = g /\ h.kind \in Told)
      /\ pending[g] \in Seq(Message)
  BY <1>1, HeadTask
<1> HIDE DEF h
<1>3. ASSUME NEW t \in Tasks \ {g} PROVE KindsInv(t)' /\ OrderInv(t)'
  <2>1. KindsInv(t) /\ OrderInv(t) /\ h.task # t /\ t \in Tasks
    BY <1>2, <1>3, GoroutineNames DEF StreamInv
  <2>2. UNCHANGED <<pending[t], ToSend(t), Heard(t), Own(t), Channel(t), Said(t), Gone>>
    BY <1>1, <1>3, <2>1, AppendedOwn, GoroutineNames DEF ToSend, Heard, Said, Gone
  <2>3. \A n \in Own(t) : outgoing'[n] = outgoing[n] /\ UNCHANGED CloseBefore(n)
    BY <1>1, <2>1, AppendedOwn, Appended
  <2>4. CloseToCome(t) => CloseToCome(t)'
    BY <1>1, <2>1, <2>2, AppendedOwn DEF CloseToCome
  <2>5. KindsInv(t)'
    BY <1>1, <2>1, <2>2 DEF KindsInv, Silent
  <2>6. OrderInv(t)'
    BY <1>1, <2>1, <2>2, <2>3, <2>4 DEF OrderInv
  <2> QED  BY <2>5, <2>6
<1>4. ASSUME g \in Tasks PROVE KindsInv(g)' /\ OrderInv(g)'
  <2>1. KindsInv(g) /\ OrderInv(g) /\ pending[g] \in Queues(g) /\ pc[g] \notin {"idle", "unmarshal", "prepare", "delete", "done"}
    BY <1>1, <1>4 DEF StreamInv, KindsInv, Silent
  <2>2. UNCHANGED <<Heard(g), Gone>>
    BY <1>1 DEF Heard, Gone
  <2>3. /\ l \in Nat /\ Own(g) \subseteq 1..l
        /\ \A n \in Own(g) : outgoing'[n] = outgoing[n] /\ UNCHANGED CloseBefore(n)
        /\ outgoing'[l + 1] = h
        /\ UNCHANGED CloseBefore(l + 1)
    BY <1>1, <1>4, Appended, AppendedOwn
  <2>4. /\ \A n \in Own(g) : outgoing[n].kind # "complete"
        /\ "complete" \notin Heard(g)
    BY <1>1, <2>1 DEF OrderInv
  <2>5. CASE h \in Closes /\ Tail(pending[g]) = <<>>
    <3>1. UNCHANGED <<Own(g), Channel(g)>> /\ IsClose(h) /\ h.kind \notin Told /\ CloseToCome(g)'
      BY <1>1, <1>4, <2>5, AppendedOwn, HeadFacts, GoroutineNames DEF CloseToCome
    <3>2. ToSend(g) = {} /\ ToSend(g)' = {}
      BY <1>1, <2>5, <3>1 DEF ToSend, h
    <3> UNCHANGED Said(g)
      BY <2>2, <3>1, <3>2 DEF Said
    <3>3. KindsInv(g)'
      BY <1>1, <2>1, <2>2, <2>5, <3>2 DEF KindsInv, Silent, Queues
    <3>4. OrderInv(g)'
      BY <1>1, <2>1, <2>2, <2>3, <2>4, <3>1, <3>2 DEF OrderInv
    <3> QED  BY <3>3, <3>4
  <2>6. ASSUME NEW k \in Told, h = Msg(k, g), Tail(pending[g]) \in {<<>>} \cup {<<c>> : c \in Closes},
               k = "connection_error" => \E c \in Closes : Tail(pending[g]) = <<c>>,
               k # "connection_error" => Tail(pending[g]) = <<>>
        PROVE  KindsInv(g)' /\ OrderInv(g)'
    <3>1. h.task = g /\ h.kind = k /\ ~IsClose(h) /\ h \notin Closes
      BY <1>4, <2>6, HeadFacts
    <3>2. Own(g)' = Own(g) \cup {l + 1} /\ Channel(g)' = Channel(g) \cup {k}
      BY <1>1, <1>4, <3>1, AppendedOwn
    <3>3. ToSend(g) = {k}
      BY <1>1, <2>6, <3>1 DEF ToSend, h
    <3>4. ToSend(g)' = {} /\ pending'[g] \in Queues(g)
      BY <1>1, <1>4, <2>6, RestQueue DEF ToSend
    <3>5. UNCHANGED Said(g)
      BY <2>2, <3>2, <3>3, <3>4 DEF Said
    <3>6. KindsInv(g)'
      <4>1. ~Silent(g)
        BY <1>1 DEF Silent
      <4> QED  BY <1>1, <2>1, <2>2, <3>4, <3>5, <4>1 DEF KindsInv
    <3>7. k \in Failed => Own(g) = {} /\ delivered[g] = <<>>
      BY <2>1, <3>3 DEF OrderInv
    <3>8. k = "connection_error" => CloseToCome(g)' /\ Heard(g) = {} /\ Own(g) = {}
      <4>1. delivered[g] = <<>> => Heard(g) = {}
        BY DEF Heard
      <4>2. \A c \in Closes : pending'[g] = <<c>> => CloseToCome(g)'
        BY <1>4, RestQueue DEF CloseToCome
      <4> QED  BY <1>1, <2>6, <3>7, <4>1, <4>2 DEF Failed
    <3>9. "connection_error" \in Channel(g) \cup Heard(g) /\ ws = "open" => CloseBefore(l + 1)' /\ CloseToCome(g)'
      <4> SUFFICES ASSUME "connection_error" \in Channel(g) \cup Heard(g), ws = "open"
                   PROVE  CloseBefore(l + 1)' /\ CloseToCome(g)'
        OBVIOUS
      <4>1. CloseBefore(Len(outgoing) + 1)
        BY <2>1, <3>1 DEF OrderInv, CloseToCome, h
      <4>2. CloseToCome(g)'
        BY <1>1, <1>4, <4>1, AppendedOwn DEF CloseToCome
      <4> QED  BY <2>3, <4>1, <4>2
    <3>10. /\ \A n \in Own(g)' : outgoing'[n].kind \in Failed =>
                delivered'[g] = <<>> /\ \A m \in Own(g)' : n <= m
           /\ \A n \in Own(g)' : outgoing'[n].kind = "complete" =>
                pending'[g] = <<>> /\ \A m \in Own(g)' : m <= n
      <4>1. ASSUME NEW n \in Own(g)', outgoing'[n].kind \in Failed
            PROVE  delivered'[g] = <<>> /\ \A m \in Own(g)' : n <= m
        <5>1. CASE n \in Own(g)
          BY <1>1, <2>1, <2>3, <3>2, <4>1, <5>1 DEF OrderInv
        <5>2. CASE n = l + 1
          BY <1>1, <2>3, <3>1, <3>2, <3>7, <4>1, <5>2
        <5> QED  BY <3>2, <5>1, <5>2
      <4>2. ASSUME NEW n \in Own(g)', outgoing'[n].kind = "complete"
            PROVE  pending'[g] = <<>> /\ \A m \in Own(g)' : m <= n
        BY <1>1, <2>3, <2>4, <2>6, <3>1, <3>2, <4>2
      <4> QED  BY <4>1, <4>2
    <3>11. "connection_error" \in Channel(g)' \cup Heard(g)' =>
             /\ ws # "open" \/ CloseToCome(g)'
             /\ \A n \in Own(g)' : outgoing'[n].kind = "complete" => ws # "open" \/ CloseBefore(n)'
      <4>1. CASE k = "connection_error"
        BY <2>3, <3>1, <3>2, <3>8, <4>1
      <4>2. CASE k # "connection_error"
        BY <2>2, <2>3, <2>4, <3>1, <3>2, <3>9, <4>2
      <4> QED  BY <4>1, <4>2
    <3>12. OrderInv(g)'
      BY <1>1, <2>2, <2>4, <3>4, <3>10, <3>11 DEF OrderInv
    <3> QED  BY <3>6, <3>12
  <2> QED  BY <1>1, <1>4, <2>1, <2>5, <2>6, QueueCases DEF h, Told
<1>5. TurnsInv'
  <2>1. \A u \in Tasks : h.task # u => UNCHANGED Own(u)
    BY <1>1, AppendedOwn
  <2>2. \A u \in Tasks : pc[u] = "done" => u # g
    BY <1>1 DEF StreamInv, KindsInv
  <2>3. \A u \in Tasks : Own(u) \subseteq 1..l /\ Own(u)' \subseteq Own(u) \cup {l + 1}
    BY <1>1, AppendedOwn
  <2>4. \A u \in Tasks : u # g => h.task # u
    BY <1>2, GoroutineNames
  <2>6. ASSUME NEW u \in Tasks, NEW v \in Tasks, Precedes(u, v) PROVE Precedes(u, v)'
    <3>1. UNCHANGED Own(u)
      BY <2>1, <2>2, <2>4, <2>6 DEF Precedes
    <3> QED  BY <1>1, <2>3, <2>6, <3>1 DEF Precedes
  <2> QED  BY <1>1, <2>6 DEF StreamInv, TurnsInv
<1>6. ChannelInv'
  <2>1. ASSUME NEW u \in {Reader, Timer}, NEW n \in DOMAIN pending'[u]
        PROVE  pending'[u][n].task = NoTask
    <3>1. CASE u = g
      <4> pending[g] \in Seq(Message) /\ pending[g] # <<>> /\ n \in DOMAIN Tail(pending[g])
        BY <1>1, <1>2, <3>1
      <4>1. Tail(pending[g])[n] = pending[g][n + 1] /\ n + 1 \in DOMAIN pending[g]
        OBVIOUS
      <4> QED  BY <1>1, <3>1, <4>1 DEF StreamInv, ChannelInv
    <3> QED  BY <1>1, <2>1, <3>1, GoroutineNames DEF StreamInv, ChannelInv
  <2>2. \A n \in DOMAIN outgoing' : outgoing'[n].task = NoTask \/ outgoing'[n].kind \in Told
    BY <1>1, <1>2, Appended DEF StreamInv, ChannelInv
  <2> QED  BY <2>1, <2>2 DEF ChannelInv
<1>7. StopsInv'
  BY <1>1 DEF StreamInv, StopsInv
<1> QED  BY <1>3, <1>4, <1>5, <1>6, <1>7 DEF StreamInv

LEMMA Removed ==
    ASSUME TypeOK, outgoing # <<>>, outgoing' = Tail(outgoing)
    PROVE  /\ DOMAIN outgoing = 1..Len(outgoing) /\ Len(outgoing) \in Nat \ {0}
           /\ DOMAIN outgoing' = 1..(Len(outgoing) - 1)
           /\ \A n \in DOMAIN outgoing' : n + 1 \in DOMAIN outgoing /\ outgoing'[n] = outgoing[n + 1]
           /\ \A n \in DOMAIN outgoing : n # 1 => n - 1 \in DOMAIN outgoing' /\ outgoing'[n - 1] = outgoing[n]
           /\ Head(outgoing) = outgoing[1] /\ 1 \in DOMAIN outgoing
           /\ Head(outgoing) \in Message
<1>1. outgoing \in Seq(Message)
  BY DEF TypeOK
<1>2. /\ DOMAIN outgoing = 1..Len(outgoing) /\ Len(outgoing) \in Nat \ {0}
      /\ DOMAIN outgoing' = 1..(Len(outgoing) - 1)
      /\ \A n \in DOMAIN outgoing' : outgoing'[n] = outgoing[n + 1]
      /\ Head(outgoing) = outgoing[1] /\ Head(outgoing) \in Message
  BY <1>1
<1> QED  BY <1>2

LEMMA RemovedOwn ==
    ASSUME TypeOK, outgoing # <<>>, outgoing' = Tail(outgoing), NEW t \in Tasks
    PROVE  /\ Own(t) \subseteq Int /\ Own(t)' \subseteq Int
           /\ \A n \in Own(t)' : n + 1 \in Own(t) /\ outgoing'[n] = outgoing[n + 1] /\ n + 1 > 1
           /\ Channel(t)' \subseteq Channel(t)
           /\ Head(outgoing).task # t => UNCHANGED Channel(t)
           /\ Head(outgoing).task = t => /\ 1 \in Own(t) /\ Head(outgoing) = outgoing[1]
                                         /\ Channel(t) = Channel(t)' \cup {Head(outgoing).kind}
           /\ ~IsClose(Head(outgoing)) =>
                 /\ \A n \in DOMAIN outgoing' : CloseBefore(n + 1) => CloseBefore(n)'
                 /\ CloseBefore(Len(outgoing) + 1) => CloseBefore(Len(outgoing) + 1)'
<1>1. /\ Own(t) \subseteq DOMAIN outgoing /\ Own(t)' \subseteq DOMAIN outgoing'
      /\ \A n \in Own(t)' : n + 1 \in Own(t) /\ outgoing'[n] = outgoing[n + 1]
      /\ \A n \in Own(t) : n # 1 => n - 1 \in Own(t)'
      /\ 1 \in Own(t) <=> Head(outgoing).task = t
  BY Removed DEF Own
<1>2. Own(t) \subseteq Int /\ Own(t)' \subseteq Int /\ \A n \in Own(t)' : n + 1 > 1
  BY <1>1, Removed
<1>3. Channel(t)' \subseteq Channel(t)
  BY <1>1 DEF Channel
<1>4. Channel(t) \subseteq Channel(t)' \cup {outgoing[1].kind} /\ (1 \notin Own(t) => Channel(t) \subseteq Channel(t)')
  <2>1. ASSUME NEW n \in Own(t), n # 1 PROVE outgoing[n].kind \in Channel(t)'
    <3>1. n - 1 \in Own(t)' /\ outgoing'[n - 1] = outgoing[n]
      BY <1>1, <2>1, Removed
    <3> QED  BY <3>1 DEF Channel
  <2> QED  BY <2>1 DEF Channel
<1>5. 1 \in Own(t) => outgoing[1].kind \in Channel(t)
  BY DEF Channel
<1>6. ASSUME ~IsClose(Head(outgoing))
      PROVE  /\ \A n \in DOMAIN outgoing' : CloseBefore(n + 1) => CloseBefore(n)'
             /\ CloseBefore(Len(outgoing) + 1) => CloseBefore(Len(outgoing) + 1)'
  <2>1. \A m \in DOMAIN outgoing : IsClose(outgoing[m]) => m # 1 /\ m - 1 \in DOMAIN outgoing' /\ outgoing'[m - 1] = outgoing[m]
    BY <1>6, Removed
  <2>2. Len(outgoing') = Len(outgoing) - 1
    BY DEF TypeOK
  <2> QED  BY <2>1, <2>2, Removed DEF CloseBefore
<1>7. ASSUME Head(outgoing).task = t
      PROVE  1 \in Own(t) /\ Head(outgoing) = outgoing[1] /\ Channel(t) = Channel(t)' \cup {Head(outgoing).kind}
  <2>1. 1 \in Own(t) /\ Head(outgoing) = outgoing[1]
    BY <1>1, <1>7, Removed
  <2> QED  BY <1>3, <1>4, <1>5, <2>1
<1>8. Head(outgoing).task # t => UNCHANGED Channel(t)
  BY <1>1, <1>3, <1>4
<1>9. \A n \in Own(t)' : n + 1 \in Own(t) /\ outgoing'[n] = outgoing[n + 1] /\ n + 1 > 1
  BY <1>1, <1>2
<1> QED  BY <1>2, <1>3, <1>6, <1>7, <1>8, <1>9

\* The writer takes a message; only one that is written is heard.
Heeds(m) ==
    IF WriteOk /\ ws = "open" /\ m.task # NoTask
    THEN delivered' = [delivered EXCEPT ![m.task] = Recorded(@, m.kind)]
    ELSE /\ UNCHANGED delivered
         /\ m.task # NoTask => ws' # "open"

LEMMA ReceiveFacts ==
    ASSUME TypeOK, StreamInv, WriteOk \/ WriteFails \/ WriteClose
    PROVE  /\ outgoing # <<>> /\ outgoing' = Tail(outgoing)
           /\ UNCHANGED <<pc, executed, stopped, protocol, idOf, pending, reqStopped, reqCanceled, rpc, target>>
           /\ ws # "open" => ws' # "open"
           /\ IsClose(Head(outgoing)) => ws' # "open"
           /\ Head(outgoing).task # NoTask => /\ Head(outgoing).task \in Tasks
                                              /\ Head(outgoing).kind \in Told
                                              /\ ~IsClose(Head(outgoing))
           /\ Heeds(Head(outgoing))
<1> DEFINE m == Head(outgoing)
<1>1. outgoing # <<>> /\ outgoing' = Tail(outgoing)
  BY DEF WriteOk, WriteFails, WriteClose, Receive
<1>2. m \in Message /\ (m.task = NoTask \/ m.kind \in Told)
  BY <1>1, Removed DEF StreamInv, ChannelInv
<1>3. m.task # NoTask => m.task \in Tasks /\ m.kind \in Told /\ ~IsClose(m)
  BY <1>2, HeadFacts DEF Message
<1>4. Heeds(m)
  BY <1>3 DEF WriteOk, WriteFails, WriteClose, Heeds, TypeOK
<1> HIDE DEF m
<1>5. /\ UNCHANGED <<pc, executed, stopped, protocol, idOf, pending, reqStopped, reqCanceled, rpc, target>>
      /\ ws # "open" => ws' # "open"
      /\ IsClose(m) => ws' # "open"
  BY DEF WriteOk, WriteFails, WriteClose, Receive, m
<1> QED  BY <1>1, <1>3, <1>4, <1>5 DEF m

LEMMA RecordedFacts ==
    ASSUME NEW s \in Seq(Kinds), NEW k \in Kinds
    PROVE  /\ Recorded(s, k) = Stream!Extended(s, k)
           /\ {Recorded(s, k)[n] : n \in DOMAIN Recorded(s, k)} = {s[n] : n \in DOMAIN s} \cup {k}
           /\ Stream!LastOf(Recorded(s, k)) = k /\ Recorded(s, k) # <<>>
           /\ Recorded(s, k) \in Seq(Kinds)
<1>1. CASE k = "data" /\ s # <<>> /\ s[Len(s)] = "data"
  <2>1. Recorded(s, k) = s /\ Stream!Extended(s, k) = s /\ Len(s) \in DOMAIN s
    BY <1>1 DEF Recorded, Stream!Extended, Stream!LastOf
  <2> QED  BY <1>1, <2>1 DEF Stream!LastOf
<1>2. CASE ~(k = "data" /\ s # <<>> /\ s[Len(s)] = "data")
  <2>1. Recorded(s, k) = Append(s, k)
    BY <1>2 DEF Recorded
  <2>2. Stream!Extended(s, k) = Append(s, k)
    BY <1>2 DEF Stream!Extended, Stream!LastOf
  <2>3. Len(Append(s, k)) = Len(s) + 1 /\ Append(s, k)[Len(s) + 1] = k /\ Append(s, k) # <<>>
        /\ DOMAIN Append(s, k) = 1..(Len(s) + 1) /\ \A n \in DOMAIN s : Append(s, k)[n] = s[n]
        /\ DOMAIN s = 1..Len(s) /\ Append(s, k) \in Seq(Kinds) /\ Len(s) \in Nat
    OBVIOUS
  <2>4. {Append(s, k)[n] : n \in DOMAIN Append(s, k)} = {s[n] : n \in DOMAIN s} \cup {k}
    BY <2>3
  <2> QED  BY <2>1, <2>2, <2>3, <2>4 DEF Stream!LastOf
<1> QED  BY <1>1, <1>2

LEMMA ReceiveStep ==
    ASSUME TypeOK, StreamInv, WriteOk \/ WriteFails \/ WriteClose
    PROVE  StreamInv'
<1> DEFINE h == Head(outgoing)
<1>1. /\ outgoing # <<>> /\ outgoing' = Tail(outgoing)
      /\ UNCHANGED <<pc, executed, stopped, protocol, idOf, pending, reqStopped, reqCanceled, rpc, target>>
      /\ ws # "open" => ws' # "open"
      /\ IsClose(h) => ws' # "open"
      /\ h.task # NoTask => h.task \in Tasks /\ h.kind \in Told /\ ~IsClose(h)
      /\ Heeds(h)
  BY ReceiveFacts
<1> HIDE DEF h
<1>2. ASSUME NEW t \in Tasks PROVE KindsInv(t)' /\ OrderInv(t)'
  <2> DEFINE heard == WriteOk /\ ws = "open" /\ h.task = t
  <2>1. /\ KindsInv(t) /\ OrderInv(t) /\ UNCHANGED <<pending[t], ToSend(t)>> /\ (Gone => Gone')
        /\ t # NoTask /\ delivered[t] \in Seq(Kinds)
    BY <1>1, GoroutineNames DEF StreamInv, ToSend, Gone, TypeOK
  <2>2. /\ Own(t) \subseteq Int /\ Own(t)' \subseteq Int
        /\ \A n \in Own(t)' : n + 1 \in Own(t) /\ outgoing'[n] = outgoing[n + 1] /\ n + 1 > 1
        /\ Channel(t)' \subseteq Channel(t)
        /\ h.task # t => UNCHANGED Channel(t)
        /\ h.task = t => 1 \in Own(t) /\ h = outgoing[1] /\ Channel(t) = Channel(t)' \cup {h.kind}
    BY <1>1, RemovedOwn DEF h
  <2>3. ~heard => UNCHANGED delivered[t] /\ (h.task = t => ws' # "open")
    BY <1>1, <2>1 DEF Heeds, TypeOK
  <2>4. heard => delivered'[t] = Recorded(delivered[t], h.kind) /\ h.kind \in Kinds \cap Told
    BY <1>1, <2>1 DEF Heeds, TypeOK, Told, Kinds
  <2>5. heard => Heard(t)' = Heard(t) \cup {h.kind} /\ Stream!LastOf(delivered'[t]) = h.kind
    <3>1. ASSUME heard
          PROVE  Heard(t)' = Heard(t) \cup {h.kind} /\ Stream!LastOf(delivered'[t]) = h.kind
      <4>1. delivered[t] \in Seq(Kinds) /\ h.kind \in Kinds /\ delivered'[t] = Recorded(delivered[t], h.kind)
        BY <2>1, <2>4, <3>1
      <4> DEFINE HeardIn(s) == {s[n] : n \in DOMAIN s}
      <4>2. HeardIn(Recorded(delivered[t], h.kind)) = HeardIn(delivered[t]) \cup {h.kind}
            /\ Stream!LastOf(Recorded(delivered[t], h.kind)) = h.kind
        BY <4>1, RecordedFacts
      <4>3. Heard(t)' = HeardIn(delivered'[t]) /\ Heard(t) = HeardIn(delivered[t])
        BY DEF Heard
      <4> HIDE DEF HeardIn
      <4> QED  BY <4>1, <4>2, <4>3
    <3> QED  BY <3>1
  <2>6. ~heard => UNCHANGED Heard(t)
    BY <2>3 DEF Heard
  <2> HIDE DEF heard
  <2>7. Said(t)' \subseteq Said(t) /\ (UNCHANGED Said(t) \/ Gone')
    BY <2>1, <2>2, <2>3, <2>5, <2>6 DEF Said, heard, Gone
  <2>8. Silent(t) => Silent(t)'
    BY <1>1, <2>1, <2>2, <2>3 DEF Silent, heard
  <2>9. KindsInv(t)'
    BY <1>1, <2>1, <2>7, <2>8 DEF KindsInv
  <2>10. /\ \A n \in Own(t)' : outgoing'[n].kind \in Failed =>
               delivered'[t] = <<>> /\ \A m \in Own(t)' : n <= m
         /\ \A n \in Own(t)' : outgoing'[n].kind = "complete" =>
               pending'[t] = <<>> /\ \A m \in Own(t)' : m <= n
    <3>1. ASSUME NEW n \in Own(t)', outgoing'[n].kind \in Failed
          PROVE  delivered'[t] = <<>> /\ \A m \in Own(t)' : n <= m
      <4>1. delivered[t] = <<>> /\ \A m \in Own(t) : n + 1 <= m
        BY <2>1, <2>2, <3>1 DEF OrderInv
      <4>2. h.task # t
        BY <2>2, <3>1, <4>1
      <4> QED  BY <2>2, <2>3, <3>1, <4>1, <4>2 DEF heard
    <3>2. ASSUME NEW n \in Own(t)', outgoing'[n].kind = "complete"
          PROVE  pending'[t] = <<>> /\ \A m \in Own(t)' : m <= n
      <4>1. pending[t] = <<>> /\ \A m \in Own(t) : m <= n + 1
        BY <2>1, <2>2, <3>2 DEF OrderInv
      <4> QED  BY <2>1, <2>2, <3>2, <4>1
    <3> QED  BY <3>1, <3>2
  <2>11. "complete" \in Heard(t)' => Own(t)' = {} /\ pending'[t] = <<>> /\ Stream!LastOf(delivered'[t]) = "complete"
    <3>1. CASE "complete" \in Heard(t)
      <4>1. Own(t) = {} /\ pending[t] = <<>> /\ Stream!LastOf(delivered[t]) = "complete"
        BY <2>1, <3>1 DEF OrderInv
      <4> QED  BY <2>1, <2>2, <2>3, <4>1 DEF heard
    <3>2. CASE "complete" \notin Heard(t) /\ heard /\ h.kind = "complete"
      <4>1. pending[t] = <<>> /\ \A m \in Own(t) : m <= 1
        BY <2>1, <2>2, <3>2 DEF OrderInv, heard
      <4> QED  BY <2>1, <2>2, <2>5, <3>2, <4>1
    <3> QED  BY <2>5, <2>6, <3>1, <3>2
  <2>12. "connection_error" \in Channel(t)' \cup Heard(t)' =>
            /\ ws' # "open" \/ CloseToCome(t)'
            /\ \A n \in Own(t)' : outgoing'[n].kind = "complete" => ws' # "open" \/ CloseBefore(n)'
    <3> SUFFICES ASSUME "connection_error" \in Channel(t)' \cup Heard(t)', ws' = "open"
                 PROVE  /\ CloseToCome(t)'
                        /\ \A n \in Own(t)' : outgoing'[n].kind = "complete" => CloseBefore(n)'
      OBVIOUS
    <3>1. "connection_error" \in Channel(t) \cup Heard(t) /\ ws = "open" /\ ~IsClose(h)
      BY <1>1, <2>2, <2>5, <2>6 DEF heard
    <3>2. CloseToCome(t) /\ \A n \in Own(t) : outgoing[n].kind = "complete" => CloseBefore(n)
      BY <2>1, <3>1 DEF OrderInv
    <3>3. /\ \A n \in DOMAIN outgoing' : CloseBefore(n + 1) => CloseBefore(n)'
          /\ CloseBefore(Len(outgoing) + 1) => CloseBefore(Len(outgoing) + 1)'
      BY <1>1, <3>1, RemovedOwn DEF h
    <3>4. CloseToCome(t)'
      BY <2>1, <3>2, <3>3 DEF CloseToCome
    <3>5. Own(t)' \subseteq DOMAIN outgoing'
      BY DEF Own
    <3> QED  BY <2>2, <3>2, <3>3, <3>4, <3>5
  <2>13. ToSend(t)' \cap Failed # {} => Own(t)' = {} /\ delivered'[t] = <<>>
    <3> SUFFICES ASSUME ToSend(t)' \cap Failed # {} PROVE Own(t)' = {} /\ delivered'[t] = <<>>
      OBVIOUS
    <3>1. Own(t) = {} /\ delivered[t] = <<>>
      BY <2>1 DEF OrderInv
    <3> QED  BY <2>2, <2>3, <3>1 DEF heard
  <2>14. OrderInv(t)'
    BY <2>10, <2>11, <2>12, <2>13 DEF OrderInv
  <2> QED  BY <2>9, <2>14
<1>3. TurnsInv'
  <2>1. ASSUME NEW u \in Tasks, NEW v \in Tasks, Precedes(u, v) PROVE Precedes(u, v)'
    <3>1. /\ \A n \in Own(u)' : n + 1 \in Own(u) /\ n \in Int
          /\ \A n \in Own(v)' : n + 1 \in Own(v) /\ n \in Int
          /\ Own(u) \subseteq Int /\ \A n \in Own(u)' : n + 1 > 1
          /\ h.task = v => 1 \in Own(v)
      BY <1>1, RemovedOwn DEF h
    <3>2. \A m \in Own(u)', n \in Own(v)' : m < n
      BY <2>1, <3>1 DEF Precedes
    <3>3. delivered'[v] # <<>> => Own(u)' = {}
      <4>1. CASE delivered[v] # <<>>
        BY <2>1, <3>1, <4>1 DEF Precedes
      <4>2. CASE h.task = v
        BY <2>1, <3>1, <4>2 DEF Precedes
      <4>3. h.task # v => UNCHANGED delivered[v]
        BY <1>1 DEF Heeds, TypeOK
      <4> QED  BY <4>1, <4>2, <4>3
    <3> QED  BY <1>1, <2>1, <3>2, <3>3 DEF Precedes
  <2> QED  BY <1>1, <2>1 DEF StreamInv, TurnsInv
<1>4. ChannelInv'
  BY <1>1, Removed DEF StreamInv, ChannelInv
<1>5. StopsInv'
  BY <1>1 DEF StreamInv, StopsInv
<1> QED  BY <1>2, <1>3, <1>4, <1>5 DEF StreamInv

LEMMA StreamStep == TypeOK /\ TableConsistent /\ StreamInv /\ [Next]_vars => StreamInv'
<1> SUFFICES ASSUME TypeOK, TableConsistent, StreamInv, [Next]_vars PROVE StreamInv'
  OBVIOUS
<1>1. ASSUME Aside, ChannelInv', StopsInv' PROVE StreamInv'
  BY <1>1, AsideFrame DEF StreamInv
<1>2. CASE UNCHANGED vars
  <2>1. Aside /\ ChannelInv' /\ StopsInv'
    BY <1>2 DEF vars, Aside, Onward, StreamInv, ChannelInv, StopsInv
  <2> QED  BY <1>1, <2>1
<1>3. CASE ReaderMessage \/ ReaderStep
  BY <1>1, <1>3, ReaderSteps, StartStep
<1>4. CASE TimerFires \/ TimerCanceled \/ TimerReturns \/ KeepaliveFails \/ PeerLeaves \/ ParentCancel
  BY <1>1, <1>4, OtherSteps
<1>5. ASSUME NEW t \in Tasks, TaskStep(t) PROVE StreamInv'
  BY <1>5, TaskStreamStep
<1>6. ASSUME NEW g \in Goroutines, Send(g) \/ Drop(g) \/ SendPanics(g) PROVE StreamInv'
  <2>1. CASE SendPanics(g)
    <3>1. Aside /\ ChannelInv' /\ StopsInv'
      BY <2>1 DEF SendPanics, Aside, Onward, StreamInv, ChannelInv, StopsInv
    <3> QED  BY <1>1, <3>1
  <2> QED  BY <1>6, <2>1, SendStep, DropStep
<1>7. CASE WriterStep
  <2>1. CASE WriterExits
    <3>1. Aside /\ ChannelInv' /\ StopsInv'
      BY <2>1 DEF WriterExits, Aside, Onward, StreamInv, ChannelInv, StopsInv
    <3> QED  BY <1>1, <3>1
  <2> QED  BY <1>7, <2>1, ReceiveStep DEF WriterStep
<1> QED  BY <1>2, <1>3, <1>4, <1>5, <1>6, <1>7 DEF Next, Step

-----------------------------------------------------------------------------
(* The refinement.                                                         *)

\* An operation that is over drains as long as messages of it are queued.
PhaseNow(t) == IF pc[t] = "idle" THEN "new"
               ELSE IF pc[t] # "done" THEN "live"
               ELSE IF Own(t) # {} THEN "draining" ELSE "closed"

LEMMA PhaseIs ==
    ASSUME NEW t \in Tasks
    PROVE  /\ KindsInv(t) => Phase(t) = PhaseNow(t)
           /\ KindsInv(t)' => Phase(t)' = PhaseNow(t)'
<1>1. ASSUME KindsInv(t), pc[t] = "done" PROVE Undelivered(t) <=> Own(t) # {}
  <2>1. pending[t] = <<>>
    BY <1>1 DEF KindsInv
  <2> QED  BY <2>1 DEF Undelivered, Own
<1>2. ASSUME KindsInv(t)', pc'[t] = "done" PROVE Undelivered(t)' <=> Own(t)' # {}
  <2>1. pending'[t] = <<>>
    BY <1>2 DEF KindsInv
  <2> QED  BY <2>1 DEF Undelivered, Own
<1> QED  BY <1>1, <1>2 DEF Phase, PhaseNow, Live

\* What the abstract specification allows, in terms of one operation.
Settles(t) ==
    /\ \A u \in Tasks \ {t} : UNCHANGED Phase(u)
    /\ \/ UNCHANGED Phase(t)
       \/ Phase(t) = "live" /\ Phase(t)' = "draining"
       \/ Phase(t) \in {"live", "draining"} /\ Phase(t)' = "closed" /\ Stream!MayClose(t)

LEMMA SettleStep ==
    ASSUME NEW t \in Tasks, Settles(t)
    PROVE  Stream!Settle(t)
<1>1. CASE \A u \in Tasks : UNCHANGED Phase(u)
  BY <1>1 DEF Stream!Settle
<1>2. CASE Phase(t) = "live" /\ Phase(t)' = "draining"
  <2>1. [u \in Tasks |-> Phase(u)]' = [[u \in Tasks |-> Phase(u)] EXCEPT ![t] = "draining"]
    <3>1. \A u \in Tasks : Phase(u)' = IF u = t THEN "draining" ELSE Phase(u)
      BY <1>2 DEF Settles
    <3> QED  BY <3>1
  <2> QED  BY <1>2, <2>1 DEF Stream!Settle
<1>3. CASE Phase(t) \in {"live", "draining"} /\ Phase(t)' = "closed" /\ Stream!MayClose(t)
  BY <1>3 DEF Settles, Stream!Settle
<1> QED  BY <1>1, <1>2, <1>3 DEF Settles

LEMMA EndStep ==
    ASSUME NEW t \in Tasks, Settles(t), UNCHANGED <<protocol, idOf, stopped, delivered>>, Gone => Gone'
    PROVE  Stream!Next
<1>1. (ws # "open" \/ reqCanceled)' \in {ws # "open" \/ reqCanceled, TRUE}
  BY DEF Gone
<1>2. Stream!End(t)
  BY <1>1, SettleStep DEF Stream!End
<1> QED  BY <1>2 DEF Stream!Next

\* A step that the operations' client does not notice.
LEMMA QuietStep ==
    ASSUME Tasks # {}, UNCHANGED <<protocol, idOf, stopped, delivered>>, Gone => Gone',
           \A u \in Tasks : UNCHANGED Phase(u)
    PROVE  Stream!Next
<1>1. PICK t \in Tasks : TRUE
  OBVIOUS
<1> QED  BY <1>1, EndStep DEF Settles

LEMMA ClosesTold ==
    ASSUME NEW t \in Tasks, KindsInv(t)', OrderInv(t)', pc'[t] = "done", Own(t)' = {},
           UNCHANGED <<stopped, protocol>>
    PROVE  Stream!MayClose(t)
<1>1. Channel(t)' = {} /\ ToSend(t)' = {}
  BY DEF Channel, ToSend, KindsInv
<1>2. "complete" \in Heard(t)' \/ Gone' \/ (stopped[t] /\ protocol = GTWS)
  BY <1>1 DEF KindsInv, Ending, Said
<1>3. "complete" \in Heard(t)' => Stream!LastOf(delivered'[t]) = "complete"
  BY DEF OrderInv
<1> QED  BY <1>2, <1>3 DEF Stream!MayClose, Stream!Over, Gone, GTWS

LEMMA BeginStep ==
    ASSUME TypeOK, TableConsistent, StreamInv, StreamInv', NEW i \in Ids, NEW t \in Tasks, Starts(i, t)
    PROVE  Stream!Next
<1>1. /\ UNCHANGED <<protocol, stopped, delivered, ws, reqCanceled, outgoing>>
      /\ idOf' = [idOf EXCEPT ![t] = i]
      /\ pc[t] = "idle" /\ pc'[t] = "unmarshal" /\ \A u \in Tasks \ {t} : UNCHANGED pc[u]
      /\ operations[i] = NoTask
  BY DEF Starts, StartTask, TypeOK, IdInUse
<1>2. \A u \in Tasks : Phase(u) = PhaseNow(u) /\ Phase(u)' = PhaseNow(u)' /\ UNCHANGED Own(u)
  BY <1>1, PhaseIs DEF StreamInv, Own
<1>3. Phase(t) = "new" /\ Phase(t)' = "live" /\ \A u \in Tasks \ {t} : UNCHANGED Phase(u)
  BY <1>1, <1>2 DEF PhaseNow
<1>4. ASSUME NEW u \in Tasks, Phase(u) = "live" PROVE idOf[u] # i
  BY <1>1, <1>2, <1>4, GoroutineNames DEF PhaseNow, TableConsistent, Live
<1>5. Stream!Begin(t, i)
  BY <1>1, <1>3, <1>4 DEF Stream!Begin
<1> QED  BY <1>5 DEF Stream!Next

LEMMA MarkStep ==
    ASSUME NEW t \in Tasks, UNCHANGED <<protocol, idOf, delivered, ws, reqCanceled>>,
           \A u \in Tasks : UNCHANGED Phase(u), Phase(t) # "new",
           stopped' = [stopped EXCEPT ![t] = TRUE]
    PROVE  Stream!Next
<1>1. Stream!Stop(t)
  BY DEF Stream!Stop
<1> QED  BY <1>1 DEF Stream!Next

\* The reader, the timer and the client of the websocket.
LEMMA ReaderRefines ==
    ASSUME Tasks # {}, TypeOK, TableConsistent, StreamInv, StreamInv', ReaderMessage \/ ReaderStep
    PROVE  Stream!Next
<1>1. ASSUME Aside PROVE \A u \in Tasks : UNCHANGED Phase(u) /\ Phase(u) = PhaseNow(u)
  <2>1. \A u \in Tasks : Phase(u) = PhaseNow(u) /\ Phase(u)' = PhaseNow(u)'
    BY PhaseIs DEF StreamInv
  <2>2. \A u \in Tasks : UNCHANGED PhaseNow(u)
    BY <1>1 DEF Aside, PhaseNow, Own
  <2> QED  BY <2>1, <2>2
<1>2. CASE Aside /\ StopMark
  <2>1. target \in Tasks /\ pc[target] # "idle"
    BY <1>2 DEF StopMark, StreamInv, StopsInv
  <2>2. Phase(target) # "new"
    BY <1>1, <1>2, <2>1 DEF PhaseNow
  <2> QED  BY <1>1, <1>2, <2>1, <2>2, MarkStep DEF StopMark
<1>3. CASE Aside /\ ~StopMark
  <2>1. UNCHANGED stopped
    BY <1>3 DEF ReaderMessage, ReaderStep, ReadInit, ReadTerminate, ReadPing, ReadMalformed,
        ReadStart, StartTask, ReadStop, Signal, Initialise, StopCancel, ReadFails, HandleReaderError,
        CancelRequest, CloseOutgoing
  <2>2. UNCHANGED <<protocol, idOf, delivered>> /\ (Gone => Gone')
    BY <1>3 DEF Aside, Onward, Gone
  <2> QED  BY <1>1, <1>3, <2>1, <2>2, QuietStep
<1> QED  BY <1>2, <1>3, ReaderSteps, BeginStep

LEMMA OthersRefine ==
    ASSUME Tasks # {}, TypeOK, StreamInv, StreamInv',
           \/ TimerFires \/ TimerCanceled \/ TimerReturns \/ KeepaliveFails \/ PeerLeaves \/ ParentCancel
           \/ WriterExits
           \/ \E g \in Goroutines : Drop(g) \/ SendPanics(g)
    PROVE  Stream!Next
<1>1. /\ UNCHANGED <<protocol, idOf, stopped, delivered, pc, outgoing>>
      /\ ws # "open" => ws' # "open"
      /\ reqCanceled => reqCanceled'
  BY DEF TimerFires, TimerCanceled, TimerReturns, KeepaliveFails, PeerLeaves, ParentCancel, WriterExits,
         Drop, SendPanics
<1>2. \A u \in Tasks : UNCHANGED PhaseNow(u)
  BY <1>1 DEF PhaseNow, Own
<1>3. \A u \in Tasks : UNCHANGED Phase(u)
  BY <1>2, PhaseIs DEF StreamInv
<1> QED  BY <1>1, <1>3, QuietStep DEF Gone

LEMMA TaskRefines ==
    ASSUME Tasks # {}, TypeOK, StreamInv, StreamInv', NEW t \in Tasks, TaskStep(t)
    PROVE  Stream!Next
<1>1. /\ UNCHANGED <<protocol, outgoing, delivered, ws, reqCanceled, idOf>>
      /\ \A u \in Tasks \ {t} : UNCHANGED pc[u]
      /\ pc[t] \notin {"idle", "done"} /\ pc'[t] # "idle" /\ (pc'[t] = "done" => Delete(t))
  BY DEF TaskStep, Unmarshal, Prepare, ResultArrives, StreamEnds, ContextDone, Finish, Complete,
         CancelOperation, Delete, Goto, TypeOK
<1>2. \A u \in Tasks : Phase(u) = PhaseNow(u) /\ Phase(u)' = PhaseNow(u)' /\ UNCHANGED Own(u)
  BY <1>1, PhaseIs DEF StreamInv, Own
<1>3. Phase(t) = "live" /\ \A u \in Tasks \ {t} : UNCHANGED Phase(u)
  BY <1>1, <1>2 DEF PhaseNow
<1>4. pc'[t] # "done" => \A u \in Tasks : UNCHANGED Phase(u)
  BY <1>1, <1>2, <1>3 DEF PhaseNow
<1>5. CASE Delete(t)
  <2>1. pc'[t] = "done" /\ UNCHANGED stopped
    BY <1>5 DEF Delete, Goto, TypeOK
  <2>2. Phase(t)' = "draining" \/ (Phase(t)' = "closed" /\ Own(t)' = {})
    BY <1>2, <2>1 DEF PhaseNow
  <2>3. Own(t)' = {} => Stream!MayClose(t)
    BY <1>1, <2>1, ClosesTold DEF StreamInv
  <2>4. Settles(t)
    BY <1>3, <2>2, <2>3 DEF Settles
  <2> QED  BY <1>1, <2>1, <2>4, EndStep DEF Gone
<1>6. CASE Finish(t)
  <2>1. pc'[t] # "done" /\ (stopped' = stopped \/ stopped' = [stopped EXCEPT ![t] = TRUE])
    <3>1. pc'[t] # "done"
      BY <1>6 DEF Finish, Goto, TypeOK
    <3>2. stopped' # stopped => stopped' = [stopped EXCEPT ![t] = stopped[t] \/ err[t] = "other"]
      BY <1>6 DEF Finish
    <3>3. stopped[t] \in BOOLEAN /\ stopped \in [Tasks -> BOOLEAN]
      BY DEF TypeOK
    <3>4. CASE stopped' = [stopped EXCEPT ![t] = TRUE]
      BY <3>1, <3>4
    <3>5. CASE stopped[t] = FALSE /\ err[t] # "other"
      <4>1. [stopped EXCEPT ![t] = FALSE] = stopped
        BY <3>3, <3>5
      <4> QED  BY <3>1, <3>2, <3>5, <4>1
    <3> QED  BY <3>1, <3>2, <3>3, <3>4, <3>5
  <2> QED  BY <1>1, <1>3, <1>4, <2>1, QuietStep, MarkStep DEF Gone
<1>7. CASE ~Delete(t) /\ ~Finish(t)
  <2>1. UNCHANGED stopped
    BY <1>7 DEF TaskStep, Unmarshal, Prepare, ResultArrives, StreamEnds, ContextDone, Complete, CancelOperation
  <2> QED  BY <1>1, <1>4, <1>7, <2>1, QuietStep DEF Gone
<1> QED  BY <1>5, <1>6, <1>7

LEMMA SendRefines ==
    ASSUME Tasks # {}, TypeOK, StreamInv, StreamInv', NEW g \in Goroutines, Send(g)
    PROVE  Stream!Next
<1>1. /\ UNCHANGED <<protocol, idOf, stopped, delivered, pc, ws, reqCanceled>>
      /\ outgoing' = Append(outgoing, Head(pending[g])) /\ pending[g] # <<>>
  BY DEF Send
<1>2. ASSUME NEW u \in Tasks PROVE UNCHANGED PhaseNow(u)
  <2>1. CASE pc[u] = "done"
    <3>1. u # g
      BY <1>1, <2>1 DEF StreamInv, KindsInv
    <3>2. Head(pending[g]).task # u
      BY <1>1, <3>1, HeadTask, GoroutineNames
    <3> QED  BY <1>1, <3>2, AppendedOwn DEF PhaseNow
  <2> QED  BY <1>1, <2>1 DEF PhaseNow
<1>3. \A u \in Tasks : UNCHANGED Phase(u)
  BY <1>2, PhaseIs DEF StreamInv
<1> QED  BY <1>1, <1>3, QuietStep DEF Gone

\* What is written of an operation follows what was written before.
LEMMA MayFollowHeard ==
    ASSUME TypeOK, NEW t \in Tasks, KindsInv(t), OrderInv(t), ws = "open",
           NEW k \in Told, 1 \in Own(t), outgoing[1].kind = k
    PROVE  Stream!MayFollow(delivered[t], k)
<1>1. Own(t) \subseteq DOMAIN outgoing /\ DOMAIN outgoing = 1..Len(outgoing) /\ Len(outgoing) \in Nat
  BY DEF Own, TypeOK
<1>2. k \in Channel(t) /\ Channel(t) \subseteq Said(t) /\ Heard(t) \subseteq Said(t)
  BY DEF Channel, Said
<1>3. "complete" \notin Heard(t)
  BY DEF OrderInv
<1>4. delivered[t] = <<>> \/ Stream!LastOf(delivered[t]) \in Heard(t)
  <2>1. delivered[t] \in Seq(Kinds)
    BY DEF TypeOK
  <2>2. delivered[t] # <<>> => Len(delivered[t]) \in DOMAIN delivered[t]
    BY <2>1
  <2> QED  BY <2>2 DEF Heard, Stream!LastOf
<1>5. CASE k = "data"
  <2>1. Said(t) \subseteq {"data", "complete"}
    BY <1>2, <1>5 DEF KindsInv
  <2> QED  BY <1>2, <1>3, <1>4, <1>5, <2>1 DEF Stream!MayFollow, Stream!LastOf
<1>6. CASE k \in Failed
  <2>1. delivered[t] = <<>>
    BY <1>6 DEF OrderInv
  <2> QED  BY <1>6, <2>1 DEF Stream!MayFollow, Stream!LastOf, Failed
<1>7. CASE k = "complete"
  <2>1. "connection_error" \notin Heard(t)
    <3>1. ~CloseBefore(1)
      BY <1>1 DEF CloseBefore
    <3> QED  BY <1>7, <3>1 DEF OrderInv
  <2>2. Heard(t) \subseteq {"data", "error"} /\ ("error" \in Heard(t) => protocol = GWS)
    <3>1. Said(t) \subseteq Told
      BY DEF KindsInv, Told
    <3> QED  BY <1>2, <1>3, <1>7, <2>1, <3>1 DEF KindsInv, Told
  <2> QED  BY <1>4, <1>7, <2>2 DEF Stream!MayFollow, Stream!LastOf, GWS
<1> QED  BY <1>5, <1>6, <1>7 DEF Told, Failed

\* An operation under the same id had its turn before, or comes after.
LEMMA HeardInTurn ==
    ASSUME TypeOK, StreamInv, NEW t \in Tasks, 1 \in Own(t)
    PROVE  Stream!InTurn(t)
<1>1. \A u \in Tasks : Phase(u) = PhaseNow(u)
  BY PhaseIs DEF StreamInv
<1>2. \A u \in Tasks : Own(u) \subseteq Nat \ {0}
  BY DEF Own, TypeOK
<1>3. pc[t] # "idle"
  BY DEF StreamInv, KindsInv, Silent
<1>4. ASSUME NEW u \in Tasks \ {t}, idOf[u] = idOf[t], Phase(u) \in {"live", "draining"}
      PROVE  delivered[u] = <<>> /\ (Phase(t) = "live" => Phase(u) # "draining")
  <2>1. pc[u] # "idle" /\ (pc[u] = "done" => Own(u) # {})
    BY <1>1, <1>4 DEF PhaseNow
  <2>2. ~Precedes(u, t)
    <3> SUFFICES ASSUME Precedes(u, t) PROVE FALSE
      OBVIOUS
    <3>1. PICK m \in Own(u) : TRUE
      BY <2>1 DEF Precedes
    <3>2. m < 1
      BY DEF Precedes
    <3> QED  BY <1>2, <3>2
  <2>3. Precedes(t, u)
    BY <1>3, <1>4, <2>1, <2>2 DEF StreamInv, TurnsInv
  <2> QED  BY <1>1, <2>3 DEF Precedes, PhaseNow
<1> QED  BY <1>4 DEF Stream!InTurn, Stream!Namesakes

LEMMA ReceiveRefines ==
    ASSUME Tasks # {}, TypeOK, StreamInv, StreamInv', WriteOk \/ WriteFails \/ WriteClose
    PROVE  Stream!Next
<1> DEFINE h == Head(outgoing)
<1>1. /\ outgoing # <<>> /\ outgoing' = Tail(outgoing)
      /\ UNCHANGED <<pc, stopped, protocol, idOf, reqCanceled>>
      /\ ws # "open" => ws' # "open"
      /\ h.task # NoTask => h.task \in Tasks /\ h.kind \in Told /\ ~IsClose(h)
      /\ Heeds(h)
  BY ReceiveFacts
<1>2. ASSUME NEW u \in Tasks
      PROVE  /\ Phase(u) = PhaseNow(u) /\ Phase(u)' = PhaseNow(u)'
             /\ h.task # u => UNCHANGED Phase(u)
             /\ h.task = u => 1 \in Own(u) /\ h = outgoing[1]
  <2>1. Phase(u) = PhaseNow(u) /\ Phase(u)' = PhaseNow(u)'
    BY PhaseIs DEF StreamInv
  <2>2. h.task = u => 1 \in Own(u) /\ h = outgoing[1]
    BY <1>1, RemovedOwn
  <2>3. h.task # u => UNCHANGED Channel(u)
    BY <1>1, RemovedOwn
  <2>4. (Own(u) = {} <=> Channel(u) = {}) /\ (Own(u)' = {} <=> Channel(u)' = {})
    BY DEF Channel
  <2>5. h.task # u => UNCHANGED PhaseNow(u)
    BY <1>1, <2>3, <2>4 DEF PhaseNow
  <2> QED  BY <2>1, <2>2, <2>5
<1> HIDE DEF h
<1>3. CASE h.task = NoTask
  <2>1. UNCHANGED delivered
    BY <1>1, <1>3 DEF Heeds
  <2> QED  BY <1>1, <1>2, <1>3, <2>1, QuietStep, GoroutineNames DEF Gone
<1>4. CASE h.task # NoTask
  <2>1. PICK t \in Tasks : t = h.task
    BY <1>1, <1>4
  <2>2. 1 \in Own(t) /\ h = outgoing[1] /\ pc[t] # "idle" /\ h.kind \in Told
    BY <1>1, <1>2, <1>4, <2>1 DEF StreamInv, KindsInv, Silent
  <2>3. Phase(t) \in {"live", "draining"} /\ \A u \in Tasks \ {t} : UNCHANGED Phase(u)
    BY <1>2, <2>1, <2>2 DEF PhaseNow
  <2>4. Settles(t)
    <3>1. Own(t)' = {} /\ pc'[t] = "done" => Stream!MayClose(t)
      BY <1>1, ClosesTold DEF StreamInv
    <3>2. Phase(t) = "live" => UNCHANGED Phase(t)
      BY <1>1, <1>2 DEF PhaseNow
    <3>3. Phase(t) = "draining" => Phase(t)' = "draining" \/ (Phase(t)' = "closed" /\ Own(t)' = {} /\ pc'[t] = "done")
      BY <1>1, <1>2 DEF PhaseNow
    <3> QED  BY <2>3, <3>1, <3>2, <3>3 DEF Settles
  <2>5. CASE WriteOk /\ ws = "open"
    <3>1. delivered' = [delivered EXCEPT ![t] = Recorded(@, h.kind)] /\ ws' = "open"
      BY <1>1, <1>4, <2>1, <2>5 DEF Heeds, WriteOk
    <3>2. Recorded(delivered[t], h.kind) = Stream!Extended(delivered[t], h.kind)
      <4>1. h.kind \in Kinds /\ delivered[t] \in Seq(Kinds)
        BY <2>2 DEF Told, Kinds, TypeOK
      <4> QED  BY <4>1, RecordedFacts
    <3>3. delivered' = [delivered EXCEPT ![t] = Stream!Extended(@, h.kind)]
      BY <3>1, <3>2
    <3>4. Stream!MayFollow(delivered[t], h.kind) /\ Stream!InTurn(t)
      BY <2>2, <2>5, MayFollowHeard, HeardInTurn DEF StreamInv
    <3>5. Stream!Settle(t) /\ UNCHANGED <<protocol, idOf, stopped, ws, reqCanceled>>
      BY <1>1, <2>4, <2>5, <3>1, SettleStep
    <3>6. Stream!Deliver(t, h.kind)
      BY <2>3, <3>3, <3>4, <3>5 DEF Stream!Deliver
    <3> QED  BY <2>2, <3>6 DEF Stream!Next, Told
  <2>6. CASE ~(WriteOk /\ ws = "open")
    <3>1. UNCHANGED delivered
      BY <1>1, <2>6 DEF Heeds
    <3> QED  BY <1>1, <2>4, <3>1, EndStep DEF Gone
  <2> QED  BY <2>5, <2>6
<1> QED  BY <1>3, <1>4

LEMMA StreamRefined ==
    ASSUME Tasks # {}
    PROVE  TypeOK /\ TableConsistent /\ StreamInv /\ StreamInv' /\ [Next]_vars
              => [Stream!Next]_(Stream!streamVars)
<1> SUFFICES ASSUME TypeOK, TableConsistent, StreamInv, StreamInv', [Next]_vars
             PROVE  [Stream!Next]_(Stream!streamVars)
  OBVIOUS
<1>1. CASE UNCHANGED vars
  <2>1. \A u \in Tasks : UNCHANGED Phase(u)
    BY <1>1 DEF vars, Phase, Live, Undelivered
  <2> QED  BY <1>1, <2>1, QuietStep DEF vars, Gone
<1>2. CASE ReaderMessage \/ ReaderStep
  BY <1>2, ReaderRefines
<1>3. CASE \/ TimerFires \/ TimerCanceled \/ TimerReturns \/ KeepaliveFails \/ PeerLeaves \/ ParentCancel
           \/ WriterExits
           \/ \E g \in Goroutines : Drop(g) \/ SendPanics(g)
  BY <1>3, OthersRefine
<1>4. ASSUME NEW t \in Tasks, TaskStep(t) PROVE Stream!Next
  BY <1>4, TaskRefines
<1>5. ASSUME NEW g \in Goroutines, Send(g) PROVE Stream!Next
  BY <1>5, SendRefines
<1>6. CASE WriteOk \/ WriteFails \/ WriteClose
  BY <1>6, ReceiveRefines
<1> QED  BY <1>1, <1>2, <1>3, <1>4, <1>5, <1>6 DEF Next, Step, WriterStep

LEMMA StreamBegins == Init => Stream!Init
<1> SUFFICES ASSUME Init PROVE Stream!Init
  OBVIOUS
<1>1. \A t \in Tasks : Phase(t) = "new"
  BY DEF Init, Phase
<1> QED  BY <1>1 DEF Init, Stream!Init

\* The connection keeps the promises of OperationStream: the messages of an
\* operation reach the client in order and untold by another under its id,
\* and no operation that is over goes unanswered without a reason.
THEOREM ConnectionKeepsPromises ==
    ASSUME Tasks # {}
    PROVE  Spec => StreamSpec
<1>1. Init => StreamInv /\ TypeOK /\ TableConsistent
  BY StreamInit, InitType DEF Init, TableConsistent, Live
<1>2. TypeOK /\ TableConsistent /\ StreamInv /\ [Next]_vars => (TypeOK /\ TableConsistent /\ StreamInv)'
  BY TypeStep, TableStep, StreamStep
<1>3. TypeOK /\ TableConsistent /\ StreamInv /\ StreamInv' /\ [Next]_vars
        => [Stream!Next]_(Stream!streamVars)
  BY StreamRefined
<1>4. Init => Stream!Init
  BY StreamBegins
<1> QED  BY <1>1, <1>2, <1>3, <1>4, PTL DEF Spec, StreamSpec, Stream!Spec
-----------------------------------------------------------------------------
(* What a client can rely on.                                              *)

\* All that is ever heard of one operation, repeated data once.
Stories ==
    {<<>>, <<"data">>, <<"error">>, <<"connection_error">>, <<"complete">>, <<"data", "complete">>}
        \cup (IF protocol = GWS THEN {<<"error", "complete">>} ELSE {})

\* Its end was told, or there was nobody to tell it.
EndTold(t) == Stream!Over(delivered[t]) \/ Gone \/ (stopped[t] /\ protocol = GTWS)

\* Data, then how it ended, then silence; no operation ends silently; and of
\* two operations under one id, both heard, one will not be heard again.
ClientPromises ==
    /\ \A t \in Tasks : delivered[t] \in Stories
    /\ \A t \in Tasks : Phase(t) = "closed" => EndTold(t)
    /\ \A t, u \in Tasks : t # u /\ idOf[t] = idOf[u] /\ delivered[t] # <<>> /\ delivered[u] # <<>>
                              => "closed" \in {Phase(t), Phase(u)}

PromisesInv == ClientPromises /\ \A t \in Tasks : Phase(t) = "new" => delivered[t] = <<>>

\* What a step of the abstract specification does to each operation.
StreamMoves ==
    /\ UNCHANGED protocol /\ (Gone => Gone')
    /\ \A t, u \in Tasks : t # u => delivered'[t] = delivered[t] \/ delivered'[u] = delivered[u]
    /\ \A t \in Tasks :
        /\ stopped[t] => stopped'[t]
        /\ Phase(t) # "new" => Phase(t)' # "new" /\ idOf'[t] = idOf[t]
        /\ Phase(t) = "closed" => Phase(t)' = "closed"
        /\ Phase(t)' = "closed" => Phase(t) = "closed" \/ Stream!MayClose(t)
        /\ \/ delivered'[t] = delivered[t]
           \/ /\ Phase(t) \in {"live", "draining"} /\ Stream!InTurn(t)
              /\ \E k \in Told : /\ Stream!MayFollow(delivered[t], k)
                                 /\ delivered'[t] = Stream!Extended(delivered[t], k)

LEMMA MovesOfSettle ==
    ASSUME NEW t \in Tasks, Stream!Settle(t), NEW u \in Tasks
    PROVE  /\ Phase(u) # "new" => Phase(u)' # "new"
           /\ Phase(u) = "closed" => Phase(u)' = "closed"
           /\ Phase(u)' = "closed" => Phase(u) = "closed" \/ Stream!MayClose(u)
<1> DEFINE phase == [v \in Tasks |-> Phase(v)]
<1>1. \A v \in Tasks : phase[v] = Phase(v) /\ phase'[v] = Phase(v)'
  OBVIOUS
<1>2. \/ phase' = phase
      \/ phase[t] = "live" /\ phase' = [phase EXCEPT ![t] = "draining"]
      \/ phase[t] \in {"live", "draining"} /\ Stream!MayClose(t) /\ phase' = [phase EXCEPT ![t] = "closed"]
  BY DEF Stream!Settle
<1>3. DOMAIN phase = Tasks
  OBVIOUS
<1> HIDE DEF phase
<1>4. \A v \in Tasks : phase'[v] = phase[v] \/ v = t
  BY <1>2, <1>3
<1>5. CASE u # t
  BY <1>1, <1>4, <1>5
<1>6. CASE u = t
  BY <1>1, <1>2, <1>3, <1>6
<1> QED  BY <1>5, <1>6

LEMMA StreamStepMoves ==
    ASSUME TypeOK, Stream!Next
    PROVE  StreamMoves
<1> DEFINE phase == [v \in Tasks |-> Phase(v)]
<1>1. \A v \in Tasks : phase[v] = Phase(v) /\ phase'[v] = Phase(v)'
  OBVIOUS
<1>2. ASSUME NEW t \in Tasks, NEW i \in Ids, Stream!Begin(t, i) PROVE StreamMoves
  <2>1. /\ phase[t] = "new" /\ phase' = [phase EXCEPT ![t] = "live"] /\ DOMAIN phase = Tasks
        /\ idOf' = [idOf EXCEPT ![t] = i] /\ UNCHANGED <<protocol, stopped, Gone, delivered>>
    BY <1>2 DEF Stream!Begin, Gone
  <2> HIDE DEF phase
  <2>2. ASSUME NEW u \in Tasks PROVE u # t => Phase(u)' = Phase(u) /\ idOf'[u] = idOf[u]
    BY <1>1, <2>1 DEF TypeOK
  <2>3. Phase(t) = "new" /\ Phase(t)' = "live"
    BY <1>1, <2>1
  <2> QED  BY <2>1, <2>2, <2>3 DEF StreamMoves
<1>3. ASSUME NEW t \in Tasks, Stream!Stop(t) PROVE StreamMoves
  <2>1. /\ phase' = phase /\ stopped' = [stopped EXCEPT ![t] = TRUE]
        /\ UNCHANGED <<protocol, idOf, Gone, delivered>>
    BY <1>3 DEF Stream!Stop, Gone
  <2> HIDE DEF phase
  <2>2. \A u \in Tasks : Phase(u)' = Phase(u)
    BY <1>1, <2>1
  <2>3. \A u \in Tasks : stopped[u] => stopped'[u]
    BY <2>1 DEF TypeOK
  <2> QED  BY <2>1, <2>2, <2>3 DEF StreamMoves
<1>4. ASSUME NEW t \in Tasks, Stream!End(t) PROVE StreamMoves
  <2>1. Stream!Settle(t) /\ UNCHANGED <<protocol, idOf, stopped, delivered>>
    BY <1>4 DEF Stream!End
  <2>2. Gone => Gone'
    BY <1>4 DEF Stream!End, Gone
  <2> QED  BY <2>1, <2>2, MovesOfSettle DEF StreamMoves
<1>5. ASSUME NEW t \in Tasks, NEW k \in Told, Stream!Deliver(t, k) PROVE StreamMoves
  <2>1. /\ Stream!Settle(t) /\ UNCHANGED <<protocol, idOf, stopped, Gone>>
        /\ phase[t] \in {"live", "draining"} /\ Stream!InTurn(t) /\ Stream!MayFollow(delivered[t], k)
        /\ delivered' = [delivered EXCEPT ![t] = Stream!Extended(@, k)]
    BY <1>5 DEF Stream!Deliver, Gone
  <2> HIDE DEF phase
  <2>2. Phase(t) \in {"live", "draining"} /\ delivered'[t] = Stream!Extended(delivered[t], k)
    BY <1>1, <2>1 DEF TypeOK
  <2>3. \A u \in Tasks \ {t} : delivered'[u] = delivered[u]
    BY <2>1 DEF TypeOK
  <2> QED  BY <2>1, <2>2, <2>3, MovesOfSettle DEF StreamMoves
<1> QED  BY <1>2, <1>3, <1>4, <1>5 DEF Stream!Next, Told

LEMMA AppendOne ==
    ASSUME NEW S, NEW a \in S, NEW b \in S
    PROVE  Append(<<a>>, b) = <<a, b>>
<1> DEFINE r == Append(<<a>>, b)
           p == <<a, b>>
<1>1. <<a>> \in Seq(S) /\ Len(<<a>>) = 1 /\ <<a>>[1] = a
  OBVIOUS
<1>2. r \in Seq(S) /\ Len(r) = 2 /\ r[1] = a /\ r[2] = b
  BY <1>1, AppendProperties
<1>3. p \in Seq(S) /\ Len(p) = 2 /\ p[1] = a /\ p[2] = b
  OBVIOUS
<1> HIDE DEF r, p
<1>4. \A i \in 1..Len(r) : r[i] = p[i]
  <2>1. \A i \in 1..Len(r) : i = 1 \/ i = 2
    BY <1>2
  <2> QED  BY <1>2, <1>3, <2>1
<1>5. r = p
  BY <1>2, <1>3, <1>4, SeqEqual
<1> QED  BY <1>5 DEF r, p

\* A story goes on as a story.
LEMMA StoryGoesOn ==
    ASSUME NEW s \in Stories, NEW k \in Told, Stream!MayFollow(s, k)
    PROVE  Stream!Extended(s, k) \in Stories
<1> USE DEF Stream!MayFollow, Stream!Extended, Stream!LastOf
<1>1. CASE s = <<>>
  BY <1>1 DEF Stories, Told
<1>2. CASE s = <<"data">>
  <2>1. Len(s) = 1 /\ s[Len(s)] = "data" /\ s # <<>>
    BY <1>2
  <2>2. k \in {"data", "complete"}
    BY <2>1 DEF Told
  <2>3. Append(<<"data">>, "complete") = <<"data", "complete">>
    <3>1. Told = Told /\ {"data", "error", "complete"} \subseteq Told
      BY DEF Told
    <3> QED  BY <3>1, AppendOne
  <2> QED  BY <1>2, <2>1, <2>2, <2>3 DEF Stories
<1>3. CASE s = <<"error">>
  <2>1. Len(s) = 1 /\ s[Len(s)] = "error" /\ s # <<>>
    BY <1>3
  <2>2. k = "complete" /\ protocol = GWS
    BY <2>1 DEF Told, GWS
  <2>3. Append(<<"error">>, "complete") = <<"error", "complete">>
    <3>1. Told = Told /\ {"data", "error", "complete"} \subseteq Told
      BY DEF Told
    <3> QED  BY <3>1, AppendOne
  <2> QED  BY <1>3, <2>1, <2>2, <2>3 DEF Stories
<1>4. CASE s = <<"connection_error">> \/ s = <<"complete">>
  BY <1>4 DEF Told
<1>5. CASE s = <<"data", "complete">> \/ s = <<"error", "complete">>
  BY <1>5 DEF Told
<1> QED  BY <1>1, <1>2, <1>3, <1>4, <1>5 DEF Stories

LEMMA PromisesStep ==
    ASSUME TypeOK, PromisesInv, StreamMoves
    PROVE  PromisesInv'
<1>1. ASSUME NEW t \in Tasks PROVE delivered'[t] \in Stories'
  <2>1. Stories' = Stories /\ delivered[t] \in Stories
    BY DEF Stories, StreamMoves, PromisesInv, ClientPromises
  <2> QED  BY <2>1, StoryGoesOn DEF StreamMoves
<1>2. ASSUME NEW t \in Tasks, Phase(t)' = "closed" PROVE EndTold(t)'
  <2>1. CASE Phase(t) = "closed"
    <3>1. EndTold(t)
      BY <2>1 DEF PromisesInv, ClientPromises
    <3>2. delivered'[t] = delivered[t]
      BY <2>1 DEF StreamMoves
    <3> QED  BY <3>1, <3>2 DEF EndTold, Stream!Over, Stream!LastOf, StreamMoves
  <2>2. CASE Stream!MayClose(t)
    BY <2>2 DEF Stream!MayClose, EndTold, Stream!Over, Stream!LastOf, StreamMoves, Gone, GTWS
  <2> QED  BY <1>2, <2>1, <2>2 DEF StreamMoves
<1>3. ASSUME NEW t \in Tasks, Phase(t)' = "new" PROVE delivered'[t] = <<>>
  BY <1>3 DEF StreamMoves, PromisesInv
\* One of the two is heard now; the other was heard before, or nothing changed.
<1>4. ASSUME NEW t \in Tasks, NEW u \in Tasks, t # u, idOf'[t] = idOf'[u],
             delivered'[t] # delivered[t], delivered'[u] # <<>>, delivered'[u] = delivered[u]
      PROVE  Phase(u)' = "closed"
  <2>1. Phase(t) \in {"live", "draining"} /\ Stream!InTurn(t)
    BY <1>4 DEF StreamMoves
  <2>2. Phase(u) # "new"
    BY <1>4 DEF PromisesInv
  <2>3. idOf[t] = idOf[u]
    BY <1>4, <2>1, <2>2 DEF StreamMoves
  <2>4. u \in Stream!Namesakes(t)
    BY <1>4, <2>3 DEF Stream!Namesakes
  <2>5. Phase(u) \notin {"live", "draining"}
    BY <1>4, <2>1, <2>4 DEF Stream!InTurn
  <2>6. Phase(u) \in {"new", "live", "draining", "closed"}
    BY DEF Phase
  <2> QED  BY <2>2, <2>5, <2>6 DEF StreamMoves
<1>5. ASSUME NEW t \in Tasks, NEW u \in Tasks, t # u, idOf'[t] = idOf'[u],
             delivered'[t] # <<>>, delivered'[u] # <<>>
      PROVE  "closed" \in {Phase(t)', Phase(u)'}
  <2>1. CASE delivered'[t] = delivered[t] /\ delivered'[u] = delivered[u]
    <3>1. Phase(t) # "new" /\ Phase(u) # "new"
      BY <1>5, <2>1 DEF PromisesInv
    <3>2. idOf[t] = idOf[u]
      BY <1>5, <3>1 DEF StreamMoves
    <3>3. "closed" \in {Phase(t), Phase(u)}
      BY <1>5, <2>1, <3>2 DEF PromisesInv, ClientPromises
    <3> QED  BY <3>3 DEF StreamMoves
  <2>2. CASE delivered'[t] # delivered[t] /\ delivered'[u] = delivered[u]
    BY <1>4, <1>5, <2>2
  <2>3. CASE delivered'[t] = delivered[t] /\ delivered'[u] # delivered[u]
    BY <1>4, <1>5, <2>3
  <2> QED  BY <1>5, <2>1, <2>2, <2>3 DEF StreamMoves
<1> QED  BY <1>1, <1>2, <1>3, <1>5 DEF PromisesInv, ClientPromises

LEMMA NothingMoves ==
    ASSUME UNCHANGED Stream!streamVars
    PROVE  StreamMoves
<1> DEFINE phase == [v \in Tasks |-> Phase(v)]
<1>1. \A v \in Tasks : phase[v] = Phase(v) /\ phase'[v] = Phase(v)'
  OBVIOUS
<1>2. phase' = phase /\ UNCHANGED <<protocol, idOf, stopped, Gone, delivered>>
  BY DEF Stream!streamVars, Gone
<1> HIDE DEF phase
<1>3. \A v \in Tasks : Phase(v)' = Phase(v)
  BY <1>1, <1>2
<1> QED  BY <1>2, <1>3 DEF StreamMoves

\* For every configuration: what the client hears of an operation is one of
\* the Stories, no operation ends silently while there is a client to tell,
\* and operations that share an id are never mixed.  These are consequences of
\* the abstract specification, carried over to the goroutines, the channel and
\* the websocket that implement it.
THEOREM ClientIsToldEverything == Spec => []ClientPromises
<1>1. CASE Tasks = {}
  <2>1. ClientPromises
    BY <1>1 DEF ClientPromises
  <2> QED  BY <2>1, PTL
<1>2. CASE Tasks # {}
  <2>1. Init => PromisesInv
    <3> SUFFICES ASSUME Init PROVE PromisesInv
      OBVIOUS
    <3>1. \A t \in Tasks : Phase(t) = "new" /\ delivered[t] = <<>>
      BY DEF Init, Phase
    <3> QED  BY <3>1 DEF PromisesInv, ClientPromises, Stories
  <2>2. TypeOK /\ PromisesInv /\ [Stream!Next]_(Stream!streamVars) => PromisesInv'
    BY PromisesStep, StreamStepMoves, NothingMoves
  <2>3. PromisesInv => ClientPromises
    BY DEF PromisesInv
  <2>4. Spec => StreamSpec
    BY <1>2, ConnectionKeepsPromises
  <2> QED  BY <2>1, <2>2, <2>3, <2>4, TypeCorrect, PTL DEF Spec, StreamSpec, Stream!Spec
<1> QED  BY <1>1, <1>2
-----------------------------------------------------------------------------
(* What the connection makes of an operation.                              *)

\* An error is there only on the way out, and is one that closes the websocket
\* or an ordinary one; an operation releases its context before its id.
LifeInv == \A t \in Tasks :
    /\ err[t] \in {"none", "other", "event"}
    /\ pc[t] # "finish" => err[t] = "none"
    /\ pc[t] \in {"delete", "done"} => canceled[t]

LEMMA LifeInit == Init => LifeInv /\ \A t \in Tasks : Life(t)!Init
BY ProtocolAssumption DEF Init, LifeInv, Life!Init, Place, Stopped, Canceled, GWS, GTWS

\* What the others do reaches an operation only through its contexts.
Outside ==
    /\ UNCHANGED <<protocol, pc, err, executed>>
    /\ reqStopped' \in {reqStopped, TRUE} /\ reqCanceled' \in {reqCanceled, TRUE}
    /\ \A t \in Tasks : stopped'[t] \in {stopped[t], TRUE} /\ canceled'[t] \in {canceled[t], TRUE}

LEMMA EitherGrows ==
    ASSUME NEW a \in BOOLEAN, NEW b \in BOOLEAN, NEW c \in {a, TRUE}, NEW d \in {b, TRUE}
    PROVE  (c \/ d) \in {a \/ b, TRUE}
OBVIOUS

LEMMA OutsideLives ==
    ASSUME TypeOK, LifeInv, Outside, NEW t \in Tasks
    PROVE  LifeInv' /\ Life(t)!Environment
<1>1. LifeInv'
  BY DEF LifeInv, Outside
<1>2. Stopped(t)' \in {Stopped(t), TRUE} /\ Canceled(t)' \in {Canceled(t), TRUE}
  <2>1. /\ stopped[t] \in BOOLEAN /\ reqStopped \in BOOLEAN
        /\ canceled[t] \in BOOLEAN /\ reqCanceled \in BOOLEAN
    BY DEF TypeOK
  <2>2. /\ stopped'[t] \in {stopped[t], TRUE} /\ reqStopped' \in {reqStopped, TRUE}
        /\ canceled'[t] \in {canceled[t], TRUE} /\ reqCanceled' \in {reqCanceled, TRUE}
    BY DEF Outside
  <2> QED  BY <2>1, <2>2, EitherGrows DEF Stopped, Canceled
<1>3. UNCHANGED <<protocol, Place(t), err[t], executed[t]>>
  BY DEF Outside, Place
<1> QED  BY <1>1, <1>2, <1>3 DEF Life!Environment

LEMMA OthersAreOutside ==
    ASSUME TypeOK, Step, ~(\E t \in Tasks : TaskStep(t)), ~(\E i \in Ids : ReadStart(i))
    PROVE  Outside
<1> USE DEF Outside, taskVars, reqVars, readerVars, chanVars, writerVars, NotReaderVars, NotWriterVars
<1>1. CASE UNCHANGED <<taskVars, reqVars>>
  BY <1>1
<1>2. CASE ReadInit \/ ReadTerminate \/ ReadPing \/ ReadMalformed \/ \E i \in Ids : ReadStop(i)
  BY <1>2 DEF ReadInit, ReadTerminate, ReadPing, ReadMalformed, ReadStop
<1>3. CASE StopMark \/ StopCancel
  BY <1>3 DEF StopMark, StopCancel, TypeOK
<1>4. CASE Signal \/ Initialise \/ ReadFails \/ HandleReaderError \/ CancelRequest \/ CloseOutgoing
  BY <1>4 DEF Signal, Initialise, ReadFails, HandleReaderError, CancelRequest, CloseOutgoing
<1>5. CASE TimerFires \/ TimerCanceled \/ TimerReturns
  BY <1>1, <1>5 DEF TimerFires, TimerCanceled, TimerReturns
<1>6. ASSUME NEW g \in Goroutines, Send(g) \/ Drop(g) \/ SendPanics(g) PROVE Outside
  BY <1>1, <1>6 DEF Send, Drop, SendPanics
<1>7. CASE WriterStep \/ KeepaliveFails \/ PeerLeaves
  BY <1>1, <1>7 DEF WriterStep, WriteOk, WriteFails, WriteClose, Receive, WriterExits, KeepaliveFails,
     PeerLeaves
<1>8. CASE ParentCancel
  BY <1>8 DEF ParentCancel
<1> QED  BY <1>2, <1>3, <1>4, <1>5, <1>6, <1>7, <1>8 DEF Step, ReaderMessage, ReaderStep

\* The goroutine of an operation itself.
LEMMA TaskLives ==
    ASSUME TypeOK, LifeInv, NEW t \in Tasks, TaskStep(t)
    PROVE  Life(t)!Next \/ UNCHANGED (Life(t)!lifeVars)
<1> USE DEF Goto, NotTaskVars, reqVars
<1>0. /\ pc \in [Tasks -> Pcs] /\ err \in [Tasks -> Errors] /\ executed \in [Tasks -> BOOLEAN]
      /\ stopped \in [Tasks -> BOOLEAN] /\ canceled \in [Tasks -> BOOLEAN]
  BY DEF TypeOK
<1>1. CASE Unmarshal(t)
  <2>1. UNCHANGED <<protocol, executed[t], Stopped(t), Canceled(t)>> /\ pc[t] = "unmarshal"
    BY <1>1 DEF Unmarshal, Stopped, Canceled
  <2>2. \/ pc'[t] = "prepare" /\ UNCHANGED err[t]
        \/ pc'[t] = "finish" /\ err'[t] = IF protocol = GTWS THEN "event" ELSE "other"
    BY <1>0, <1>1 DEF Unmarshal
  <2> QED  BY <2>1, <2>2 DEF Place, Life!Next, Life!Decode, GTWS
<1>2. CASE Prepare(t)
  <2>1. UNCHANGED <<protocol, Stopped(t), Canceled(t)>> /\ pc[t] = "prepare"
    BY <1>2 DEF Prepare, Stopped, Canceled
  <2>2. \/ pc'[t] = "finish" /\ err'[t] \in {"none", "other", "event"} /\ UNCHANGED executed[t]
        \/ pc'[t] = "results" /\ executed'[t] = TRUE /\ UNCHANGED err[t]
    BY <1>0, <1>2 DEF Prepare
  <2> QED  BY <2>1, <2>2 DEF Place, Life!Next, Life!Prepare
<1>3. CASE StreamEnds(t) \/ ContextDone(t) \/ \E bad \in BOOLEAN : ResultArrives(t, bad)
  <2>1. UNCHANGED <<protocol, executed[t], Stopped(t), Canceled(t)>> /\ pc[t] = "results"
    BY <1>3 DEF StreamEnds, ContextDone, ResultArrives, Stopped, Canceled
  <2>2. \/ pc'[t] = "finish" /\ err'[t] \in {"none", "other"}
        \/ UNCHANGED <<pc[t], err[t]>>
    BY <1>0, <1>3, <2>1 DEF StreamEnds, ContextDone, ResultArrives, LifeInv
  <2> QED  BY <2>1, <2>2 DEF Place, Life!Next, Life!EndResults, Life!lifeVars
<1>4. CASE Finish(t)
  <2>1. /\ UNCHANGED <<protocol, executed[t], Canceled(t), reqStopped>>
        /\ pc[t] = "finish" /\ pc'[t] = "complete" /\ err'[t] = "none"
    BY <1>0, <1>4 DEF Finish, Canceled
  <2>2. Life(t)!Reports <=> Reports(t)
    BY DEF Life!Reports, Reports
  <2>3. stopped'[t] = (stopped[t] \/ (Reports(t) /\ err[t] = "other"))
    <3>1. CASE Reports(t)
      <4>1. stopped'[t] = (stopped[t] \/ err[t] = "other")
        BY <1>0, <1>4, <3>1 DEF Finish
      <4> QED  BY <3>1, <4>1, Zenon
    <3>2. CASE ~Reports(t)
      <4>1. stopped'[t] = stopped[t] /\ stopped[t] \in BOOLEAN
        BY <1>0, <1>4, <3>2 DEF Finish
      <4> QED  BY <3>2, <4>1, Zenon
    <3> QED  BY <3>1, <3>2
  <2>4. Stopped(t)' = (Stopped(t) \/ (Life(t)!Reports /\ err[t] = "other"))
    <3>1. reqStopped' = reqStopped
      BY <2>1
    <3> QED  BY <2>2, <2>3, <3>1, Zenon DEF Stopped
  <2>5. Place(t) = "ending" /\ Place(t)' = "leaving"
    BY <2>1 DEF Place
  <2> QED  BY <2>1, <2>4, <2>5 DEF Life!Next, Life!Report
<1>5. CASE Complete(t)
  <2>1. /\ UNCHANGED <<protocol, err[t], executed[t], Stopped(t), Canceled(t)>>
        /\ pc[t] = "complete" /\ pc'[t] = "cancel"
    BY <1>0, <1>5 DEF Complete, Stopped, Canceled
  <2> QED  BY <2>1 DEF Place, Life!lifeVars
<1>6. CASE CancelOperation(t)
  <2>1. /\ UNCHANGED <<protocol, err[t], executed[t], Stopped(t)>> /\ Canceled(t)' = TRUE
        /\ pc[t] = "cancel" /\ pc'[t] = "delete"
    BY <1>0, <1>6 DEF CancelOperation, Stopped, Canceled
  <2> QED  BY <2>1 DEF Place, Life!Next, Life!Environment
<1>7. CASE Delete(t)
  <2>1. /\ UNCHANGED <<protocol, err[t], executed[t], Stopped(t), Canceled(t)>>
        /\ pc[t] = "delete" /\ pc'[t] = "done" /\ Canceled(t)' = TRUE
    BY <1>0, <1>7 DEF Delete, Stopped, Canceled, LifeInv
  <2> QED  BY <2>1 DEF Place, Life!Next, Life!Leave
<1> QED  BY <1>1, <1>2, <1>3, <1>4, <1>5, <1>6, <1>7 DEF TaskStep

\* An operation that a step leaves alone.
LEMMA UntouchedLives ==
    ASSUME NEW t \in Tasks, Place(t)' = Place(t),
           UNCHANGED <<protocol, reqStopped, reqCanceled, err[t], executed[t], stopped[t], canceled[t]>>
    PROVE  UNCHANGED (Life(t)!lifeVars)
BY DEF Life!lifeVars, Stopped, Canceled

LEMMA LifeInvTask ==
    ASSUME TypeOK, LifeInv, NEW t \in Tasks, TaskStep(t)
    PROVE  /\ LifeInv'
           /\ UNCHANGED <<protocol, reqStopped, reqCanceled>>
           /\ \A u \in Tasks \ {t} : UNCHANGED <<pc[u], err[u], executed[u], stopped[u], canceled[u]>>
<1> USE DEF Goto, NotTaskVars, reqVars
<1>0. /\ pc \in [Tasks -> Pcs] /\ err \in [Tasks -> Errors] /\ executed \in [Tasks -> BOOLEAN]
      /\ stopped \in [Tasks -> BOOLEAN] /\ canceled \in [Tasks -> BOOLEAN]
  BY DEF TypeOK
<1>1. UNCHANGED <<protocol, reqStopped, reqCanceled>>
  BY DEF TaskStep, Unmarshal, Prepare, ResultArrives, StreamEnds, ContextDone, Finish, Complete,
     CancelOperation, Delete
<1>2. \A u \in Tasks \ {t} : UNCHANGED <<pc[u], err[u], executed[u], stopped[u], canceled[u]>>
  BY <1>0 DEF TaskStep, Unmarshal, Prepare, ResultArrives, StreamEnds, ContextDone, Finish, Complete,
     CancelOperation, Delete
<1>3. /\ err'[t] \in {"none", "other", "event"}
      /\ pc'[t] # "finish" => err'[t] = "none"
      /\ pc'[t] \in {"delete", "done"} => canceled'[t]
  BY <1>0 DEF TaskStep, Unmarshal, Prepare, ResultArrives, StreamEnds, ContextDone, Finish, Complete,
     CancelOperation, Delete, LifeInv
<1> QED  BY <1>1, <1>2, <1>3 DEF LifeInv

LEMMA LifeStep ==
    ASSUME TypeOK, LifeInv, [Next]_vars
    PROVE  LifeInv' /\ \A t \in Tasks : [Life(t)!Next]_(Life(t)!lifeVars)
<1>1. CASE UNCHANGED vars
  <2>1. Outside
    BY <1>1 DEF Outside, vars, taskVars, reqVars
  <2>2. LifeInv'
    BY <1>1 DEF LifeInv, vars, taskVars
  <2> QED  BY <2>1, <2>2, OutsideLives DEF Life!Next
<1>2. ASSUME NEW u \in Tasks, TaskStep(u)
      PROVE  LifeInv' /\ \A t \in Tasks : [Life(t)!Next]_(Life(t)!lifeVars)
  <2>1. /\ LifeInv' /\ UNCHANGED <<protocol, reqStopped, reqCanceled>>
        /\ \A t \in Tasks \ {u} : UNCHANGED <<pc[t], err[t], executed[t], stopped[t], canceled[t]>>
    BY <1>2, LifeInvTask
  <2>2. ASSUME NEW t \in Tasks, t # u PROVE UNCHANGED (Life(t)!lifeVars)
    <3>1. UNCHANGED <<pc[t], err[t], executed[t], stopped[t], canceled[t]>>
      BY <2>1, <2>2
    <3>2. Place(t)' = Place(t)
      BY <3>1 DEF Place
    <3> QED  BY <2>1, <3>1, <3>2, UntouchedLives
  <2>3. Life(u)!Next \/ UNCHANGED (Life(u)!lifeVars)
    BY <1>2, TaskLives
  <2> QED  BY <2>1, <2>2, <2>3
<1>3. ASSUME NEW i \in Ids, ReadStart(i)
      PROVE  LifeInv' /\ \A t \in Tasks : [Life(t)!Next]_(Life(t)!lifeVars)
  <2>1. /\ UNCHANGED <<protocol, reqStopped, reqCanceled, err, executed, stopped, canceled>>
        /\ \A t \in Tasks : pc'[t] = pc[t] \/ (pc[t] = "idle" /\ pc'[t] = "unmarshal")
    BY <1>3 DEF ReadStart, StartTask, taskVars, reqVars, TypeOK
  <2>2. LifeInv'
    BY <2>1 DEF LifeInv
  <2>3. ASSUME NEW t \in Tasks PROVE UNCHANGED (Life(t)!lifeVars)
    <3>1. Place(t)' = Place(t)
      BY <2>1 DEF Place
    <3> QED  BY <2>1, <3>1, UntouchedLives
  <2> QED  BY <2>2, <2>3
<1>4. CASE Step /\ ~(\E t \in Tasks : TaskStep(t)) /\ ~(\E i \in Ids : ReadStart(i))
  <2>1. Outside
    BY <1>4, OthersAreOutside
  <2>2. LifeInv'
    BY <2>1 DEF Outside, LifeInv
  <2> QED  BY <2>1, <2>2, OutsideLives DEF Life!Next
<1> QED  BY <1>1, <1>2, <1>3, <1>4 DEF Next

\* Every operation of a connection implements OperationLife, whatever the
\* reader, the timer and the other operations do: the same life as that of
\* Operation, which is one such operation in detail.
THEOREM OperationsHaveLives == Spec => LivesSpec
<1> DEFINE Lives == \A t \in Tasks : [Life(t)!Next]_(Life(t)!lifeVars)
<1>1. Init => LifeInv /\ \A t \in Tasks : Life(t)!Init
  BY LifeInit
<1>2. TypeOK /\ LifeInv /\ [Next]_vars => LifeInv' /\ [Lives]_vars
  BY LifeStep
<1> HIDE DEF Lives
<1>3. Spec => [][Lives]_vars
  BY <1>1, <1>2, TypeCorrect, PTL DEF Spec
<1>4. Spec => \A t \in Tasks : Life(t)!Init
  BY <1>1, PTL DEF Spec
<1> QED  BY <1>3, <1>4 DEF Lives, LivesSpec
=============================================================================
