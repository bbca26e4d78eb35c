-------------------------- MODULE WsHandshakeProofs --------------------------
(***************************************************************************)
(* Theorems about the beginning of a connection in WsConnection: the       *)
(* initialisation, its timeout, the acknowledgement that precedes all      *)
(* operations of a graphql-transport-ws client, and the one way in which   *)
(* the timeout leaves the goroutines of a connection waiting for ever.     *)
(***************************************************************************)
EXTENDS WsConnectionProofs

USE DEF taskVars, reqVars, readerVars, chanVars, writerVars,
        NotReaderVars, NotTaskVars, NotWriterVars

-----------------------------------------------------------------------------
(* The timer and the reader.                                               *)

\* Without a timeout there is no timer; with one, the reader waits for the
\* timer before it initialises the connection.
TimerInv ==
    /\ timer = "off" <=> ~ConnectTimeout
    /\ ContextNotRaced

LEMMA TimerStep == TypeOK /\ TimerInv /\ [Next]_vars => TimerInv'
<1> SUFFICES ASSUME TypeOK, TimerInv, Step \/ UNCHANGED vars PROVE TimerInv'
  BY DEF Next
<1> USE DEF TimerInv, ContextNotRaced
<1>1. CASE ReaderMessage
  <2>1. UNCHANGED timer /\ (rpc' = "initialise" => ~ConnectTimeout)
    BY <1>1 DEF ReaderMessage, ReadInit, ReadTerminate, ReadPing, ReadMalformed, ReadStart, ReadStop,
       StartTask, Reading, Fail
  <2> QED  BY <2>1
<1>2. CASE Signal
  BY <1>2, OptionAssumption DEF Signal
<1>3. CASE ReaderStep /\ ~Signal
  <2>1. UNCHANGED timer /\ rpc' # "initialise"
    BY <1>3 DEF ReaderStep, Initialise, StopMark, StopCancel, ReadFails, HandleReaderError,
       CancelRequest, CloseOutgoing, Fail
  <2> QED  BY <2>1
<1>4. CASE TimerFires \/ TimerCanceled \/ TimerReturns
  BY <1>4 DEF TimerFires, TimerCanceled, TimerReturns
<1>5. CASE UNCHANGED <<timer, rpc>>
  BY <1>5
<1>6. ASSUME NEW t \in Tasks, TaskStep(t) PROVE TimerInv'
  BY <1>5, <1>6 DEF TaskStep, Unmarshal, Prepare, ResultArrives, StreamEnds, ContextDone, Finish, Complete,
     CancelOperation, Delete
<1>7. ASSUME NEW g \in Goroutines, Send(g) \/ Drop(g) \/ SendPanics(g) PROVE TimerInv'
  BY <1>5, <1>7 DEF Send, Drop, SendPanics
<1>8. CASE WriterStep \/ KeepaliveFails \/ PeerLeaves \/ ParentCancel
  BY <1>5, <1>8 DEF WriterStep, WriteOk, WriteFails, WriteClose, Receive, WriterExits, KeepaliveFails,
     PeerLeaves, ParentCancel
<1>9. CASE UNCHANGED vars
  BY <1>5, <1>9 DEF vars
<1> QED  BY <1>1, <1>2, <1>3, <1>4, <1>6, <1>7, <1>8, <1>9 DEF Step

LEMMA TimerInit == Init => TimerInv
BY OptionAssumption DEF Init, TimerInv, ContextNotRaced

\* The timer never reads the context of the request while the reader replaces
\* it, though no lock keeps them apart.
THEOREM ContextNeverRaced == Spec => []ContextNotRaced
<1>1. TimerInv => ContextNotRaced
  BY DEF TimerInv
<1> QED  BY <1>1, TypeCorrect, TimerInit, TimerStep, PTL DEF Spec

-----------------------------------------------------------------------------
(* The kinds of messages on their way, and those the client has seen.      *)

KindsIn(s) == {s[n].kind : n \in DOMAIN s}
InFlight == (UNION {KindsIn(pending[g]) : g \in Goroutines}) \cup KindsIn(outgoing) \cup notices

LEMMA KindsOfOne == ASSUME NEW k, NEW t PROVE KindsIn(<<Msg(k, t)>>) = {k}
BY DEF KindsIn, Msg

LEMMA KindsOfErrors ==
    ASSUME NEW e, NEW t
    PROVE  /\ "ack" \notin KindsIn(ErrorMessages(e, t))
           /\ e # "timeout" => "timeout" \notin KindsIn(ErrorMessages(e, t))
<1> DEFINE close == CloseMessage(e)
           first == Msg("connection_error", t)
<1>1. close.kind = (IF e = "timeout" THEN "timeout" ELSE "close") /\ first.kind = "connection_error"
  BY DEF CloseMessage, Msg
<1> HIDE DEF close, first
<1>2. /\ KindsIn(<<close>>) = {close.kind} /\ KindsIn(<<first, close>>) = {first.kind, close.kind}
  BY DEF KindsIn
<1>3. ErrorMessages(e, t) \in {<<first, close>>, <<close>>, <<Msg("error", t)>>}
  BY DEF ErrorMessages, first, close
<1> QED  BY <1>1, <1>2, <1>3, KindsOfOne

LEMMA RestMessages ==
    ASSUME NEW s \in Seq(Message), s # <<>>
    PROVE  /\ 1 \in DOMAIN s /\ Head(s) = s[1] /\ Head(s) \in Message
           /\ \A i \in DOMAIN Tail(s) : i \in Nat \ {0} /\ i+1 \in DOMAIN s /\ Tail(s)[i] = s[i+1]
           /\ \A i \in DOMAIN s : i \in Nat \ {0} /\ (i > 1 => i-1 \in DOMAIN Tail(s))
<1>1. /\ Tail(s) \in Seq(Message) /\ Len(Tail(s)) = Len(s) - 1 /\ Len(s) \in Nat \ {0}
      /\ \A i \in 1..Len(Tail(s)) : Tail(s)[i] = s[i+1] /\ i+1 \in 1..Len(s)
      /\ Head(s) = s[1] /\ Head(s) \in Message
  BY HeadTailProperties, LenProperties
<1>2. DOMAIN Tail(s) = 1..Len(Tail(s)) /\ DOMAIN s = 1..Len(s)
  BY <1>1, LenProperties
<1> QED  BY <1>1, <1>2

LEMMA MoreMessages ==
    ASSUME NEW s \in Seq(Message), NEW m \in Message
    PROVE  /\ Len(s) \in Nat /\ DOMAIN s = 1..Len(s) /\ DOMAIN Append(s, m) = 1..(Len(s) + 1)
           /\ \A i \in 1..Len(s) : Append(s, m)[i] = s[i]
           /\ Append(s, m)[Len(s) + 1] = m
<1> DEFINE r == Append(s, m)
<1>1. /\ r \in Seq(Message) /\ Len(r) = Len(s) + 1 /\ Len(s) \in Nat
      /\ \A i \in 1..Len(s) : r[i] = s[i]
      /\ r[Len(s) + 1] = m
  BY AppendProperties, LenProperties
<1>2. DOMAIN r = 1..Len(r) /\ DOMAIN s = 1..Len(s)
  BY <1>1, LenProperties
<1> HIDE DEF r
<1> SUFFICES /\ Len(s) \in Nat /\ DOMAIN s = 1..Len(s) /\ DOMAIN r = 1..(Len(s) + 1)
             /\ \A i \in 1..Len(s) : r[i] = s[i]
             /\ r[Len(s) + 1] = m
  BY DEF r
<1> QED  BY <1>1, <1>2

LEMMA KindsOfRest ==
    ASSUME NEW s \in Seq(Message), s # <<>>
    PROVE  KindsIn(Tail(s)) \subseteq KindsIn(s) /\ Head(s).kind \in KindsIn(s)
BY RestMessages DEF KindsIn

LEMMA KindsOfMore ==
    ASSUME NEW s \in Seq(Message), NEW m \in Message
    PROVE  KindsIn(Append(s, m)) \subseteq KindsIn(s) \cup {m.kind}
<1>1. \A i \in DOMAIN Append(s, m) : i \in DOMAIN s \/ i = Len(s) + 1
  BY MoreMessages
<1> QED  BY <1>1, MoreMessages DEF KindsIn

LEMMA FlightOfQueue ==
    ASSUME TypeOK, NEW g \in Goroutines, NEW msgs, Queue(g, msgs), UNCHANGED <<outgoing, notices>>
    PROVE  InFlight' \subseteq InFlight \cup KindsIn(msgs)
<1>1. \A h \in Goroutines : pending'[h] = IF h = g THEN msgs ELSE pending[h]
  BY DEF Queue, TypeOK
<1> QED  BY <1>1 DEF InFlight

LEMMA FlightOfSend ==
    ASSUME TypeOK, NEW g \in Goroutines, Send(g) \/ Drop(g) \/ SendPanics(g)
    PROVE  InFlight' \subseteq InFlight
<1>1. CASE SendPanics(g)
  BY <1>1 DEF SendPanics, InFlight
<1>2. CASE Send(g) \/ Drop(g)
  <2>1. pending[g] \in Seq(Message) /\ pending[g] # <<>> /\ outgoing \in Seq(Message) /\ UNCHANGED notices
    BY <1>2 DEF Send, Drop, TypeOK
  <2>2. KindsIn(Tail(pending[g])) \subseteq KindsIn(pending[g]) /\ Head(pending[g]).kind \in KindsIn(pending[g])
    BY <2>1, KindsOfRest
  <2>3. \A h \in Goroutines : pending'[h] = IF h = g THEN Tail(pending[h]) ELSE pending[h]
    BY <1>2 DEF Send, Drop, TypeOK
  <2>4. KindsIn(outgoing') \subseteq KindsIn(outgoing) \cup KindsIn(pending[g])
    <3>1. CASE UNCHANGED outgoing
      BY <3>1
    <3>2. CASE outgoing' = Append(outgoing, Head(pending[g]))
      <4>1. Head(pending[g]) \in Message
        BY <2>1, HeadTailProperties
      <4> QED  BY <2>1, <2>2, <3>2, <4>1, KindsOfMore
    <3> QED  BY <1>2, <3>1, <3>2 DEF Send, Drop
  <2>5. \A h \in Goroutines : KindsIn(pending'[h]) \subseteq KindsIn(pending[h])
    BY <2>2, <2>3
  <2>6. ASSUME NEW k \in InFlight' PROVE k \in InFlight
    <3>1. CASE k \in KindsIn(outgoing') \cup notices'
      BY <2>1, <2>4, <3>1 DEF InFlight
    <3>2. CASE \E h \in Goroutines : k \in KindsIn(pending'[h])
      BY <2>5, <3>2 DEF InFlight
    <3> QED  BY <3>1, <3>2 DEF InFlight, KindsIn
  <2> QED  BY <2>6
<1> QED  BY <1>1, <1>2

LEMMA FlightOfWriter ==
    ASSUME TypeOK, WriterStep
    PROVE  InFlight' \subseteq InFlight
<1>1. CASE WriterExits
  BY <1>1 DEF WriterExits, InFlight
<1>2. CASE WriteOk \/ WriteFails \/ WriteClose
  <2>1. outgoing \in Seq(Message) /\ outgoing # <<>> /\ outgoing' = Tail(outgoing) /\ UNCHANGED pending
    BY <1>2 DEF WriteOk, WriteFails, WriteClose, Receive, TypeOK
  <2>2. notices' \subseteq notices \cup {Head(outgoing).kind}
    BY <1>2 DEF WriteOk, WriteFails, WriteClose, Noted
  <2> QED  BY <2>1, <2>2, KindsOfRest DEF InFlight
<1> QED  BY <1>1, <1>2 DEF WriterStep

-----------------------------------------------------------------------------
(* The timeout and the acknowledgement.                                    *)

AckMade == rpc = "initialise" \/ "ack" \in InFlight
TimeoutMade == "timeout" \in InFlight

\* The timer and the reader meet once: the reader goes on to acknowledge, or
\* the timer to close the websocket.  No other error has the code of a timeout.
TimeoutInv ==
    /\ TimerInv
    /\ timer \in {"off", "waiting"} => ~TimeoutMade
    /\ timer \in {"waiting", "fired"} => ~AckMade
    /\ ~(AckMade /\ TimeoutMade)
    /\ failure # "timeout" /\ \A t \in Tasks : err[t] # "timeout"

LEMMA TimeoutInit == Init => TimeoutInv
<1> SUFFICES ASSUME Init PROVE TimeoutInv
  OBVIOUS
<1>1. InFlight = {}
  BY DEF Init, InFlight, KindsIn
<1> QED  BY <1>1, TimerInit DEF Init, TimeoutInv, AckMade, TimeoutMade

LEMMA TimeoutStep == TypeOK /\ TimeoutInv /\ [Next]_vars => TimeoutInv'
<1> SUFFICES ASSUME TypeOK, TimeoutInv, [Next]_vars, Step \/ UNCHANGED vars PROVE TimeoutInv'
  BY DEF Next
<1>0. TimerInv'
  BY TimerStep DEF TimeoutInv
<1> USE GoroutineNames
\* A step that puts neither message on its way.
<1>1. ASSUME UNCHANGED timer \/ timer' = "done", rpc' = "initialise" => rpc = "initialise",
             "ack" \in InFlight' => AckMade, "timeout" \in InFlight' => TimeoutMade,
             failure' # "timeout", \A t \in Tasks : err'[t] # "timeout"
      PROVE  TimeoutInv'
  BY <1>0, <1>1 DEF TimeoutInv, AckMade, TimeoutMade
<1>2. CASE ReaderMessage
  <2>1. UNCHANGED <<timer, outgoing, notices, err>> /\ failure' # "timeout"
    BY <1>2 DEF ReaderMessage, ReadInit, ReadTerminate, ReadPing, ReadMalformed, ReadStart, ReadStop,
       StartTask, Fail, TimeoutInv
  <2>2. CASE ReadInit
    <3>1. UNCHANGED InFlight /\ (rpc' = "initialise" => timer = "off")
      BY <2>1, <2>2 DEF ReadInit, InFlight, Fail, TimeoutInv, TimerInv
    <3> QED  BY <1>0, <2>1, <3>1 DEF TimeoutInv, AckMade, TimeoutMade
  <2>3. CASE ~ReadInit
    <3>1. rpc' # "initialise"
      BY <1>2, <2>3 DEF ReaderMessage, ReadTerminate, ReadPing, ReadMalformed, ReadStart, ReadStop,
         StartTask, Reading, Fail
    <3>2. InFlight' \subseteq InFlight \cup {"pong", "close"}
      <4>1. CASE UNCHANGED pending
        BY <2>1, <4>1 DEF InFlight
      <4>2. \A e : e # "timeout" => KindsIn(<<CloseMessage(e)>>) = {"close"}
        BY KindsOfOne DEF CloseMessage
      <4>3. CASE Queue(Reader, <<CloseMessage("event")>>) \/ Queue(Reader, <<Msg("pong", NoTask)>>)
        BY <2>1, <4>2, <4>3, FlightOfQueue, KindsOfOne
      <4> QED  BY <1>2, <2>3, <4>1, <4>3 DEF ReaderMessage, ReadTerminate, ReadPing, ReadMalformed,
                  ReadStart, ReadStop
    <3> QED  BY <1>1, <2>1, <3>1, <3>2 DEF TimeoutInv, AckMade, TimeoutMade
  <2> QED  BY <2>2, <2>3
<1>3. CASE Signal
  <2>1. UNCHANGED <<InFlight, failure, err>> /\ timer = "waiting" /\ timer' = "done"
    BY <1>3 DEF Signal, InFlight
  <2> QED  BY <1>0, <2>1 DEF TimeoutInv, AckMade, TimeoutMade
<1>4. CASE Initialise
  <2>1. rpc = "initialise" /\ rpc' # "initialise" /\ failure' # "timeout"
        /\ UNCHANGED <<timer, outgoing, notices, err>>
    BY <1>4 DEF Initialise, Fail, TimeoutInv
  <2>2. InFlight' \subseteq InFlight \cup {"ack"}
    <3>1. CASE UNCHANGED pending
      BY <2>1, <3>1 DEF InFlight
    <3>2. CASE Queue(Reader, <<Msg("ack", NoTask)>>)
      BY <2>1, <3>2, FlightOfQueue, KindsOfOne
    <3> QED  BY <1>4, <3>1, <3>2 DEF Initialise
  <2> QED  BY <1>1, <2>1, <2>2 DEF TimeoutInv, AckMade, TimeoutMade
<1>5. CASE HandleReaderError
  <2>1. rpc' # "initialise" /\ failure' # "timeout" /\ UNCHANGED <<timer, outgoing, notices, err>>
    BY <1>5 DEF HandleReaderError
  <2>2. InFlight' \subseteq InFlight \cup KindsIn(ErrorMessages(failure, NoTask))
    BY <1>5, <2>1, FlightOfQueue DEF HandleReaderError
  <2> QED  BY <1>1, <2>1, <2>2, KindsOfErrors DEF TimeoutInv, AckMade, TimeoutMade
<1>6. CASE StopMark \/ StopCancel \/ ReadFails \/ CancelRequest \/ CloseOutgoing
  <2>1. rpc' # "initialise" /\ failure' # "timeout" /\ UNCHANGED <<timer, outgoing, pending, notices, err>>
    BY <1>6 DEF StopMark, StopCancel, ReadFails, CancelRequest, CloseOutgoing, Fail, TimeoutInv
  <2> QED  BY <1>1, <2>1 DEF InFlight, TimeoutInv, AckMade, TimeoutMade
<1>7. CASE TimerFires
  <2>1. /\ UNCHANGED <<outgoing, notices, rpc, failure, err>>
        /\ timer = "waiting" /\ timer' = "fired"
    BY <1>7 DEF TimerFires
  <2>2. InFlight' \subseteq InFlight \cup KindsIn(ErrorMessages("timeout", NoTask))
    BY <1>7, <2>1, FlightOfQueue DEF TimerFires
  <2> QED  BY <1>0, <2>1, <2>2, KindsOfErrors DEF TimeoutInv, AckMade, TimeoutMade
<1>8. CASE TimerCanceled \/ TimerReturns
  BY <1>1, <1>8 DEF TimerCanceled, TimerReturns, InFlight, TimeoutInv, AckMade, TimeoutMade
<1>9. ASSUME NEW t \in Tasks, TaskStep(t) PROVE TimeoutInv'
  <2>1. UNCHANGED <<timer, rpc, failure, outgoing, notices>>
    BY <1>9 DEF TaskStep, Unmarshal, Prepare, ResultArrives, StreamEnds, ContextDone, Finish, Complete,
       CancelOperation, Delete
  <2>2. \A u \in Tasks : err'[u] # "timeout"
    <3>1. UNCHANGED err \/ \E e \in {"none", "event", "other"} : err' = [err EXCEPT ![t] = e]
      BY <1>9 DEF TaskStep, Unmarshal, Prepare, ResultArrives, StreamEnds, ContextDone, Finish, Complete,
         CancelOperation, Delete
    <3> QED  BY <3>1 DEF TimeoutInv, TypeOK
  <2>3. "ack" \in InFlight' => AckMade
    <3>1. UNCHANGED pending \/ \E msgs : "ack" \notin KindsIn(msgs) /\ "timeout" \notin KindsIn(msgs) /\ Queue(t, msgs)
      BY <1>9, KindsOfOne, KindsOfErrors DEF TaskStep, Unmarshal, Prepare, ResultArrives, StreamEnds,
         ContextDone, Finish, Complete, CancelOperation, Delete, TimeoutInv
    <3> QED  BY <2>1, <3>1, FlightOfQueue DEF InFlight, AckMade
  <2>4. "timeout" \in InFlight' => TimeoutMade
    <3>1. UNCHANGED pending \/ \E msgs : "timeout" \notin KindsIn(msgs) /\ Queue(t, msgs)
      BY <1>9, KindsOfOne, KindsOfErrors DEF TaskStep, Unmarshal, Prepare, ResultArrives, StreamEnds,
         ContextDone, Finish, Complete, CancelOperation, Delete, TimeoutInv
    <3> QED  BY <2>1, <3>1, FlightOfQueue DEF InFlight, TimeoutMade
  <2> QED  BY <1>1, <2>1, <2>2, <2>3, <2>4 DEF TimeoutInv
<1>10. ASSUME NEW g \in Goroutines, Send(g) \/ Drop(g) \/ SendPanics(g) PROVE TimeoutInv'
  <2>1. UNCHANGED <<timer, rpc, failure, err>>
    BY <1>10 DEF Send, Drop, SendPanics
  <2> QED  BY <1>1, <1>10, <2>1, FlightOfSend DEF TimeoutInv, AckMade, TimeoutMade
<1>11. CASE WriterStep
  <2>1. UNCHANGED <<timer, rpc, failure, err>>
    BY <1>11 DEF WriterStep, WriteOk, WriteFails, WriteClose, Receive, WriterExits
  <2> QED  BY <1>1, <1>11, <2>1, FlightOfWriter DEF TimeoutInv, AckMade, TimeoutMade
<1>12. CASE KeepaliveFails \/ PeerLeaves \/ ParentCancel \/ UNCHANGED vars
  <2>1. UNCHANGED <<timer, rpc, failure, err, pending, outgoing, notices>>
    BY <1>12 DEF KeepaliveFails, PeerLeaves, ParentCancel, vars
  <2> QED  BY <1>1, <2>1 DEF InFlight, TimeoutInv, AckMade, TimeoutMade
<1> QED
  BY <1>2, <1>3, <1>4, <1>5, <1>6, <1>7, <1>8, <1>9, <1>10, <1>11, <1>12 DEF Step, ReaderStep

\* Whichever of the initialisation and its timeout comes first, the client is
\* told of one of them only, whatever is queued on the channel between them.
THEOREM TimeoutAlwaysExcludesAck == Spec => []TimeoutExcludesAck
<1>1. TimeoutInv => TimeoutExcludesAck
  <2>1. notices \subseteq InFlight
    BY DEF InFlight
  <2>2. TimeoutInv => ~("ack" \in InFlight /\ "timeout" \in InFlight)
    BY DEF TimeoutInv, AckMade, TimeoutMade
  <2> QED  BY <2>1, <2>2 DEF TimeoutExcludesAck
<1> QED  BY <1>1, TypeCorrect, TimeoutInit, TimeoutStep, PTL DEF Spec
-----------------------------------------------------------------------------
(* The acknowledgement comes first.                                        *)

Quiet == \A t \in Tasks : pc[t] = "idle"
AckPending == pending[Reader] = <<Msg("ack", NoTask)>>

\* The ack is in the channel before any message of an operation.
AckLeads ==
    \E n \in DOMAIN outgoing :
        outgoing[n].kind = "ack" /\ \A i \in 1..n : outgoing[i].task = NoTask

\* The client has it, or is the next to get it, or gets nothing any more.
Acked ==
    \/ "ack" \in notices
    \/ (\A t \in Tasks : delivered[t] = <<>>) /\ (ws # "open" \/ AckLeads)

\* Nobody sends for an operation that has not started.
OwnMessages ==
    /\ \A g \in Goroutines : \A n \in DOMAIN pending[g] : pending[g][n].task \in {NoTask, g}
    /\ \A t \in Tasks : pc[t] = "idle" =>
          Idle(t) /\ delivered[t] = <<>> /\ \A n \in DOMAIN outgoing : outgoing[n].task # t

\* Operations start once the reader has put the ack on the channel, where it
\* cannot drop it: the request is cancelled only when the reader has ended.
HandshakeInv ==
    /\ OwnMessages
    /\ reqCanceled => rpc \in {"wait", "done"}
    /\ AckPending \/ "ack" \notin KindsIn(pending[Reader])
    /\ AckPending => rpc = "read"
    /\ protocol = GTWS =>
          /\ ~init \/ rpc \in {"signal", "initialise"} \/ AckPending => Quiet
          /\ rpc \in {"read", "stopMark", "stopCancel"} \/ ~Quiet => ~init \/ AckPending \/ Acked

LEMMA HandshakeInit == Init => HandshakeInv
<1> SUFFICES ASSUME Init PROVE HandshakeInv
  OBVIOUS
<1>1. \A g \in Goroutines : pending[g] = <<>>
  BY DEF Init
<1>2. DOMAIN <<>> = {} /\ KindsIn(<<>>) = {} /\ <<>> # <<Msg("ack", NoTask)>>
  BY DEF KindsIn
<1> QED  BY <1>1, <1>2, GoroutineNames DEF Init, HandshakeInv, OwnMessages, AckPending, Quiet, Idle

LEMMA TasksOfErrors ==
    ASSUME NEW e, NEW t, NEW n \in DOMAIN ErrorMessages(e, t)
    PROVE  ErrorMessages(e, t)[n].task \in {NoTask, t}
<1> DEFINE close == CloseMessage(e)
           first == Msg("connection_error", t)
           plain == Msg("error", t)
<1>1. close.task = NoTask /\ first.task = t /\ plain.task = t
  BY DEF CloseMessage, Msg
<1> HIDE DEF close, first, plain
<1>2. ErrorMessages(e, t) \in {<<first, close>>, <<close>>, <<plain>>}
  BY DEF ErrorMessages, first, close, plain
<1> QED  BY <1>1, <1>2

\* What goroutine g queues is about its own operation.
LEMMA OwnQueue ==
    ASSUME TypeOK, OwnMessages, NEW g \in Goroutines, NEW msgs, Queue(g, msgs),
           \A n \in DOMAIN msgs : msgs[n].task \in {NoTask, g},
           g \in Tasks => pc[g] # "idle",
           \A t \in Tasks : pc'[t] = "idle" => pc[t] = "idle",
           UNCHANGED <<delivered, outgoing>>
    PROVE  OwnMessages'
<1>1. \A h \in Goroutines : pending'[h] = IF h = g THEN msgs ELSE pending[h]
  BY DEF Queue, TypeOK
<1> QED  BY <1>1, GoroutineNames DEF OwnMessages, Idle

LEMMA OwnKept ==
    ASSUME OwnMessages, \A t \in Tasks : pc'[t] = "idle" => pc[t] = "idle",
           UNCHANGED <<pending, delivered, outgoing>>
    PROVE  OwnMessages'
BY DEF OwnMessages, Idle

\* The steps of the reader change pc by starting an operation only.
LEMMA HandshakeReader ==
    ASSUME TypeOK, HandshakeInv, ReaderMessage \/ ReaderStep
    PROVE  HandshakeInv'
<1> USE GoroutineNames
<1>1. UNCHANGED <<protocol, outgoing, notices, ws, delivered>> /\ UNCHANGED Acked
  <2>1. UNCHANGED <<protocol, outgoing, notices, ws, delivered>>
    BY DEF ReaderMessage, ReaderStep, ReadInit, ReadTerminate, ReadPing, ReadMalformed, ReadStart, ReadStop,
       StartTask, Signal, Initialise, StopMark, StopCancel, ReadFails, HandleReaderError, CancelRequest, CloseOutgoing
  <2> QED  BY <2>1 DEF Acked, AckLeads
<1>3. Reading => ~AckPending
  BY DEF Reading, Idle, AckPending
<1>4. CASE ReadInit
  <2>1. UNCHANGED <<pc, pending, reqCanceled>> /\ rpc = "read" /\ ~AckPending
    BY <1>3, <1>4 DEF ReadInit, Reading
  <2>2. CASE init
    BY <1>1, <1>4, <2>1, <2>2, OwnKept DEF ReadInit, Fail, HandshakeInv, AckPending, Quiet
  <2>3. CASE ~init
    BY <1>1, <1>4, <2>1, <2>3, OwnKept DEF ReadInit, HandshakeInv, AckPending, Quiet
  <2> QED  BY <2>2, <2>3
<1>5. CASE ReadTerminate \/ ReadPing
  <2>1. UNCHANGED <<pc, init, reqCanceled>> /\ rpc = "read" /\ rpc' \in {"read", "fail"} /\ ~AckPending
    BY <1>3, <1>5 DEF ReadTerminate, ReadPing, Reading, Fail
  <2>2. CASE UNCHANGED pending
    BY <1>1, <2>1, <2>2, OwnKept DEF HandshakeInv, AckPending, Quiet
  <2>3. ASSUME NEW k \in {"pong", "close"}, Queue(Reader, <<Msg(k, NoTask)>>)
        PROVE  HandshakeInv'
    <3>1. \A n \in DOMAIN <<Msg(k, NoTask)>> : <<Msg(k, NoTask)>>[n].task \in {NoTask, Reader}
      BY DEF Msg
    <3>2. OwnMessages'
      BY <1>1, <2>1, <2>3, <3>1, OwnQueue DEF HandshakeInv
    <3>3. pending'[Reader] = <<Msg(k, NoTask)>> /\ KindsIn(pending'[Reader]) = {k}
      BY <2>3, KindsOfOne DEF Queue, TypeOK
    <3>4. ~AckPending' /\ "ack" \notin KindsIn(pending'[Reader])
      BY <3>3 DEF AckPending, Msg
    <3> QED  BY <1>1, <2>1, <3>2, <3>4 DEF HandshakeInv, Quiet
  <2> QED  BY <1>5, <2>2, <2>3 DEF ReadTerminate, ReadPing, CloseMessage
<1>6. CASE ReadMalformed \/ ReadFails
  <2>1. UNCHANGED <<pc, pending, init, reqCanceled>> /\ rpc = "read" /\ rpc' = "fail" /\ ~AckPending
    BY <1>3, <1>6 DEF ReadMalformed, ReadFails, Reading, Fail
  <2> QED  BY <1>1, <2>1, OwnKept DEF HandshakeInv, AckPending, Quiet
<1>7. ASSUME NEW i \in Ids, ReadStart(i) PROVE HandshakeInv'
  <2>1. UNCHANGED <<pending, init, reqCanceled>> /\ rpc = "read" /\ ~AckPending
    BY <1>3, <1>7 DEF ReadStart, Reading
  <2>2. CASE UNCHANGED pc /\ rpc' = "fail"
    BY <1>1, <2>1, <2>2, OwnKept DEF HandshakeInv, AckPending, Quiet
  <2>3. ASSUME NEW t \in Tasks, StartTask(i, t), ~Unauthorized PROVE HandshakeInv'
    <3>1. UNCHANGED rpc /\ \A u \in Tasks : pc'[u] = "idle" => pc[u] = "idle"
      BY <2>3 DEF StartTask, TypeOK
    <3>2. protocol = GTWS => init /\ Acked
      BY <2>1, <2>3 DEF HandshakeInv, Unauthorized
    <3> QED  BY <1>1, <2>1, <3>1, <3>2, OwnKept DEF HandshakeInv, AckPending
  <2> QED  BY <1>7, <2>2, <2>3 DEF ReadStart, Fail
<1>8. ASSUME NEW i \in Ids, ReadStop(i) PROVE HandshakeInv'
  <2>1. UNCHANGED <<pc, pending, init, reqCanceled>> /\ rpc = "read" /\ rpc' \in {"fail", "stopMark"} /\ ~AckPending
    BY <1>3, <1>8 DEF ReadStop, Reading, Fail
  <2> QED  BY <1>1, <2>1, OwnKept DEF HandshakeInv, AckPending, Quiet
<1>9. CASE Signal \/ StopMark \/ StopCancel
  <2>1. /\ UNCHANGED <<pc, pending, init, reqCanceled>> /\ ~AckPending
        /\ \/ rpc = "signal" /\ rpc' = "initialise"
           \/ rpc \in {"stopMark", "stopCancel"} /\ rpc' \in {"stopCancel", "read"}
    BY <1>9 DEF Signal, StopMark, StopCancel, HandshakeInv
  <2> QED  BY <1>1, <2>1, OwnKept DEF HandshakeInv, AckPending, Quiet
<1>10. CASE Initialise
  <2>1. UNCHANGED <<pc, init, reqCanceled>> /\ rpc = "initialise" /\ ~AckPending /\ (protocol = GTWS => Quiet)
    BY <1>10 DEF Initialise, HandshakeInv
  <2>2. CASE UNCHANGED pending /\ rpc' = "fail"
    BY <1>1, <2>1, <2>2, OwnKept DEF HandshakeInv, AckPending, Quiet
  <2>3. CASE Queue(Reader, <<Msg("ack", NoTask)>>) /\ rpc' = "read"
    <3>1. \A n \in DOMAIN <<Msg("ack", NoTask)>> : <<Msg("ack", NoTask)>>[n].task \in {NoTask, Reader}
      BY DEF Msg
    <3>2. OwnMessages'
      BY <1>1, <2>1, <2>3, <3>1, OwnQueue DEF HandshakeInv
    <3>3. AckPending'
      BY <2>3 DEF Queue, TypeOK, AckPending
    <3> QED  BY <1>1, <2>1, <2>3, <3>2, <3>3 DEF HandshakeInv, Quiet
  <2> QED  BY <1>10, <2>2, <2>3 DEF Initialise, Fail
<1>11. CASE HandleReaderError
  <2>1. UNCHANGED <<pc, init, reqCanceled>> /\ rpc = "fail" /\ rpc' = "cancel" /\ ~AckPending
        /\ Queue(Reader, ErrorMessages(failure, NoTask))
    BY <1>11 DEF HandleReaderError, HandshakeInv
  <2>2. OwnMessages'
    BY <1>1, <2>1, TasksOfErrors, OwnQueue DEF HandshakeInv
  <2>3. "ack" \notin KindsIn(pending'[Reader])
    BY <2>1, KindsOfErrors DEF Queue, TypeOK
  <2>4. ~AckPending'
    BY <2>3, KindsOfOne DEF AckPending
  <2> QED  BY <1>1, <2>1, <2>2, <2>3, <2>4 DEF HandshakeInv, Quiet
<1>12. CASE CancelRequest \/ CloseOutgoing
  <2>1. UNCHANGED <<pc, pending, init>> /\ rpc' \in {"wait", "done"} /\ rpc \in {"cancel", "wait"} /\ ~AckPending
    BY <1>12 DEF CancelRequest, CloseOutgoing, HandshakeInv
  <2> QED  BY <1>1, <2>1, OwnKept DEF HandshakeInv, AckPending, Quiet
<1> QED
  BY <1>4, <1>5, <1>6, <1>7, <1>8, <1>9, <1>10, <1>11, <1>12 DEF ReaderMessage, ReaderStep

\* A task is under way when it takes a step, so that the ack has come before.
LEMMA HandshakeTask ==
    ASSUME TypeOK, HandshakeInv, NEW t \in Tasks, TaskStep(t)
    PROVE  HandshakeInv'
<1> USE GoroutineNames
<1>1. /\ pc[t] # "idle" /\ (\A u \in Tasks : pc'[u] = "idle" <=> pc[u] = "idle")
      /\ UNCHANGED <<protocol, init, reqCanceled, rpc, outgoing, notices, ws, delivered>>
  <2>1. /\ pc[t] # "idle" /\ UNCHANGED <<protocol, init, reqCanceled, rpc, outgoing, notices, ws, delivered>>
        /\ UNCHANGED pc \/ \E l \in Pcs \ {"idle"} : Goto(t, l)
    BY DEF TaskStep, Unmarshal, Prepare, ResultArrives, StreamEnds, ContextDone, Finish, Complete,
       CancelOperation, Delete, Pcs, Goto
  <2>2. \A u \in Tasks : pc'[u] = "idle" <=> pc[u] = "idle"
    BY <2>1 DEF Goto, TypeOK
  <2> QED  BY <2>1, <2>2
<1>2. OwnMessages' /\ pending'[Reader] = pending[Reader]
  <2>1. UNCHANGED pending \/ \E msgs : Queue(t, msgs) /\ \A n \in DOMAIN msgs : msgs[n].task \in {NoTask, t}
    <3>1. \A k : \A n \in DOMAIN <<Msg(k, t)>> : <<Msg(k, t)>>[n].task \in {NoTask, t}
      BY DEF Msg
    <3> QED  BY <3>1, TasksOfErrors DEF TaskStep, Unmarshal, Prepare, ResultArrives, StreamEnds, ContextDone,
                Finish, Complete, CancelOperation, Delete
  <2>2. CASE UNCHANGED pending
    BY <1>1, <2>2, OwnKept DEF HandshakeInv
  <2>3. ASSUME NEW msgs, Queue(t, msgs), \A n \in DOMAIN msgs : msgs[n].task \in {NoTask, t}
        PROVE  OwnMessages' /\ pending'[Reader] = pending[Reader]
    <3>1. pending'[Reader] = pending[Reader]
      BY <2>3 DEF Queue, TypeOK
    <3> QED  BY <1>1, <2>3, <3>1, OwnQueue DEF HandshakeInv
  <2> QED  BY <2>1, <2>2, <2>3
<1>3. UNCHANGED Acked /\ UNCHANGED Quiet /\ UNCHANGED AckPending
  BY <1>1, <1>2 DEF Acked, AckLeads, Quiet, AckPending
<1> QED  BY <1>1, <1>2, <1>3 DEF HandshakeInv

LEMMA HandshakeTimer ==
    ASSUME TypeOK, HandshakeInv, TimerFires \/ TimerCanceled \/ TimerReturns
    PROVE  HandshakeInv'
<1> USE GoroutineNames
<1>1. UNCHANGED <<protocol, init, reqCanceled, rpc, pc, outgoing, notices, ws, delivered>>
  BY DEF TimerFires, TimerCanceled, TimerReturns
<1>2. OwnMessages' /\ pending'[Reader] = pending[Reader]
  <2>1. CASE UNCHANGED pending
    BY <1>1, <2>1, OwnKept DEF HandshakeInv
  <2>2. CASE Queue(Timer, ErrorMessages("timeout", NoTask))
    <3>1. pending'[Reader] = pending[Reader]
      BY <2>2 DEF Queue, TypeOK
    <3> QED  BY <1>1, <2>2, <3>1, TasksOfErrors, OwnQueue DEF HandshakeInv
  <2> QED  BY <2>1, <2>2 DEF TimerFires, TimerCanceled, TimerReturns
<1>3. UNCHANGED Acked /\ UNCHANGED Quiet /\ UNCHANGED AckPending
  BY <1>1, <1>2 DEF Acked, AckLeads, Quiet, AckPending
<1> QED  BY <1>1, <1>2, <1>3 DEF HandshakeInv
\* A send keeps the messages' owners, and takes them from pending to outgoing.
LEMMA OwnSend ==
    ASSUME TypeOK, OwnMessages, NEW g \in Goroutines, Send(g) \/ Drop(g)
    PROVE  OwnMessages'
<1>1. pending[g] \in Seq(Message) /\ pending[g] # <<>> /\ outgoing \in Seq(Message)
      /\ UNCHANGED <<pc, delivered>>
  BY DEF Send, Drop, TypeOK
<1>2. \A h \in Goroutines : pending'[h] = IF h = g THEN Tail(pending[h]) ELSE pending[h]
  BY DEF Send, Drop, TypeOK
<1>3. Head(pending[g]).task \in {NoTask, g}
  BY <1>1, RestMessages DEF OwnMessages
<1>4. ASSUME NEW h \in Goroutines, NEW n \in DOMAIN pending'[h] PROVE pending'[h][n].task \in {NoTask, h}
  <2>1. CASE h # g
    BY <1>2, <1>4, <2>1 DEF OwnMessages
  <2>2. CASE h = g
    <3>1. pending'[h] = Tail(pending[g]) /\ n \in DOMAIN Tail(pending[g])
      BY <1>2, <1>4, <2>2
    <3>2. pending'[h][n] = pending[g][n+1] /\ n+1 \in DOMAIN pending[g]
      BY <1>1, <3>1, RestMessages
    <3> QED  BY <2>2, <3>2 DEF OwnMessages
  <2> QED  BY <2>1, <2>2
<1>5. ASSUME NEW t \in Tasks, pc'[t] = "idle"
      PROVE  pending'[t] = <<>> /\ delivered'[t] = <<>> /\ \A n \in DOMAIN outgoing' : outgoing'[n].task # t
  <2>1. pending[t] = <<>> /\ delivered[t] = <<>> /\ (\A n \in DOMAIN outgoing : outgoing[n].task # t) /\ t # g
    BY <1>1, <1>5 DEF OwnMessages, Idle
  <2>2. t # NoTask /\ pending'[t] = <<>> /\ delivered'[t] = <<>>
    BY <1>1, <1>2, <2>1, GoroutineNames
  <2>3. CASE UNCHANGED outgoing
    BY <2>1, <2>2, <2>3
  <2>4. CASE outgoing' = Append(outgoing, Head(pending[g]))
    <3>1. Head(pending[g]).task # t /\ Head(pending[g]) \in Message
      BY <1>1, <1>3, <2>1, <2>2, RestMessages
    <3>2. \A n \in DOMAIN outgoing' : n \in DOMAIN outgoing \/ n = Len(outgoing) + 1
      BY <1>1, <2>4, <3>1, MoreMessages
    <3> QED  BY <1>1, <2>1, <2>2, <2>4, <3>1, <3>2, MoreMessages
  <2> QED  BY <2>2, <2>3, <2>4 DEF Send, Drop
<1> QED  BY <1>4, <1>5 DEF OwnMessages, Idle

\* The ack keeps its lead, and takes it when it is sent before any operation.
LEMMA LeadOfSend ==
    ASSUME TypeOK, NEW g \in Goroutines, Send(g),
           \/ AckLeads
           \/ /\ Head(pending[g]).kind = "ack" /\ Head(pending[g]).task = NoTask
              /\ \A n \in DOMAIN outgoing : outgoing[n].task = NoTask
    PROVE  AckLeads'
<1>1. /\ outgoing \in Seq(Message) /\ Head(pending[g]) \in Message
      /\ outgoing' = Append(outgoing, Head(pending[g]))
  BY RestMessages DEF Send, TypeOK
<1>2. /\ Len(outgoing) \in Nat /\ DOMAIN outgoing = 1..Len(outgoing) /\ DOMAIN outgoing' = 1..(Len(outgoing) + 1)
      /\ \A i \in 1..Len(outgoing) : outgoing'[i] = outgoing[i]
      /\ outgoing'[Len(outgoing) + 1] = Head(pending[g])
  BY <1>1, MoreMessages
<1>3. CASE AckLeads
  <2>1. PICK n \in DOMAIN outgoing : outgoing[n].kind = "ack" /\ \A i \in 1..n : outgoing[i].task = NoTask
    BY <1>3 DEF AckLeads
  <2>2. n \in DOMAIN outgoing' /\ outgoing'[n].kind = "ack" /\ \A i \in 1..n : outgoing'[i].task = NoTask
    BY <1>2, <2>1
  <2> QED  BY <2>2 DEF AckLeads
<1>4. ASSUME Head(pending[g]).kind = "ack", Head(pending[g]).task = NoTask,
             \A n \in DOMAIN outgoing : outgoing[n].task = NoTask
      PROVE  AckLeads'
  <2> DEFINE last == Len(outgoing) + 1
  <2>1. last \in DOMAIN outgoing' /\ outgoing'[last].kind = "ack" /\ \A i \in 1..last : outgoing'[i].task = NoTask
    BY <1>2, <1>4
  <2> QED  BY <2>1 DEF AckLeads
<1> QED  BY <1>3, <1>4

LEMMA HandshakeSend ==
    ASSUME TypeOK, HandshakeInv, NEW g \in Goroutines, Send(g) \/ Drop(g) \/ SendPanics(g)
    PROVE  HandshakeInv'
<1> USE GoroutineNames
<1>1. UNCHANGED <<protocol, init, reqCanceled, rpc, pc, notices, ws, delivered>>
  BY DEF Send, Drop, SendPanics
<1>2. CASE SendPanics(g)
  BY <1>1, <1>2, OwnKept DEF SendPanics, HandshakeInv, AckPending, Quiet, Acked, AckLeads
<1>3. CASE Send(g) \/ Drop(g)
  <2>1. OwnMessages'
    BY <1>3, OwnSend DEF HandshakeInv
  <2>2. /\ pending[g] \in Seq(Message) /\ pending[g] # <<>>
        /\ \A h \in Goroutines : pending'[h] = IF h = g THEN Tail(pending[h]) ELSE pending[h]
    BY <1>3 DEF Send, Drop, TypeOK
  <2>3. Acked => Acked'
    <3>1. AckLeads => AckLeads'
      BY <1>3, LeadOfSend DEF Drop, AckLeads
    <3> QED  BY <1>1, <3>1 DEF Acked
  <2>4. CASE g # Reader
    <3>1. pending'[Reader] = pending[Reader]
      BY <2>2, <2>4
    <3> QED  BY <1>1, <2>1, <2>3, <3>1 DEF HandshakeInv, AckPending, Quiet
  <2>5. CASE g = Reader /\ ~AckPending
    <3>1. "ack" \notin KindsIn(pending'[Reader])
      BY <2>2, <2>5, KindsOfRest DEF HandshakeInv
    <3>2. ~AckPending'
      BY <3>1, KindsOfOne DEF AckPending
    <3> QED  BY <1>1, <2>1, <2>3, <2>5, <3>1, <3>2 DEF HandshakeInv, Quiet
  <2>6. CASE g = Reader /\ AckPending
    <3>1. Send(g) /\ rpc = "read"
      BY <1>3, <2>6 DEF HandshakeInv, Drop
    <3>2. pending'[Reader] = <<>> /\ KindsIn(<<>>) = {} /\ <<>> # <<Msg("ack", NoTask)>>
      <4>1. pending'[Reader] = Tail(<<Msg("ack", NoTask)>>)
        BY <2>2, <2>6 DEF AckPending
      <4>2. Tail(<<Msg("ack", NoTask)>>) = <<>>
        OBVIOUS
      <4>3. KindsIn(<<>>) = {}
        BY DEF KindsIn
      <4>4. <<>> # <<Msg("ack", NoTask)>>
        OBVIOUS
      <4> QED  BY <4>1, <4>2, <4>3, <4>4
    <3>3. ASSUME protocol = GTWS PROVE Quiet /\ Acked'
      <4>1. Quiet
        BY <2>6, <3>3 DEF HandshakeInv
      <4>2. \A n \in DOMAIN outgoing : outgoing[n].task = NoTask
        <5>1. outgoing \in Seq(Message) /\ DOMAIN outgoing = 1..Len(outgoing)
          BY LenProperties DEF TypeOK
        <5>2. \A n \in DOMAIN outgoing : outgoing[n].task \in Tasks \cup {NoTask}
          <6>1. \A n \in DOMAIN outgoing : outgoing[n] \in Message
            BY <5>1, ElementOfSeq
          <6> QED  BY <6>1 DEF Message
        <5> QED  BY <4>1, <5>2 DEF Quiet, HandshakeInv, OwnMessages
      <4>3. Head(pending[g]).kind = "ack" /\ Head(pending[g]).task = NoTask
        BY <2>6 DEF AckPending, Msg
      <4>4. AckLeads'
        BY <3>1, <4>2, <4>3, LeadOfSend
      <4>5. \A t \in Tasks : delivered'[t] = <<>>
        BY <1>1, <4>1 DEF Quiet, HandshakeInv, OwnMessages
      <4> QED  BY <4>1, <4>4, <4>5 DEF Acked
    <3> QED  BY <1>1, <2>1, <3>1, <3>2, <3>3 DEF HandshakeInv, AckPending, Quiet
  <2> QED  BY <2>4, <2>5, <2>6
<1> QED  BY <1>2, <1>3

\* What the writer takes off the channel keeps the order of the rest.
LEMMA HandshakeWriter ==
    ASSUME TypeOK, HandshakeInv, WriterStep
    PROVE  HandshakeInv'
<1> USE GoroutineNames
<1>1. UNCHANGED <<protocol, init, reqCanceled, rpc, pc, pending>>
  BY DEF WriterStep, WriteOk, WriteFails, WriteClose, Receive, WriterExits
<1>2. OwnMessages' /\ (Acked => Acked')
  <2>1. CASE WriterExits
    BY <1>1, <2>1, OwnKept DEF WriterExits, Acked, AckLeads, HandshakeInv
  <2>2. CASE WriteOk \/ WriteFails \/ WriteClose
    <3>1. outgoing \in Seq(Message) /\ outgoing # <<>> /\ outgoing' = Tail(outgoing)
      BY <2>2 DEF WriteOk, WriteFails, WriteClose, Receive, TypeOK
    <3> DEFINE m == Head(outgoing)
    <3>2. m \in Message /\ m = outgoing[1] /\ 1 \in DOMAIN outgoing
      BY <3>1, RestMessages
    <3> HIDE DEF m
    <3>3. notices \subseteq notices' /\ (ws # "open" => ws' # "open")
      BY <2>2 DEF WriteOk, WriteFails, WriteClose
    <3>4. \/ UNCHANGED delivered
          \/ /\ ws = "open" /\ m.task # NoTask
             /\ \E s : delivered' = [delivered EXCEPT ![m.task] = s]
      BY <2>2 DEF WriteOk, WriteFails, WriteClose, TypeOK, m
    <3>5. m.task \in Tasks => pc[m.task] # "idle"
      BY <3>2 DEF HandshakeInv, OwnMessages
    <3>6. \A t \in Tasks : pc[t] = "idle" => delivered'[t] = delivered[t]
      BY <3>2, <3>4, <3>5 DEF TypeOK, Message
    <3>7. OwnMessages'
      <4>1. \A n \in DOMAIN outgoing' : n+1 \in DOMAIN outgoing /\ outgoing'[n] = outgoing[n+1]
        BY <3>1, RestMessages
      <4>2. ASSUME NEW t \in Tasks, pc[t] = "idle"
            PROVE  Idle(t)' /\ delivered'[t] = <<>> /\ \A n \in DOMAIN outgoing' : outgoing'[n].task # t
        BY <1>1, <3>6, <4>1, <4>2 DEF HandshakeInv, OwnMessages, Idle
      <4> QED  BY <1>1, <4>2 DEF HandshakeInv, OwnMessages
    <3>8. ASSUME Acked PROVE Acked'
      <4>1. CASE "ack" \in notices
        BY <3>3, <4>1 DEF Acked
      <4>2. CASE (\A t \in Tasks : delivered[t] = <<>>) /\ ws # "open"
        BY <3>3, <3>4, <4>2 DEF Acked
      <4>3. ASSUME \A t \in Tasks : delivered[t] = <<>>, AckLeads, ws = "open", ws' = "open" PROVE Acked'
        <5>1. PICK n \in DOMAIN outgoing : outgoing[n].kind = "ack" /\ \A i \in 1..n : outgoing[i].task = NoTask
          BY <4>3 DEF AckLeads
        <5>2. n \in Nat \ {0} /\ m.task = NoTask /\ UNCHANGED delivered
          BY <3>1, <3>2, <3>4, <5>1, RestMessages
        <5>3. CASE n = 1
          <6>1. notices' = notices \cup ({m.kind} \cap {"ack", "timeout"})
            BY <2>2, <4>3, <5>2 DEF WriteOk, WriteFails, WriteClose, Noted, m
          <6> QED  BY <3>2, <5>1, <5>3, <6>1 DEF Acked
        <5>4. CASE n > 1
          <6>1. n-1 \in DOMAIN outgoing' /\ outgoing'[n-1] = outgoing[n]
            BY <3>1, <5>2, <5>4, RestMessages
          <6>2. ASSUME NEW i \in 1..(n-1) PROVE outgoing'[i].task = NoTask
            <7>1. DOMAIN outgoing' = 1..Len(outgoing') /\ Len(outgoing') \in Nat
              BY <3>1, HeadTailProperties, LenProperties
            <7>2. i \in DOMAIN outgoing'
              BY <5>2, <5>4, <6>1, <7>1
            <7>3. outgoing'[i] = outgoing[i+1] /\ i+1 \in 1..n
              BY <3>1, <5>2, <7>2, RestMessages
            <7> QED  BY <5>1, <7>3
          <6>3. AckLeads'
            BY <5>1, <6>1, <6>2 DEF AckLeads
          <6> QED  BY <4>3, <5>2, <6>3 DEF Acked
        <5> QED  BY <5>2, <5>3, <5>4
      <4>4. CASE (\A t \in Tasks : delivered[t] = <<>>) /\ ws' # "open" /\ UNCHANGED delivered
        BY <4>4 DEF Acked
      <4>5. ws' # "open" /\ ws = "open" => UNCHANGED delivered
        BY <2>2 DEF WriteOk, WriteFails, WriteClose
      <4> QED  BY <3>8, <4>1, <4>2, <4>3, <4>4, <4>5 DEF Acked
    <3> QED  BY <3>7, <3>8
  <2> QED  BY <2>1, <2>2 DEF WriterStep
<1> QED  BY <1>1, <1>2 DEF HandshakeInv, AckPending, Quiet

\* Once somebody else has cancelled the request, everything goes: the ack may
\* be dropped and a message of an operation still be sent.
RequestCut == ParentCancels /\ reqCanceled

LEMMA HandshakeStep == TypeOK /\ (HandshakeInv \/ RequestCut) /\ [Next]_vars => (HandshakeInv \/ RequestCut)'
<1> SUFFICES ASSUME TypeOK, HandshakeInv \/ RequestCut, Step \/ UNCHANGED vars
             PROVE  (HandshakeInv \/ RequestCut)'
  BY DEF Next
<1>1. CASE RequestCut
  <2>1. reqCanceled' = reqCanceled \/ reqCanceled' = TRUE
    <3>1. CASE ReaderMessage \/ ReaderStep
      BY <3>1 DEF ReaderMessage, ReaderStep, ReadInit, ReadTerminate, ReadPing, ReadMalformed,
         ReadStart, ReadStop, Signal, Initialise, StopMark, StopCancel, ReadFails, HandleReaderError,
         CancelRequest, CloseOutgoing
    <3>2. ASSUME NEW t \in Tasks, TaskStep(t) PROVE UNCHANGED reqCanceled
      BY <3>2 DEF TaskStep, Unmarshal, Prepare, ResultArrives, StreamEnds, ContextDone, Finish,
         Complete, CancelOperation, Delete
    <3>3. ASSUME NEW g \in Goroutines, Send(g) \/ Drop(g) \/ SendPanics(g) PROVE UNCHANGED reqCanceled
      BY <3>3 DEF Send, Drop, SendPanics
    <3>4. CASE TimerFires \/ TimerCanceled \/ TimerReturns \/ WriterStep \/ KeepaliveFails
               \/ PeerLeaves \/ ParentCancel \/ UNCHANGED vars
      BY <3>4 DEF TimerFires, TimerCanceled, TimerReturns, WriterStep, WriteOk, WriteFails,
         WriteClose, Receive, WriterExits, KeepaliveFails, PeerLeaves, ParentCancel, vars
    <3> QED  BY <3>1, <3>2, <3>3, <3>4 DEF Step
  <2> QED  BY <1>1, <2>1 DEF RequestCut
<1>2. CASE ParentCancel
  BY <1>2 DEF ParentCancel, RequestCut
<1>3. CASE HandshakeInv /\ (KeepaliveFails \/ PeerLeaves \/ UNCHANGED vars)
  <2>1. /\ UNCHANGED <<protocol, init, reqCanceled, rpc, pc, pending, outgoing, notices, delivered>>
        /\ ws # "open" => ws' # "open"
    BY <1>3 DEF KeepaliveFails, PeerLeaves, vars
  <2>2. OwnMessages' /\ (Acked => Acked')
    BY <1>3, <2>1, OwnKept DEF HandshakeInv, Acked, AckLeads
  <2> QED  BY <1>3, <2>1, <2>2 DEF HandshakeInv, AckPending, Quiet
<1>4. CASE HandshakeInv /\ ~ParentCancel
  BY <1>3, <1>4, HandshakeReader, HandshakeTask, HandshakeTimer, HandshakeSend, HandshakeWriter DEF Step
<1> QED  BY <1>1, <1>2, <1>4

\* For every configuration: a graphql-transport-ws client hears of no
\* operation before its connection is acknowledged, although the reader and the
\* operations share a channel, unless the context of its request was cancelled
\* from outside, which makes writeWebsocketMessage drop what it likes.
THEOREM AckFirstUnlessCut == Spec => [](AckFirst \/ RequestCut)
<1>1. HandshakeInv => AckFirst
  BY DEF HandshakeInv, OwnMessages, Quiet, Acked, AckFirst
<1> QED  BY <1>1, TypeCorrect, HandshakeInit, HandshakeStep, PTL DEF Spec

\* When nobody else cancels the context of the request, the ack always comes
\* before everything a graphql-transport-ws client hears of its operations.
THEOREM AckAlwaysFirst ==
    ASSUME ~ParentCancels
    PROVE  Spec => []AckFirst
<1>1. AckFirst \/ RequestCut => AckFirst
  BY DEF RequestCut
<1> QED  BY <1>1, AckFirstUnlessCut, PTL
-----------------------------------------------------------------------------
(* Who waits for whom.                                                     *)

\* The guards of the steps that the server takes on its own.  They ask neither
\* for a message of the client nor for a result.
WriterCanStep == writer = "loop" /\ (outgoing # <<>> \/ closed)
SenderCanStep == \E g \in Goroutines : ~Idle(g) /\ ~closed /\ HasRoom

ReaderCanStep ==
    \/ rpc \in {"initialise", "stopMark", "stopCancel", "fail"}
    \/ rpc = "signal" /\ timer = "waiting"
    \/ rpc = "cancel" /\ Idle(Reader)
    \/ rpc = "wait" /\ AllTasksDone
    \/ rpc = "read" /\ Idle(Reader) /\ ws # "open"

TaskCanStep ==
    \E t \in Tasks :
        \/ pc[t] \in {"unmarshal", "prepare", "delete"}
        \/ pc[t] \in {"finish", "complete", "cancel"} /\ Idle(t)
        \/ pc[t] = "results" /\ Idle(t) /\ Canceled(t)

ServerCanStep == WriterCanStep \/ SenderCanStep \/ ReaderCanStep \/ TaskCanStep

\* The reader is back at the websocket, which is open.
AwaitsClient == rpc = "read" /\ Idle(Reader) /\ ws = "open"

\* The reader offers its signal to a timer that has left its select.
SignalLost == ConnectTimeout /\ rpc = "signal" /\ timer \in {"fired", "done"}

NeverDeadlocked == panicked \/ writer = "done" \/ ServerCanStep \/ AwaitsClient \/ SignalLost

\* The reader signals a timer that exists, and its last act is to close.
ReaderEnds == (rpc = "signal" => ConnectTimeout) /\ (rpc = "done" => closed)

LEMMA ReaderEndsStep == TypeOK /\ ReaderEnds /\ [Next]_vars => ReaderEnds'
<1> SUFFICES ASSUME TypeOK, ReaderEnds, Step \/ UNCHANGED vars PROVE ReaderEnds'
  BY DEF Next
<1> USE DEF ReaderEnds
<1>1. CASE ReaderMessage
  BY <1>1 DEF ReaderMessage, ReadInit, ReadTerminate, ReadPing, ReadMalformed, ReadStart, ReadStop,
     StartTask, Reading, Fail
<1>2. CASE ReaderStep
  BY <1>2 DEF ReaderStep, Signal, Initialise, StopMark, StopCancel, ReadFails, HandleReaderError,
     CancelRequest, CloseOutgoing, Fail
<1>3. ASSUME UNCHANGED <<rpc, closed>> PROVE ReaderEnds'
  BY <1>3
<1>4. CASE TimerFires \/ TimerCanceled \/ TimerReturns
  BY <1>3, <1>4 DEF TimerFires, TimerCanceled, TimerReturns
<1>5. ASSUME NEW t \in Tasks, TaskStep(t) PROVE ReaderEnds'
  BY <1>3, <1>5 DEF TaskStep, Unmarshal, Prepare, ResultArrives, StreamEnds, ContextDone, Finish,
     Complete, CancelOperation, Delete
<1>6. ASSUME NEW g \in Goroutines, Send(g) \/ Drop(g) \/ SendPanics(g) PROVE ReaderEnds'
  BY <1>3, <1>6 DEF Send, Drop, SendPanics
<1>7. CASE WriterStep \/ KeepaliveFails \/ PeerLeaves \/ ParentCancel \/ UNCHANGED vars
  BY <1>3, <1>7 DEF WriterStep, WriteOk, WriteFails, WriteClose, Receive, WriterExits, KeepaliveFails,
     PeerLeaves, ParentCancel, vars
<1> QED  BY <1>1, <1>2, <1>4, <1>5, <1>6, <1>7 DEF Step

\* An operation that the reader waits for is on its way out, or can be: its
\* context was cancelled before.
LEMMA WaitedForCanStep ==
    ASSUME TypeOK, ShutdownInv, rpc = "wait", ~AllTasksDone, \A g \in Goroutines : Idle(g)
    PROVE  TaskCanStep
<1>1. PICK t \in Tasks : Live(t)
  BY DEF AllTasksDone
<1>2. Idle(t)
  BY <1>1, GoroutineNames
<1>3. Canceled(t)
  BY DEF Canceled, ShutdownInv, ReaderDrained
<1>4. pc[t] \in Pcs \ {"idle", "done"}
  BY <1>1 DEF Live, TypeOK
<1> QED  BY <1>1, <1>2, <1>3, <1>4 DEF TaskCanStep, Pcs

\* For every configuration: the goroutines of a connection wait for each other
\* in a circle only in the one way that SignalLost names.  Whatever the channel
\* and the writer have to take, as long as the handler has not returned either
\* some goroutine can take a step, or the reader waits for an open websocket.
THEOREM OnlyLostSignalDeadlocks == Spec => []NeverDeadlocked
<1>1. Init => ReaderEnds
  BY DEF Init, ReaderEnds
<1>2. TypeOK /\ ShutdownInv /\ TimerInv /\ ReaderEnds => NeverDeadlocked
  <2> SUFFICES ASSUME TypeOK, ShutdownInv, TimerInv, ReaderEnds,
                      writer # "done", ~WriterCanStep, ~SenderCanStep
               PROVE  ReaderCanStep \/ TaskCanStep \/ AwaitsClient \/ SignalLost
    BY DEF NeverDeadlocked, ServerCanStep
  <2>1. outgoing = <<>> /\ ~closed
    BY DEF WriterCanStep, TypeOK
  <2>2. HasRoom
    BY <2>1, ChanCapAssumption DEF HasRoom
  <2>3. \A g \in Goroutines : Idle(g)
    BY <2>1, <2>2 DEF SenderCanStep
  <2>4. CASE rpc = "wait"
    BY <2>3, <2>4, WaitedForCanStep DEF ReaderCanStep
  <2>5. CASE rpc = "signal"
    <3>1. ConnectTimeout /\ timer \in {"waiting", "fired", "done"}
      BY <2>5 DEF ReaderEnds, TimerInv, TypeOK
    <3> QED  BY <2>5, <3>1 DEF ReaderCanStep, SignalLost
  <2>6. CASE rpc \in {"read", "cancel"}
    BY <2>3, <2>6, GoroutineNames DEF ReaderCanStep, AwaitsClient
  <2>7. rpc # "done"
    BY <2>1 DEF ReaderEnds
  <2> QED  BY <2>4, <2>5, <2>6, <2>7 DEF ReaderCanStep, TypeOK, ReaderPcs
<1> QED  BY <1>1, <1>2, TypeCorrect, ShutdownInit, ShutdownStep, TimerInit, TimerStep, ReaderEndsStep, PTL
            DEF Spec

\* A signal that is lost is lost for good: the reader never leaves its send,
\* so that neither it nor the handler, which waits for it, ever returns.
SignalStaysLost == [][SignalLost => SignalLost' /\ writer' # "done"]_vars

\* For every configuration, nothing the client, the websocket, an operation or
\* the end of the request's context does gets a reader out of the send on
\* connectSuccessful once backgroundTimeout has left its select.
THEOREM LostSignalIsForGood == Spec => SignalStaysLost
<1> DEFINE Stays == SignalLost => SignalLost' /\ writer' # "done"
<1>1. TypeOK /\ ShutdownInv /\ [Next]_vars => [Stays]_vars
  <2> SUFFICES ASSUME TypeOK, ShutdownInv, SignalLost, Step \/ UNCHANGED vars
               PROVE  SignalLost' /\ writer' # "done"
    BY DEF Next
  <2> USE DEF SignalLost
  <2>1. writer # "done" /\ ~closed
    BY DEF ShutdownInv, ClosedLast, WriterLast
  <2>2. ASSUME UNCHANGED <<rpc, timer, writer>> PROVE SignalLost' /\ writer' # "done"
    BY <2>1, <2>2
  <2>3. CASE ReaderMessage
    BY <2>3 DEF ReaderMessage, ReadInit, ReadTerminate, ReadPing, ReadMalformed, ReadStart, ReadStop,
       Reading
  <2>4. CASE ReaderStep
    BY <2>4 DEF ReaderStep, Signal, Initialise, StopMark, StopCancel, ReadFails, Reading,
       HandleReaderError, CancelRequest, CloseOutgoing
  <2>5. CASE TimerFires \/ TimerCanceled \/ TimerReturns
    BY <2>1, <2>5 DEF TimerFires, TimerCanceled, TimerReturns
  <2>6. ASSUME NEW t \in Tasks, TaskStep(t) PROVE SignalLost' /\ writer' # "done"
    BY <2>2, <2>6 DEF TaskStep, Unmarshal, Prepare, ResultArrives, StreamEnds, ContextDone, Finish,
       Complete, CancelOperation, Delete
  <2>7. ASSUME NEW g \in Goroutines, Send(g) \/ Drop(g) \/ SendPanics(g)
        PROVE  SignalLost' /\ writer' # "done"
    BY <2>2, <2>7 DEF Send, Drop, SendPanics
  <2>8. CASE WriterStep \/ KeepaliveFails \/ PeerLeaves \/ ParentCancel \/ UNCHANGED vars
    BY <2>1, <2>2, <2>8 DEF WriterStep, WriteOk, WriteFails, WriteClose, Receive, WriterExits,
       KeepaliveFails, PeerLeaves, ParentCancel, vars
  <2> QED  BY <2>3, <2>4, <2>5, <2>6, <2>7, <2>8 DEF Step
<1> HIDE DEF Stays
<1>2. Spec => [][Stays]_vars
  BY <1>1, TypeCorrect, ShutdownInit, ShutdownStep, PTL DEF Spec
<1> QED  BY <1>2 DEF Stays, SignalStaysLost
=============================================================================
