-------------------------- MODULE MessageLinkProofs --------------------------
(***************************************************************************)
(* Theorems about MessageLink, for any set of messages, any conversion     *)
(* failures and any limit on the number of streams.                        *)
(***************************************************************************)
EXTENDS MessageLink, FiniteSetTheorems, TLAPS

\* What a task's send on the mpsc channel does to its history.
LEMMA EmitEffect ==
  ASSUME events \in Seq(Event), NEW ev \in Event \cup {NoEvent}, Emit(ev)
  PROVE  /\ events' \in Seq(Event)
         /\ \/ events' = events
            \/ /\ ev \in Event
               /\ Len(events') = Len(events) + 1
               /\ events'[Len(events) + 1] = ev
               /\ \A i \in 1 .. Len(events) : events'[i] = events[i]
<1>1. CASE listening /\ ev # NoEvent
  <2>1. ev \in Event
    BY <1>1
  <2>2. events' = Append(events, ev)
    BY <1>1 DEF Emit
  <2>3. QED
    BY <2>1, <2>2
<1>2. CASE ~(listening /\ ev # NoEvent)
  BY <1>2 DEF Emit
<1>3. QED
  BY <1>1, <1>2

\* The events made of a connection error and of a message.
LEMMA EventTypes ==
  /\ \A error : ToEvent(error) \in {DisconnectedEvent("None"), DisconnectedEvent("Timeout"), NoEvent}
  /\ \A error : ToEvent(error) \in Event \cup {NoEvent}
  /\ \A m \in Message : MessageEvent(m) \in Event
<1>1. \A error : ToEvent(error) \in {DisconnectedEvent("None"), DisconnectedEvent("Timeout"), NoEvent}
  BY DEF ToEvent
<1>2. QED
  BY <1>1 DEF Event

\* The verdict of a sending task is one of the four results.
LEMMA ResultTypes == \A outcome : FromResult(outcome) \in SendingResult
  BY DEF FromResult, FromConnectionError, SendingResult

\* The types of what the sending tasks write, as far as they may write it.
SenderTypes ==
  /\ task \in [Message -> {"idle", "open_uni", "write_all", "stopped", "done", "panicked"}]
  /\ result \in [Message -> {"none"} \cup SendingResult]

\* A task that reports leaves its state and its handle well typed.
LEMMA ReportTypes ==
  ASSUME SenderTypes, NEW m \in Message, NEW outcome, Report(m, outcome)
  PROVE  SenderTypes'
<1>1. FromResult(outcome) \in SendingResult
  BY ResultTypes
<1>2. QED
  BY <1>1 DEF SenderTypes, Report

------------------------------------------------------------------------------

\* Every step keeps the types.
LEMMA TypeStep == TypeOK /\ [Next]_vars => TypeOK'
<1> SUFFICES ASSUME TypeOK, [Next]_vars
             PROVE  TypeOK'
  OBVIOUS
<1> USE DEF TypeOK, connVars, sendVars, wireVars, recvVars, userVars
<1>1. ASSUME NEW m \in Message, Send(m)
      PROVE  TypeOK'
  BY <1>1 DEF Send
<1>2. ASSUME NEW m \in Message, SenderTask(m)
      PROVE  TypeOK'
  <2>1. CASE SerializeFails(m)
    BY <2>1 DEF SerializeFails
  <2>2. CASE OpenUni(m)
    <3>1. SenderTypes'
      <4>1. CASE Report(m, conn["sender"])
        BY <4>1, ReportTypes DEF SenderTypes
      <4>2. CASE ~Report(m, conn["sender"])
        BY <2>2, <4>2 DEF OpenUni, SenderTypes
      <4>3. QED
        BY <4>1, <4>2
    <3>2. sendStream' \in [Message -> {"none", "open", "finished"}]
      BY <2>2 DEF OpenUni
    <3>3. UNCHANGED <<connVars, wireVars, recvVars, userVars>>
      BY <2>2 DEF OpenUni
    <3>4. QED
      BY <3>1, <3>2, <3>3 DEF SenderTypes
  <2>3. CASE WriteAll(m)
    <3>1. SenderTypes'
      <4>1. CASE \E outcome : Report(m, outcome)
        BY <4>1, ReportTypes DEF SenderTypes
      <4>2. CASE ~ \E outcome : Report(m, outcome)
        BY <2>3, <4>2 DEF WriteAll, SenderTypes
      <4>3. QED
        BY <4>1, <4>2
    <3>2. sendStream' \in [Message -> {"none", "open", "finished"}]
      BY <2>3 DEF WriteAll
    <3>3. UNCHANGED <<connVars, wireVars, recvVars, userVars>>
      BY <2>3 DEF WriteAll
    <3>4. QED
      BY <3>1, <3>2, <3>3 DEF SenderTypes
  <2>4. CASE AwaitStopped(m)
    BY <2>4, ResultTypes DEF AwaitStopped, Report
  <2>5. QED
    BY <1>2, <2>1, <2>2, <2>3, <2>4 DEF SenderTask
<1>3. ASSUME NEW m \in Message, ReceiverTask(m)
      PROVE  TypeOK'
  <2>1. CASE AcceptUni(m)
    BY <2>1 DEF AcceptUni
  <2>2. CASE ReadMessage(m)
    <3>1. events' \in Seq(Event)
      BY <2>2, EventTypes, EmitEffect DEF ReadMessage
    <3>2. QED
      BY <2>2, <3>1 DEF ReadMessage
  <2>3. CASE ReadTooLong(m)
    BY <2>3 DEF ReadTooLong
  <2>4. CASE ReadFails(m)
    <3>1. events' \in Seq(Event)
      BY <2>4, EventTypes, EmitEffect DEF ReadFails
    <3>2. QED
      BY <2>4, <3>1 DEF ReadFails
  <2>5. QED
    BY <1>3, <2>1, <2>2, <2>3, <2>4 DEF ReceiverTask
<1>4. ASSUME NEW m \in Message, Network(m)
      PROVE  TypeOK'
  BY <1>4 DEF Network, FirstFrameArrives, LastFrameArrives, FeedbackArrives
<1>5. CASE AcceptUniFails
  <2>1. events' \in Seq(Event)
    BY <1>5, EventTypes, EmitEffect DEF AcceptUniFails
  <2>2. QED
    BY <1>5, <2>1 DEF AcceptUniFails
<1>6. CASE DropReceiver
  BY <1>6 DEF DropReceiver
<1>7. ASSUME NEW e \in Side, Disconnect(e) \/ Barrier(e) \/ Die(e)
      PROVE  TypeOK'
  <2>1. CASE Disconnect(e)
    BY <2>1 DEF Disconnect, Lost, ConnectionError
  <2>2. CASE Barrier(e)
    <3>1. blocked' \in [Side -> BOOLEAN]
      BY <2>2 DEF Barrier
    <3>2. UNCHANGED <<conn, sendVars, wireVars, recvVars, userVars>>
      BY <2>2 DEF Barrier
    <3>3. QED
      BY <3>1, <3>2
  <2>3. CASE Die(e)
    BY <2>3 DEF Die
  <2>4. QED
    BY <1>7, <2>1, <2>2, <2>3
<1>8. ASSUME NEW e \in Side, NEW error \in ConnectionError, LoseConnection(e, error)
      PROVE  TypeOK'
  BY <1>8 DEF LoseConnection
<1>9. CASE UNCHANGED vars
  BY <1>9 DEF vars
<1>10. QED
  BY <1>1, <1>2, <1>3, <1>4, <1>5, <1>6, <1>7, <1>8, <1>9 DEF Next

\* Every variable keeps its type.
THEOREM TypeCorrect == Spec => []TypeOK
<1>1. Init => TypeOK
  BY DEF Init, TypeOK, Side
<1>2. QED
  BY <1>1, TypeStep, PTL DEF Spec

------------------------------------------------------------------------------

\* A step that touches neither the streams nor the tasks.
Apart == UNCHANGED <<task, result, sendStream, recvStream, feedback, reader>>

\* The halves of a stream stay in step with its tasks and its handle.
LEMMA StreamsStep == TypeOK /\ StreamsInStep /\ [Next]_vars => StreamsInStep'
<1> SUFFICES ASSUME TypeOK, StreamsInStep, [Next]_vars
             PROVE  StreamsInStep'
  OBVIOUS
<1> USE DEF TypeOK, StreamsInStep, sendVars, wireVars, recvVars
<1>1. CASE Apart
  BY <1>1 DEF Apart
<1>2. ASSUME NEW m \in Message, Send(m)
      PROVE  StreamsInStep'
  BY <1>2 DEF Send
<1>3. ASSUME NEW m \in Message, SenderTask(m)
      PROVE  StreamsInStep'
  <2>1. CASE SerializeFails(m)
    BY <2>1 DEF SerializeFails
  <2>2. ASSUME NEW outcome, Report(m, outcome),
               task[m] \in {"open_uni", "write_all", "stopped"},
               outcome = "Ok" => feedback[m] # "none",
               UNCHANGED <<sendStream, wireVars, recvVars>>
        PROVE  StreamsInStep'
    <3>1. FromResult(outcome) \in SendingResult
      BY ResultTypes
    <3>2. FromResult(outcome) = "Sent" => outcome = "Ok"
      BY DEF FromResult, FromConnectionError, ConnectionError
    <3>3. FromResult(outcome) # "none"
      BY <3>1 DEF SendingResult
    <3>4. QED
      BY <2>2, <3>2, <3>3 DEF Report
  <2>3. CASE OpenUni(m)
    <3>1. CASE Report(m, conn["sender"])
      BY <2>2, <2>3, <3>1 DEF OpenUni, Lost, ConnectionError
    <3>2. CASE ~ Report(m, conn["sender"])
      BY <2>3, <3>2 DEF OpenUni
    <3>3. QED
      BY <3>1, <3>2
  <2>4. CASE WriteAll(m)
    <3>1. CASE Lost("sender") /\ Report(m, conn["sender"]) /\ UNCHANGED sendStream
      BY <2>2, <2>4, <3>1 DEF WriteAll, Lost, ConnectionError
    <3>2. CASE Report(m, "Stopped") /\ UNCHANGED sendStream
      BY <2>2, <2>4, <3>2 DEF WriteAll
    <3>3. CASE /\ sendStream' = [sendStream EXCEPT ![m] = "finished"]
               /\ task' = [task EXCEPT ![m] = "stopped"]
               /\ UNCHANGED result
      BY <2>4, <3>3 DEF WriteAll
    <3>4. QED
      BY <2>4, <3>1, <3>2, <3>3 DEF WriteAll
  <2>5. CASE AwaitStopped(m)
    <3>1. CASE feedback[m] # "none" /\ Report(m, "Ok")
      BY <2>2, <2>5, <3>1 DEF AwaitStopped
    <3>2. CASE Lost("sender") /\ Report(m, conn["sender"])
      BY <2>2, <2>5, <3>2 DEF AwaitStopped, Lost, ConnectionError
    <3>3. QED
      BY <2>5, <3>1, <3>2 DEF AwaitStopped
  <2>6. QED
    BY <1>3, <2>1, <2>3, <2>4, <2>5 DEF SenderTask
<1>4. ASSUME NEW m \in Message, ReceiverTask(m)
      PROVE  StreamsInStep'
  <2>1. CASE AcceptUni(m)
    BY <2>1 DEF AcceptUni, Acceptable
  <2>2. CASE ReadMessage(m)
    BY <2>2 DEF ReadMessage, Reading
  <2>3. CASE ReadTooLong(m)
    BY <2>3 DEF ReadTooLong, Reading
  <2>4. CASE ReadFails(m)
    BY <2>4 DEF ReadFails, Reading
  <2>5. QED
    BY <1>4, <2>1, <2>2, <2>3, <2>4 DEF ReceiverTask
<1>5. ASSUME NEW m \in Message, Network(m)
      PROVE  StreamsInStep'
  <2>1. CASE FirstFrameArrives(m)
    BY <2>1 DEF FirstFrameArrives
  <2>2. CASE LastFrameArrives(m)
    BY <2>2 DEF LastFrameArrives
  <2>3. CASE FeedbackArrives(m)
    BY <2>3 DEF FeedbackArrives
  <2>4. QED
    BY <1>5, <2>1, <2>2, <2>3 DEF Network
<1>6. CASE \/ AcceptUniFails \/ DropReceiver \/ UNCHANGED vars
           \/ \E e \in Side : Disconnect(e) \/ Barrier(e) \/ Die(e)
           \/ \E e \in Side, error \in ConnectionError : LoseConnection(e, error)
  BY <1>1, <1>6 DEF Apart, AcceptUniFails, DropReceiver, Disconnect, Barrier, Die, LoseConnection, vars
<1>7. QED
  BY <1>2, <1>3, <1>4, <1>5, <1>6 DEF Next

------------------------------------------------------------------------------

\* ev is the one event that a step adds to the channel.
Grew(ev) ==
  /\ Len(events') = Len(events) + 1
  /\ events'[Len(events) + 1] = ev
  /\ \A i \in 1 .. Len(events) : events'[i] = events[i]

MessageCame(m) ==
  /\ Grew(MessageEvent(m))
  /\ reader[m] = "reading"
  /\ reader'[m] = "done"
  /\ recvStream[m] = "complete"
  /\ UNCHANGED conn

LossCame ==
  /\ Grew(ToEvent(conn["receiver"]))
  /\ ToEvent(conn["receiver"]) # NoEvent
  /\ Lost("receiver")
  /\ UNCHANGED conn

\* A step leaves the channel alone, or adds one message that was being read,
\* or the one disconnection that the error of the connection stands for.
LEMMA WhatIsEmitted ==
  TypeOK /\ [Next]_vars =>
    events' = events \/ LossCame \/ \E m \in Message : MessageCame(m)
<1> SUFFICES ASSUME TypeOK, [Next]_vars
             PROVE  events' = events \/ LossCame \/ \E m \in Message : MessageCame(m)
  OBVIOUS
<1> USE DEF TypeOK, connVars, recvVars
<1>1. ASSUME Lost("receiver"), Emit(ToEvent(conn["receiver"])), UNCHANGED conn
      PROVE  events' = events \/ LossCame
  <2>1. ToEvent(conn["receiver"]) \in Event \cup {NoEvent}
    BY EventTypes
  <2>2. CASE ToEvent(conn["receiver"]) = NoEvent
    BY <1>1, <2>2 DEF Emit
  <2>3. CASE ToEvent(conn["receiver"]) # NoEvent
    BY <1>1, <2>1, <2>3, EmitEffect DEF LossCame, Grew
  <2>4. QED
    BY <2>2, <2>3
<1>2. ASSUME NEW m \in Message, ReadMessage(m)
      PROVE  events' = events \/ MessageCame(m)
  <2>1. CASE reader' = [reader EXCEPT ![m] = "done"] /\ Emit(MessageEvent(m))
    <3>1. MessageEvent(m) \in Event \cup {NoEvent}
      BY EventTypes
    <3>2. events' = events \/ Grew(MessageEvent(m))
      BY <2>1, <3>1, EmitEffect DEF Grew
    <3>3. QED
      BY <1>2, <2>1, <3>2 DEF ReadMessage, Reading, MessageCame
  <2>2. CASE UNCHANGED events
    BY <2>2
  <2>3. QED
    BY <1>2, <2>1, <2>2 DEF ReadMessage
<1>3. ASSUME NEW m \in Message, ReadFails(m)
      PROVE  events' = events \/ LossCame
  BY <1>1, <1>3 DEF ReadFails
<1>4. CASE AcceptUniFails
  BY <1>1, <1>4 DEF AcceptUniFails
<1>5. ASSUME NEW m \in Message, AcceptUni(m) \/ ReadTooLong(m)
      PROVE  events' = events
  BY <1>5 DEF AcceptUni, ReadTooLong
<1>6. ASSUME NEW m \in Message, Send(m) \/ SenderTask(m) \/ Network(m)
      PROVE  events' = events
  BY <1>6 DEF Send, SenderTask, SerializeFails, OpenUni, WriteAll, AwaitStopped,
              Network, FirstFrameArrives, LastFrameArrives, FeedbackArrives
<1>7. ASSUME \/ DropReceiver \/ UNCHANGED vars
             \/ \E e \in Side : Disconnect(e) \/ Barrier(e) \/ Die(e)
             \/ \E e \in Side, error \in ConnectionError : LoseConnection(e, error)
      PROVE  events' = events
  BY <1>7 DEF DropReceiver, Disconnect, Barrier, Die, LoseConnection, vars
<1>8. QED
  BY <1>2, <1>3, <1>4, <1>5, <1>6, <1>7 DEF Next, ReceiverTask

\* A message that was read to its end stays read.
LEMMA DoneStays ==
  TypeOK /\ [Next]_vars =>
    \A m \in Message :
      /\ reader[m] \in {"done", "stopping"} => reader'[m] = reader[m]
      /\ recvStream[m] = "complete" => recvStream'[m] = "complete"
<1> SUFFICES ASSUME TypeOK, [Next]_vars, NEW m \in Message
             PROVE  /\ reader[m] \in {"done", "stopping"} => reader'[m] = reader[m]
                    /\ recvStream[m] = "complete" => recvStream'[m] = "complete"
  OBVIOUS
<1> USE DEF TypeOK, recvVars, wireVars
<1>1. ASSUME NEW n \in Message, ReceiverTask(n)
      PROVE  /\ reader[m] \in {"done", "stopping"} => reader'[m] = reader[m]
             /\ UNCHANGED recvStream
  BY <1>1 DEF ReceiverTask, AcceptUni, Acceptable, ReadMessage, ReadTooLong, ReadFails, Reading
<1>2. ASSUME NEW n \in Message, Network(n)
      PROVE  /\ UNCHANGED reader
             /\ recvStream[m] = "complete" => recvStream'[m] = "complete"
  BY <1>2 DEF Network, FirstFrameArrives, LastFrameArrives, FeedbackArrives
<1>3. ASSUME NEW n \in Message, Send(n) \/ SenderTask(n)
      PROVE  UNCHANGED <<reader, recvStream>>
  BY <1>3 DEF Send, SenderTask, SerializeFails, OpenUni, WriteAll, AwaitStopped
<1>4. ASSUME \/ AcceptUniFails \/ DropReceiver \/ UNCHANGED vars
             \/ \E e \in Side : Disconnect(e) \/ Barrier(e) \/ Die(e)
             \/ \E e \in Side, error \in ConnectionError : LoseConnection(e, error)
      PROVE  UNCHANGED <<reader, recvStream>>
  BY <1>4 DEF AcceptUniFails, DropReceiver, Disconnect, Barrier, Die, LoseConnection, vars
<1>5. QED
  BY <1>1, <1>2, <1>3, <1>4 DEF Next

\* A connection once lost may only be closed by its own side, or die.
LEMMA LossStays ==
  TypeOK /\ [Next]_vars =>
    \A e \in Side : conn[e] # "open" => conn'[e] \in {conn[e], "LocallyClosed", "dead"}
<1> SUFFICES ASSUME TypeOK, [Next]_vars, NEW e \in Side, conn[e] # "open"
             PROVE  conn'[e] \in {conn[e], "LocallyClosed", "dead"}
  OBVIOUS
<1> USE DEF TypeOK, connVars
<1>1. ASSUME NEW f \in Side, Disconnect(f) \/ Barrier(f) \/ Die(f)
      PROVE  conn'[e] \in {conn[e], "LocallyClosed", "dead"}
  BY <1>1 DEF Disconnect, Barrier, Die
<1>2. ASSUME NEW f \in Side, NEW error \in ConnectionError, LoseConnection(f, error)
      PROVE  conn'[e] = conn[e]
  BY <1>2 DEF LoseConnection
<1>3. ASSUME \E m \in Message : Send(m) \/ SenderTask(m) \/ ReceiverTask(m) \/ Network(m)
      PROVE  conn'[e] = conn[e]
  <2>1. ASSUME NEW m \in Message, Send(m) \/ SenderTask(m)
        PROVE  conn'[e] = conn[e]
    BY <2>1 DEF Send, SenderTask, SerializeFails, OpenUni, WriteAll, AwaitStopped
  <2>2. ASSUME NEW m \in Message, ReceiverTask(m)
        PROVE  conn'[e] = conn[e]
    BY <2>2 DEF ReceiverTask, AcceptUni, ReadMessage, ReadTooLong, ReadFails
  <2>3. ASSUME NEW m \in Message, Network(m)
        PROVE  conn'[e] = conn[e]
    BY <2>3 DEF Network, FirstFrameArrives, LastFrameArrives, FeedbackArrives
  <2>4. QED
    BY <1>3, <2>1, <2>2, <2>3
<1>4. ASSUME AcceptUniFails \/ DropReceiver \/ UNCHANGED vars
      PROVE  conn'[e] = conn[e]
  BY <1>4 DEF AcceptUniFails, DropReceiver, vars
<1>5. QED
  BY <1>1, <1>2, <1>3, <1>4 DEF Next

\* A runtime whose threads are all at barriers has no standing connection: no
\* step makes a lost one stand again.
LEMMA BlockedStep ==
  TypeOK /\ BlockedIsOver /\ [Next]_vars => BlockedIsOver'
<1> SUFFICES ASSUME TypeOK, BlockedIsOver, [Next]_vars
             PROVE  BlockedIsOver'
  OBVIOUS
<1> USE DEF TypeOK, BlockedIsOver
<1>1. ASSUME UNCHANGED blocked, \A e \in Side : Lost(e) => Lost(e)'
      PROVE  BlockedIsOver'
  BY <1>1
<1>2. ASSUME NEW e \in Side, Barrier(e)
      PROVE  BlockedIsOver'
  BY <1>2 DEF Barrier, Lost
<1>3. ASSUME NEW e \in Side, Die(e)
      PROVE  BlockedIsOver'
  BY <1>3 DEF Die, Lost
<1>4. ASSUME NEW e \in Side, \/ Disconnect(e)
                             \/ \E error \in ConnectionError : LoseConnection(e, error)
      PROVE  UNCHANGED blocked /\ \A f \in Side : Lost(f) => Lost(f)'
  BY <1>4 DEF Disconnect, LoseConnection, Lost, ConnectionError
<1>5. ASSUME \/ \E m \in Message : Send(m) \/ SenderTask(m) \/ ReceiverTask(m) \/ Network(m)
             \/ AcceptUniFails \/ DropReceiver \/ UNCHANGED vars
      PROVE  UNCHANGED <<blocked, conn>>
  BY <1>5 DEF connVars, Send, SenderTask, SerializeFails, OpenUni, WriteAll, AwaitStopped,
              ReceiverTask, AcceptUni, ReadMessage, ReadTooLong, ReadFails,
              Network, FirstFrameArrives, LastFrameArrives, FeedbackArrives,
              AcceptUniFails, DropReceiver, vars
<1>6. ASSUME UNCHANGED conn
      PROVE  \A e \in Side : Lost(e) => Lost(e)'
  BY <1>6 DEF Lost
<1>7. QED
  BY <1>1, <1>2, <1>3, <1>4, <1>5, <1>6 DEF Next

------------------------------------------------------------------------------

\* Events go on telling the truth about readers and the connection.
LEMMA EventsStep ==
  TypeOK /\ EventsInStep /\ [Next]_vars => EventsInStep'
<1> DEFINE Says(ev) ==
      /\ ev.kind = "Message" => /\ reader[ev.value] = "done"
                                /\ recvStream[ev.value] = "complete"
      /\ ev = DisconnectedEvent("None") =>
           conn["receiver"] \in {"ApplicationClosed", "ConnectionClosed", "LocallyClosed", "dead"}
      /\ ev = DisconnectedEvent("Timeout") =>
           conn["receiver"] \in {"TimedOut", "LocallyClosed", "dead"}
<1> SUFFICES ASSUME TypeOK, EventsInStep, [Next]_vars,
                    NEW i \in 1 .. Len(events'), NEW ev, ev = events'[i]
             PROVE  Says(ev)'
  BY DEF EventsInStep
<1>1. ASSUME ev \in Event, Says(ev)
      PROVE  Says(ev)'
  <2>1. "receiver" \in Side
    BY DEF Side
  <2>2. ev.kind = "Message" => ev.value \in Message
    BY <1>1 DEF Event, MessageEvent, DisconnectedEvent
  <2>3. QED
    BY <1>1, <2>1, <2>2, DoneStays, LossStays
<1>2. ASSUME i \in 1 .. Len(events), ev = events[i]
      PROVE  Says(ev)'
  <2>1. ev \in Event
    BY <1>2 DEF TypeOK
  <2>2. Says(ev)
    BY <1>2 DEF EventsInStep
  <2>3. QED
    BY <1>1, <1>2, <2>1, <2>2
<1>3. CASE events' = events
  BY <1>2, <1>3
<1>4. CASE LossCame
  <2>1. Len(events) \in Nat
    BY DEF TypeOK
  <2>2. CASE i = Len(events) + 1
    <3>1. ev = ToEvent(conn["receiver"])
      BY <1>4, <2>2 DEF LossCame, Grew
    <3>2. Says(ev)
      BY <1>4, <3>1 DEF LossCame, Lost, ToEvent, DisconnectedEvent, ConnectionError
    <3>3. ev \in Event
      BY <1>4, <3>1, EventTypes DEF LossCame
    <3>4. QED
      BY <1>1, <3>2, <3>3
  <2>3. QED
    BY <1>2, <1>4, <2>1, <2>2 DEF LossCame, Grew
<1>5. ASSUME NEW m \in Message, MessageCame(m)
      PROVE  Says(ev)'
  <2>1. Len(events) \in Nat
    BY DEF TypeOK
  <2>2. CASE i = Len(events) + 1
    BY <1>5, <2>2, DoneStays DEF MessageCame, Grew, MessageEvent, DisconnectedEvent
  <2>3. QED
    BY <1>2, <1>5, <2>1, <2>2 DEF MessageCame, Grew
<1>6. QED
  BY <1>3, <1>4, <1>5, WhatIsEmitted

\* A message being read has not been delivered yet.
LEMMA DeliveredOnceStep ==
  TypeOK /\ EventsInStep /\ DeliveredOnce /\ [Next]_vars => DeliveredOnce'
<1> SUFFICES ASSUME TypeOK, EventsInStep, DeliveredOnce, [Next]_vars,
                    NEW i \in 1 .. Len(events'), NEW j \in 1 .. Len(events'),
                    events'[i].kind = "Message", events'[i] = events'[j]
             PROVE  i = j
  BY DEF DeliveredOnce
<1>1. Len(events) \in Nat
  BY DEF TypeOK
<1>2. CASE events' = events
  BY <1>2 DEF DeliveredOnce
<1>3. CASE LossCame
  <2>1. ToEvent(conn["receiver"]).kind # "Message"
    BY EventTypes DEF DisconnectedEvent, NoEvent
  <2>2. QED
    BY <1>1, <1>3, <2>1 DEF LossCame, Grew, DeliveredOnce
<1>4. ASSUME NEW m \in Message, MessageCame(m)
      PROVE  i = j
  <2>1. \A k \in 1 .. Len(events) : events[k] # MessageEvent(m)
    BY <1>4 DEF MessageCame, EventsInStep, MessageEvent
  <2>2. QED
    BY <1>1, <1>4, <2>1 DEF MessageCame, Grew, DeliveredOnce
<1>5. QED
  BY <1>2, <1>3, <1>4, WhatIsEmitted

\* The tasks that meet the loss of the connection all tell the same story.
LEMMA DisconnectionStep ==
  TypeOK /\ EventsInStep /\ DisconnectionIsReal /\ [Next]_vars => DisconnectionIsReal'
<1> SUFFICES ASSUME TypeOK, EventsInStep, DisconnectionIsReal, [Next]_vars
             PROVE  DisconnectionIsReal'
  OBVIOUS
<1>1. TypeOK' /\ EventsInStep'
  BY TypeStep, EventsStep
<1>2. ASSUME NEW i \in 1 .. Len(events'), events'[i].kind = "Disconnected"
      PROVE  events'[i] = DisconnectedEvent("None") \/ events'[i] = DisconnectedEvent("Timeout")
  <2>1. events'[i] \in Event
    BY <1>1 DEF TypeOK
  <2>2. QED
    BY <1>2, <2>1 DEF Event, MessageEvent
<1>3. ASSUME NEW i \in 1 .. Len(events'), events'[i].kind = "Disconnected"
      PROVE  /\ conn'["receiver"] # "open"
             /\ events'[i].value = "Timeout"
                  => conn'["receiver"] \in {"TimedOut", "LocallyClosed", "dead"}
  <2>1. CASE events'[i] = DisconnectedEvent("None")
    <3>1. events'[i].value # "Timeout"
      BY <2>1 DEF DisconnectedEvent
    <3>2. conn'["receiver"] \in {"ApplicationClosed", "ConnectionClosed", "LocallyClosed", "dead"}
      BY <1>1, <2>1 DEF EventsInStep
    <3>3. QED
      BY <3>1, <3>2
  <2>2. CASE events'[i] = DisconnectedEvent("Timeout")
    BY <1>1, <2>2 DEF EventsInStep
  <2>3. QED
    BY <1>2, <1>3, <2>1, <2>2
<1>4. SUFFICES ASSUME NEW i \in 1 .. Len(events'), NEW j \in 1 .. Len(events'),
                      events'[i].kind = "Disconnected", events'[j].kind = "Disconnected"
               PROVE  events'[i] = events'[j]
  BY <1>3 DEF DisconnectionIsReal
<1>5. Len(events) \in Nat
  BY DEF TypeOK
<1>6. CASE events' = events
  BY <1>4, <1>6 DEF DisconnectionIsReal
<1>7. CASE LossCame
  <2>1. ASSUME NEW k \in 1 .. Len(events), events[k].kind = "Disconnected"
        PROVE  events[k] = ToEvent(conn["receiver"])
    <3>1. events[k] = DisconnectedEvent("None") \/ events[k] = DisconnectedEvent("Timeout")
      BY <2>1 DEF TypeOK, Event, MessageEvent
    <3>2. CASE events[k] = DisconnectedEvent("None")
      BY <1>7, <3>2 DEF EventsInStep, LossCame, Lost, ToEvent, ConnectionError
    <3>3. CASE events[k] = DisconnectedEvent("Timeout")
      BY <1>7, <3>3 DEF EventsInStep, LossCame, Lost, ToEvent, ConnectionError
    <3>4. QED
      BY <3>1, <3>2, <3>3
  <2>2. QED
    BY <1>4, <1>5, <1>7, <2>1 DEF LossCame, Grew
<1>8. ASSUME NEW m \in Message, MessageCame(m)
      PROVE  events'[i] = events'[j]
  BY <1>4, <1>5, <1>8 DEF MessageCame, Grew, MessageEvent, DisconnectionIsReal
<1>9. QED
  BY <1>6, <1>7, <1>8, WhatIsEmitted

\* What the sender has heard of a message is final, and comes while its end of
\* the connection stands.
LEMMA FeedbackStays ==
  ASSUME TypeOK, [Next]_vars, NEW m \in Message, feedback'[m] # feedback[m]
  PROVE  conn["sender"] = "open" /\ feedback[m] = "none"
<1> USE DEF TypeOK
<1>1. ASSUME NEW n \in Message, Network(n)
      PROVE  conn["sender"] = "open" /\ feedback[m] = "none"
  BY <1>1 DEF Network, FirstFrameArrives, LastFrameArrives, FeedbackArrives
<1>2. ASSUME \/ \E n \in Message : Send(n) \/ SenderTask(n) \/ ReceiverTask(n)
             \/ AcceptUniFails \/ DropReceiver \/ UNCHANGED vars
             \/ \E e \in Side : Disconnect(e) \/ Barrier(e) \/ Die(e)
             \/ \E e \in Side, error \in ConnectionError : LoseConnection(e, error)
      PROVE  UNCHANGED feedback
  BY <1>2 DEF wireVars, Send, SenderTask, SerializeFails, OpenUni, WriteAll, AwaitStopped,
              ReceiverTask, AcceptUni, ReadMessage, ReadTooLong, ReadFails,
              AcceptUniFails, DropReceiver, Disconnect, Barrier, Die, LoseConnection, vars
<1>3. QED
  BY <1>1, <1>2 DEF Next

\* No step makes a verdict false, nor gives a false one.
LEMMA BlameStep ==
  TypeOK /\ StreamsInStep /\ BlameIsFounded /\ [Next]_vars => BlameIsFounded'
<1> SUFFICES ASSUME TypeOK, StreamsInStep, BlameIsFounded, [Next]_vars
             PROVE  BlameIsFounded'
  OBVIOUS
<1> "sender" \in Side
  BY DEF Side
<1> USE DEF TypeOK, BlameIsFounded
<1>1. ASSUME UNCHANGED result
      PROVE  BlameIsFounded'
  <2>1. ASSUME NEW m \in Message
        PROVE  /\ feedback[m] = "stopped" => feedback'[m] = "stopped"
               /\ feedback[m] # feedback'[m] => conn["sender"] = "open" /\ feedback[m] = "none"
    BY <2>1, FeedbackStays
  <2>2. QED
    BY <1>1, <2>1, LossStays, DoneStays DEF SendingResult
<1>2. ASSUME NEW m \in Message, NEW outcome, Report(m, outcome), UNCHANGED <<conn, feedback>>,
             \/ outcome = conn["sender"] /\ Lost("sender") /\ feedback[m] # "acked"
             \/ outcome = "Ok"
             \/ outcome = "Stopped" /\ feedback[m] = "stopped"
      PROVE  BlameIsFounded'
  <2> \A n \in Message : result'[n] = IF n = m THEN FromResult(outcome) ELSE result[n]
    BY <1>2 DEF Report
  <2>1. CASE outcome = conn["sender"] /\ Lost("sender") /\ feedback[m] # "acked"
    <3>1. FromResult(outcome) = FromConnectionError(conn["sender"])
      BY <2>1 DEF FromResult, Lost, ConnectionError
    <3>2. /\ FromResult(outcome) = "WeClosed" => conn["sender"] = "LocallyClosed"
          /\ FromResult(outcome) = "PeerClosedOrDied" => conn["sender"] # "open"
          /\ FromResult(outcome) = "Error" => conn["sender"] = "TransportError"
      BY <2>1, <3>1 DEF FromConnectionError, Lost, ConnectionError
    <3>3. QED
      BY <1>2, <2>1, <3>2
  <2>2. CASE outcome = "Ok"
    <3>1. FromResult(outcome) = "Sent"
      BY <2>2 DEF FromResult, ConnectionError
    <3>2. QED
      BY <1>2, <3>1
  <2>3. CASE outcome = "Stopped" /\ feedback[m] = "stopped"
    <3>1. FromResult(outcome) = "Error"
      BY <2>3 DEF FromResult, ConnectionError
    <3>2. QED
      BY <1>2, <2>3, <3>1
  <2>4. QED
    BY <1>2, <2>1, <2>2, <2>3
<1>3. ASSUME NEW m \in Message, SenderTask(m)
      PROVE  BlameIsFounded'
  <2> USE DEF connVars, wireVars, StreamsInStep
  <2>1. CASE SerializeFails(m)
    BY <1>1, <2>1 DEF SerializeFails
  <2>2. CASE OpenUni(m)
    BY <1>1, <1>2, <2>2 DEF OpenUni
  <2>3. CASE WriteAll(m)
    BY <1>1, <1>2, <2>3 DEF WriteAll
  <2>4. CASE AwaitStopped(m)
    BY <1>2, <2>4 DEF AwaitStopped
  <2>5. QED
    BY <1>3, <2>1, <2>2, <2>3, <2>4 DEF SenderTask
<1>4. ASSUME \/ \E m \in Message : Send(m) \/ ReceiverTask(m) \/ Network(m)
             \/ AcceptUniFails \/ DropReceiver \/ UNCHANGED vars
             \/ \E e \in Side : Disconnect(e) \/ Barrier(e) \/ Die(e)
             \/ \E e \in Side, error \in ConnectionError : LoseConnection(e, error)
      PROVE  UNCHANGED result
  BY <1>4 DEF sendVars, Send, ReceiverTask, AcceptUni, ReadMessage, ReadTooLong, ReadFails,
              Network, FirstFrameArrives, LastFrameArrives, FeedbackArrives,
              AcceptUniFails, DropReceiver, Disconnect, Barrier, Die, LoseConnection, vars
<1>5. QED
  BY <1>1, <1>3, <1>4 DEF Next

\* The accept loop ends on an error of its connection only.
LEMMA LoopStep ==
  TypeOK /\ LoopOutlivesReaders /\ [Next]_vars => LoopOutlivesReaders'
<1> SUFFICES ASSUME TypeOK, LoopOutlivesReaders, [Next]_vars
             PROVE  LoopOutlivesReaders'
  OBVIOUS
<1> "receiver" \in Side
  BY DEF Side
<1> USE DEF TypeOK, LoopOutlivesReaders
<1>1. ASSUME UNCHANGED loop
      PROVE  LoopOutlivesReaders'
  BY <1>1, LossStays
<1>2. CASE AcceptUniFails
  BY <1>2 DEF AcceptUniFails, connVars, Lost, ConnectionError
<1>3. ASSUME \/ \E m \in Message : Send(m) \/ SenderTask(m) \/ ReceiverTask(m) \/ Network(m)
             \/ DropReceiver \/ UNCHANGED vars
             \/ \E e \in Side : Disconnect(e) \/ Barrier(e) \/ Die(e)
             \/ \E e \in Side, error \in ConnectionError : LoseConnection(e, error)
      PROVE  UNCHANGED loop
  BY <1>3 DEF recvVars, Send, SenderTask, SerializeFails, OpenUni, WriteAll, AwaitStopped,
              ReceiverTask, AcceptUni, ReadMessage, ReadTooLong, ReadFails,
              Network, FirstFrameArrives, LastFrameArrives, FeedbackArrives,
              DropReceiver, Disconnect, Barrier, Die, LoseConnection, vars
<1>4. QED
  BY <1>1, <1>2, <1>3 DEF Next

------------------------------------------------------------------------------

\* The task of an open stream leaves it only finished, refused or lost.
LEMMA OpenStep ==
  ASSUME TypeOK, OpenIsWritten, [Next]_vars
  PROVE  OpenIsWritten'
<1> SUFFICES ASSUME NEW m \in Message,
                    sendStream'[m] = "open", conn'["sender"] = "open", feedback'[m] # "stopped"
             PROVE  task'[m] = "write_all"
  BY DEF OpenIsWritten
<1> USE DEF TypeOK
<1>1. conn["sender"] = "open"
  BY LossStays DEF Side
<1>2. ASSUME NEW n \in Message, SenderTask(n)
      PROVE  task'[m] = "write_all"
  <2>1. CASE SerializeFails(n) \/ AwaitStopped(n)
    BY <1>1, <2>1 DEF SerializeFails, AwaitStopped, Report, wireVars, OpenIsWritten
  <2>2. CASE OpenUni(n)
    BY <1>1, <2>2 DEF OpenUni, Lost, ConnectionError, wireVars, OpenIsWritten
  <2>3. CASE WriteAll(n)
    BY <1>1, <2>3 DEF WriteAll, Lost, Report, ConnectionError, wireVars, OpenIsWritten
  <2>4. QED
    BY <1>2, <2>1, <2>2, <2>3 DEF SenderTask
<1>3. CASE \E n \in Message : Send(n)
  BY <1>1, <1>3 DEF Send, wireVars, OpenIsWritten
<1>4. CASE \E n \in Message : Network(n)
  BY <1>1, <1>4 DEF Network, FirstFrameArrives, LastFrameArrives, FeedbackArrives, sendVars,
                    OpenIsWritten
<1>5. CASE UNCHANGED <<task, sendStream, feedback>>
  BY <1>1, <1>5 DEF OpenIsWritten
<1>6. QED
  BY <1>2, <1>3, <1>4, <1>5 DEF Next, vars, sendVars, wireVars, ReceiverTask, AcceptUni,
       ReadMessage, ReadTooLong, ReadFails, AcceptUniFails, DropReceiver, Disconnect, Barrier, Die,
       LoseConnection

------------------------------------------------------------------------------
(* What has arrived is not lost on its way to the user.                    *)

\* Nothing is taken out of the channel's history, and a user who has left does
\* not come back.
LEMMA AnnouncedStays ==
  ASSUME TypeOK, [Next]_vars
  PROVE  /\ \A ev : Announced(ev) => Announced(ev)'
         /\ listening' => listening
<1>1. ASSUME NEW ev, Announced(ev)
      PROVE  Announced(ev)'
  <2>1. Len(events) \in Nat
    BY DEF TypeOK
  <2>2. events' = events \/ \E new : Grew(new)
    BY WhatIsEmitted DEF LossCame, MessageCame
  <2>3. QED
    BY <1>1, <2>1, <2>2 DEF Grew, Announced
<1>2. ASSUME \E m \in Message : Send(m) \/ SenderTask(m) \/ ReceiverTask(m) \/ Network(m)
      PROVE  UNCHANGED listening
  BY <1>2 DEF userVars, Send, SenderTask, SerializeFails, OpenUni, WriteAll, AwaitStopped,
              ReceiverTask, AcceptUni, ReadMessage, ReadTooLong, ReadFails,
              Network, FirstFrameArrives, LastFrameArrives, FeedbackArrives
<1>3. ASSUME \/ AcceptUniFails \/ UNCHANGED vars
             \/ \E e \in Side : Disconnect(e) \/ Barrier(e) \/ Die(e)
             \/ \E e \in Side, error \in ConnectionError : LoseConnection(e, error)
      PROVE  UNCHANGED listening
  BY <1>3 DEF userVars, AcceptUniFails, Disconnect, Barrier, Die, LoseConnection, vars
<1>4. ASSUME DropReceiver
      PROVE  listening' => listening
  BY <1>4 DEF DropReceiver
<1>5. QED
  BY <1>1, <1>2, <1>3, <1>4 DEF Next

\* What is sent while the user listens is in the channel.
LEMMA EmitAnnounces ==
  ASSUME events \in Seq(Event), NEW ev \in Event, ev # NoEvent, Emit(ev), listening
  PROVE  Announced(ev)'
<1>1. events' = Append(events, ev)
  BY DEF Emit
<1>2. QED
  BY <1>1 DEF Announced

\* The news of one message: m is in the loop's hands, its reader's, or told.
MessageIsKept(m) ==
  /\ Acceptable(m) => loop = "running"
  /\ reader[m] = "stopping" => Payload[m] = "oversized"
  /\ listening /\ Payload[m] = "fine" /\ reader[m] \notin {"none", "reading"}
       => \/ Announced(MessageEvent(m))
          \/ recvStream[m] = "partial" /\ conn["receiver"] # "open"

\* The news that the connection is lost.
LossIsKept ==
  listening /\ conn["receiver"] \in {"ApplicationClosed", "ConnectionClosed", "TimedOut"}
    => loop = "running" \/ \E d \in {"None", "Timeout"} : Announced(DisconnectedEvent(d))

\* A message changes hands from the loop to its reader, and from there to the
\* channel, unless its end has not arrived and never will.
LEMMA MessageNewsStep ==
  ASSUME TypeOK, StreamsInStep, LoopOutlivesReaders, [Next]_vars,
         NEW m \in Message, MessageIsKept(m)
  PROVE  MessageIsKept(m)'
<1> USE DEF TypeOK, MessageIsKept
<1> DEFINE ev == MessageEvent(m)
<1>1. Announced(ev) => Announced(ev)'
  BY AnnouncedStays
<1>2. listening' => listening
  BY AnnouncedStays
<1>3. conn["receiver"] # "open" => conn'["receiver"] # "open"
  BY LossStays DEF Side
<1> HIDE DEF ev
<1>4. ASSUME UNCHANGED <<loop, reader, recvStream>>
      PROVE  MessageIsKept(m)'
  BY <1>1, <1>2, <1>3, <1>4 DEF ev, Acceptable
<1>5. ASSUME NEW n \in Message, ReceiverTask(n)
      PROVE  MessageIsKept(m)'
  <2> USE DEF wireVars, connVars
  <2>1. CASE n # m
    <3>1. UNCHANGED <<reader[m], recvStream, loop, conn>>
      BY <1>5, <2>1 DEF ReceiverTask, AcceptUni, ReadMessage, ReadTooLong, ReadFails, Reading
    <3>2. QED
      BY <1>1, <1>2, <3>1 DEF ev, Acceptable
  <2>2. CASE AcceptUni(m)
    BY <2>2 DEF AcceptUni, Acceptable
  <2>3. CASE ReadMessage(m)
    <3>1. loop' = loop /\ reader'[m] \in {"done", "panicked"}
      BY <2>3 DEF ReadMessage, Reading
    <3>2. listening /\ Payload[m] = "fine" => Announced(ev)'
      <4>1. MessageEvent(m) \in Event /\ MessageEvent(m) # NoEvent
        BY EventTypes DEF MessageEvent, NoEvent
      <4>2. Payload[m] = "fine" => Emit(MessageEvent(m))
        BY <2>3 DEF ReadMessage
      <4>3. QED
        BY <4>1, <4>2, EmitAnnounces DEF ev
    <3>3. QED
      BY <1>2, <3>1, <3>2 DEF ev, Acceptable
  <2>4. CASE ReadTooLong(m)
    BY <2>4 DEF ReadTooLong, Reading, Acceptable
  <2>5. CASE ReadFails(m)
    BY <2>5 DEF ReadFails, Reading, Acceptable, Lost, ConnectionError
  <2>6. QED
    BY <1>5, <2>1, <2>2, <2>3, <2>4, <2>5 DEF ReceiverTask
<1>6. ASSUME NEW n \in Message, Network(n)
      PROVE  MessageIsKept(m)'
  <2>1. UNCHANGED <<reader, loop, conn>>
    BY <1>6 DEF Network, FirstFrameArrives, LastFrameArrives, FeedbackArrives, recvVars, connVars
  <2>2. CASE recvStream'[m] = recvStream[m]
    BY <1>1, <1>2, <2>1, <2>2 DEF ev, Acceptable
  <2>3. CASE recvStream'[m] # recvStream[m]
    <3>1. conn["receiver"] = "open"
      BY <1>6, <2>3 DEF Network, FirstFrameArrives, LastFrameArrives, FeedbackArrives
    <3>2. loop = "running"
      BY <3>1 DEF LoopOutlivesReaders
    <3>3. QED
      BY <1>1, <1>2, <2>1, <3>1, <3>2 DEF ev
  <2>4. QED
    BY <2>2, <2>3
<1>7. CASE AcceptUniFails
  BY <1>1, <1>2, <1>7 DEF AcceptUniFails, ev, Acceptable, wireVars, connVars
<1>8. ASSUME NEW n \in Message, Send(n) \/ SenderTask(n)
      PROVE  UNCHANGED <<loop, reader, recvStream>>
  BY <1>8 DEF Send, SenderTask, SerializeFails, OpenUni, WriteAll, AwaitStopped,
              wireVars, recvVars
<1>9. ASSUME \/ DropReceiver \/ UNCHANGED vars
             \/ \E e \in Side : Disconnect(e) \/ Barrier(e) \/ Die(e)
             \/ \E e \in Side, error \in ConnectionError : LoseConnection(e, error)
      PROVE  UNCHANGED <<loop, reader, recvStream>>
  BY <1>9 DEF DropReceiver, Disconnect, Barrier, Die, LoseConnection, vars, wireVars, recvVars
<1>10. QED
  BY <1>4, <1>5, <1>6, <1>7, <1>8, <1>9 DEF Next

\* The loop ends only with the event that tells of the loss, or with a panic.
LEMMA LossNewsStep ==
  ASSUME TypeOK, LoopOutlivesReaders, LossIsKept, [Next]_vars
  PROVE  LossIsKept'
<1> USE DEF TypeOK, LossIsKept
<1>1. \A ev : Announced(ev) => Announced(ev)'
  BY AnnouncedStays
<1>2. listening' => listening
  BY AnnouncedStays
<1>3. conn["receiver"] # "open" => conn'["receiver"] \in {conn["receiver"], "LocallyClosed", "dead"}
  BY LossStays DEF Side
<1>4. ASSUME UNCHANGED loop
      PROVE  LossIsKept'
  BY <1>1, <1>2, <1>3, <1>4 DEF LoopOutlivesReaders
<1>5. CASE AcceptUniFails
  <2>1. ASSUME listening, conn["receiver"] \in {"ApplicationClosed", "ConnectionClosed", "TimedOut"}
        PROVE  \E d \in {"None", "Timeout"} : Announced(DisconnectedEvent(d))'
    <3>1. PICK d \in {"None", "Timeout"} : ToEvent(conn["receiver"]) = DisconnectedEvent(d)
      BY <2>1 DEF ToEvent
    <3>2. DisconnectedEvent(d) \in Event /\ DisconnectedEvent(d) # NoEvent
      BY DEF Event, DisconnectedEvent, NoEvent
    <3>3. Emit(DisconnectedEvent(d))
      BY <1>5, <3>1 DEF AcceptUniFails
    <3>4. QED
      BY <2>1, <3>2, <3>3, EmitAnnounces
  <2>2. conn' = conn
    BY <1>5 DEF AcceptUniFails, connVars
  <2>3. QED
    BY <1>2, <2>1, <2>2
<1>6. ASSUME \/ \E m \in Message : Send(m) \/ SenderTask(m) \/ ReceiverTask(m) \/ Network(m)
             \/ DropReceiver \/ UNCHANGED vars
             \/ \E e \in Side : Disconnect(e) \/ Barrier(e) \/ Die(e)
             \/ \E e \in Side, error \in ConnectionError : LoseConnection(e, error)
      PROVE  UNCHANGED loop
  BY <1>6 DEF recvVars, Send, SenderTask, SerializeFails, OpenUni, WriteAll, AwaitStopped,
              ReceiverTask, AcceptUni, ReadMessage, ReadTooLong, ReadFails,
              Network, FirstFrameArrives, LastFrameArrives, FeedbackArrives,
              DropReceiver, Disconnect, Barrier, Die, LoseConnection, vars
<1>7. QED
  BY <1>4, <1>5, <1>6 DEF Next

\* No step loses what has arrived.
LEMMA NewsStep ==
  ASSUME TypeOK, StreamsInStep, LoopOutlivesReaders, NewsIsKept, [Next]_vars
  PROVE  NewsIsKept'
<1>1. (\A m \in Message : MessageIsKept(m)) /\ LossIsKept
  BY DEF NewsIsKept, MessageIsKept, LossIsKept
<1>2. (\A m \in Message : MessageIsKept(m)') /\ LossIsKept'
  BY <1>1, MessageNewsStep, LossNewsStep
<1>3. QED
  BY <1>2 DEF NewsIsKept, MessageIsKept, LossIsKept

------------------------------------------------------------------------------

\* The properties of the link hold together, in every state it can reach.
THEOREM LinkInvariant == Spec => []LinkInv
<1>1. Init => LinkInv
  <2> SUFFICES ASSUME Init PROVE LinkInv
    OBVIOUS
  <2>1. TypeOK
    BY DEF Init, TypeOK, Side
  <2>2. QED
    BY <2>1 DEF Init, LinkInv, StreamsInStep, EventsInStep, DeliveredOnce,
                DisconnectionIsReal, BlameIsFounded, LoopOutlivesReaders, OpenIsWritten, NewsIsKept,
                Acceptable, BlockedIsOver
<1>2. LinkInv /\ [Next]_vars => LinkInv'
  BY TypeStep, BlockedStep, StreamsStep, EventsStep, DeliveredOnceStep, DisconnectionStep,
     BlameStep, LoopStep, OpenStep, NewsStep DEF LinkInv
<1>3. QED
  BY <1>1, <1>2, PTL DEF Spec

\* No message is given to the receiving user twice.
THEOREM NoDuplicate == Spec => []DeliveredOnce
<1>1. LinkInv => DeliveredOnce
  BY DEF LinkInv
<1>2. QED
  BY <1>1, LinkInvariant, PTL

\* A handle never says Sent of a message that the other end has not got.
THEOREM SentIsTrue == Spec => []SentWasReceived
<1>1. LinkInv => SentWasReceived
  BY DEF LinkInv, TypeOK, StreamsInStep, SentWasReceived
<1>2. QED
  BY <1>1, LinkInvariant, PTL

\* A handle never blames a side that has not closed, nor a standing connection.
THEOREM BlameIsTrue == Spec => []BlameIsFounded
<1>1. LinkInv => BlameIsFounded
  BY DEF LinkInv
<1>2. QED
  BY <1>1, LinkInvariant, PTL

\* The receiving user hears of real disconnections only, and of one kind.
THEOREM DisconnectionIsTrue == Spec => []DisconnectionIsReal
<1>1. LinkInv => DisconnectionIsReal
  BY DEF LinkInv
<1>2. QED
  BY <1>1, LinkInvariant, PTL

\* A conversion failure in one task never ends the accept loop.
THEOREM LoopSurvives == Spec => []LoopOutlivesReaders
<1>1. LinkInv => LoopOutlivesReaders
  BY DEF LinkInv
<1>2. QED
  BY <1>1, LinkInvariant, PTL

\* While both ends stand, an open stream that is not read to the end moves on.
LEMMA OpenStreamIsDue ==
  ASSUME LinkInv, \A e \in Side : conn[e] = "open", NEW n \in OpenStreams
  PROVE  StreamIsDue(n)
<1> USE DEF LinkInv, TypeOK, OpenStreams
<1>1. conn["sender"] = "open" /\ conn["receiver"] = "open" /\ loop = "running"
  BY DEF Side, LoopOutlivesReaders
<1>0. Runs("receiver")
  BY <1>1 DEF Runs, Alive, BlockedIsOver, Lost, ConnectionError, Side
<1>2. CASE recvStream[n] = "none"
  BY <1>2 DEF StreamIsDue
<1>3. CASE recvStream[n] # "none" /\ reader[n] = "none"
  BY <1>1, <1>3 DEF StreamIsDue, Acceptable
<1>4. CASE recvStream[n] = "complete" /\ reader[n] = "reading"
  BY <1>0, <1>4 DEF StreamIsDue, Reading
<1>5. CASE recvStream[n] = "partial"
  <2>1. feedback[n] # "stopped"
    BY DEF StreamsInStep
  <2>2. sendStream[n] = "open" => task[n] = "write_all"
    BY <1>1, <2>1 DEF OpenIsWritten
  <2>3. QED
    BY <1>5, <2>2 DEF StreamIsDue
<1>6. QED
  BY <1>2, <1>3, <1>4, <1>5

\* No send waits for ever but with its connection: a full set of streams is one
\* that will be read.
THEOREM SendsCanGoOn == Spec => []SendCanGoOn
<1>1. LinkInv => SendCanGoOn
  <2> SUFFICES ASSUME LinkInv, \A e \in Side : conn[e] = "open",
                      NEW m \in Message, GetState(m) = "StillBeingSent"
               PROVE  IF task[m] # "open_uni" THEN StreamIsDue(m)
                      ELSE \/ Payload[m] = "unserializable"
                           \/ Cardinality(OpenStreams) < MaxStreams
                           \/ \E n \in OpenStreams : StreamIsDue(n)
    BY DEF SendCanGoOn
  <2> USE DEF LinkInv, TypeOK
  <2>1. task[m] \in {"open_uni", "write_all", "stopped"}
    BY DEF GetState, StreamsInStep, SendingResult
  <2>2. CASE task[m] = "write_all"
    BY <2>2 DEF StreamIsDue
  <2>3. CASE task[m] = "stopped"
    <3>1. sendStream[m] = "finished"
      BY <2>3 DEF StreamsInStep
    <3>2. QED
      BY <2>3, <3>1 DEF StreamIsDue
  <2>4. CASE task[m] = "open_uni"
    <3>1. CASE OpenStreams = {}
      <4>1. Cardinality(OpenStreams) = 0
        BY <3>1, FS_EmptySet
      <4>2. QED
        BY <2>4, <4>1, LinkAssumption
    <3>2. CASE OpenStreams # {}
      BY <2>4, <3>2, OpenStreamIsDue
    <3>3. QED
      BY <3>1, <3>2
  <2>5. QED
    BY <2>1, <2>2, <2>3, <2>4
<1>2. QED
  BY <1>1, LinkInvariant, PTL

\* What the sender calls sent, and a loss, are on their way to a user who
\* listens: the loop and the readers do not leave them behind.
THEOREM NewsGoesOn == Spec => []NewsCanGoOn
<1>1. LinkInv => NewsCanGoOn
  <2> SUFFICES ASSUME LinkInv, listening, Runs("receiver")
               PROVE  NewsCanGoOn
    BY DEF NewsCanGoOn
  <2> USE DEF LinkInv, TypeOK, NewsIsKept
  <2>1. ASSUME NEW m \in Message, result[m] = "Sent", Payload[m] = "fine"
        PROVE  \/ Announced(MessageEvent(m))
               \/ Acceptable(m) /\ loop = "running"
               \/ Reading(m) /\ recvStream[m] = "complete"
    <3>1. reader[m] # "stopping"
      BY <2>1
    <3>2. recvStream[m] = "complete"
      BY <2>1, <3>1 DEF StreamsInStep
    <3>3. CASE reader[m] = "none"
      BY <3>2, <3>3 DEF Acceptable
    <3>4. CASE reader[m] = "reading"
      BY <3>2, <3>4 DEF Reading
    <3>5. CASE reader[m] \notin {"none", "reading"}
      BY <2>1, <3>2, <3>5
    <3>6. QED
      BY <3>3, <3>4, <3>5
  <2>2. QED
    BY <2>1 DEF NewsCanGoOn
<1>2. QED
  BY <1>1, LinkInvariant, PTL

\* A message that is resolved when its own side has closed is sent or WeClosed.
LEMMA ResolvedByUs ==
  ASSUME LinkInv, [Next]_vars, conn["sender"] = "LocallyClosed",
         NEW m \in Message, result'[m] # result[m]
  PROVE  result'[m] \in {"WeClosed", "Sent"}
<1> USE DEF LinkInv, TypeOK
<1>1. ASSUME NEW n \in Message, Report(n, "Ok") \/ Report(n, conn["sender"])
      PROVE  result'[m] \in {"WeClosed", "Sent"}
  <2>1. /\ FromResult("Ok") = "Sent"
        /\ FromResult("LocallyClosed") = "WeClosed"
    BY DEF FromResult, FromConnectionError, ConnectionError
  <2>2. result'[m] \in {result[m], "WeClosed", "Sent"}
    BY <1>1, <2>1 DEF Report
  <2>3. QED
    BY <2>2
<1>2. ASSUME NEW n \in Message, SenderTask(n)
      PROVE  UNCHANGED result \/ Report(n, "Ok") \/ Report(n, conn["sender"])
  BY <1>2 DEF SenderTask, SerializeFails, OpenUni, WriteAll, AwaitStopped
<1>3. ASSUME \/ \E n \in Message : Send(n) \/ ReceiverTask(n) \/ Network(n)
             \/ AcceptUniFails \/ DropReceiver \/ UNCHANGED vars
             \/ \E e \in Side : Disconnect(e) \/ Barrier(e) \/ Die(e)
             \/ \E e \in Side, error \in ConnectionError : LoseConnection(e, error)
      PROVE  UNCHANGED result
  BY <1>3 DEF sendVars, Send, ReceiverTask, AcceptUni, ReadMessage, ReadTooLong, ReadFails,
              Network, FirstFrameArrives, LastFrameArrives, FeedbackArrives,
              AcceptUniFails, DropReceiver, Disconnect, Barrier, Die, LoseConnection, vars
<1>4. QED
  BY <1>1, <1>2, <1>3 DEF Next

\* After our own disconnect nothing but messages comes, and nobody else is
\* blamed for a message that fails.
THEOREM ClosedIsQuiet == Spec => QuietAfterOurClose
<1>1. LinkInv /\ [Next]_vars =>
        [/\ conn["receiver"] = "LocallyClosed" /\ Len(events') > Len(events)
              => events'[Len(events')].kind = "Message"
         /\ conn["sender"] = "LocallyClosed" =>
              \A m \in Message : result'[m] # result[m] => result'[m] \in {"WeClosed", "Sent"}]_vars
  <2> SUFFICES ASSUME LinkInv, [Next]_vars
               PROVE  /\ conn["receiver"] = "LocallyClosed" /\ Len(events') > Len(events)
                           => events'[Len(events')].kind = "Message"
                      /\ conn["sender"] = "LocallyClosed" =>
                           \A m \in Message :
                             result'[m] # result[m] => result'[m] \in {"WeClosed", "Sent"}
    OBVIOUS
  <2>1. ASSUME conn["receiver"] = "LocallyClosed", Len(events') > Len(events)
        PROVE  events'[Len(events')].kind = "Message"
    <3>1. Len(events) \in Nat
      BY DEF LinkInv, TypeOK
    <3>2. ~ LossCame
      BY <2>1 DEF LossCame, ToEvent
    <3>3. PICK m \in Message : MessageCame(m)
      BY <2>1, <3>1, <3>2, WhatIsEmitted DEF LinkInv
    <3>4. QED
      BY <3>3 DEF MessageCame, Grew, MessageEvent
  <2>2. conn["sender"] = "LocallyClosed" =>
          \A m \in Message : result'[m] # result[m] => result'[m] \in {"WeClosed", "Sent"}
    BY ResolvedByUs
  <2>3. QED
    BY <2>1, <2>2
<1>2. QED
  BY <1>1, LinkInvariant, PTL DEF Spec, QuietAfterOurClose

------------------------------------------------------------------------------
(* The link implements Messaging.                                          *)

\* What the receiving user has got grows by a message that has been read.
LEMMA DeliveredGrows ==
  TypeOK /\ [Next]_vars =>
    \/ UNCHANGED Delivered
    \/ \E m \in Message : MessageCame(m) /\ Delivered' = Delivered \cup {m}
<1> SUFFICES ASSUME TypeOK, [Next]_vars
             PROVE  \/ UNCHANGED Delivered
                    \/ \E m \in Message : MessageCame(m) /\ Delivered' = Delivered \cup {m}
  OBVIOUS
<1> USE DEF Delivered, Announced
<1>1. Len(events) \in Nat
  BY DEF TypeOK
<1>2. CASE events' = events
  BY <1>2
<1>3. CASE LossCame
  <2>1. \A m \in Message : ToEvent(conn["receiver"]) # MessageEvent(m)
    <3>1. ToEvent(conn["receiver"]).kind # "Message"
      BY EventTypes DEF DisconnectedEvent, NoEvent
    <3>2. \A m \in Message : MessageEvent(m).kind = "Message"
      BY DEF MessageEvent
    <3>3. QED
      BY <3>1, <3>2
  <2>2. QED
    BY <1>1, <1>3, <2>1 DEF LossCame, Grew
<1>4. ASSUME NEW m \in Message, MessageCame(m)
      PROVE  Delivered' = Delivered \cup {m}
  <2>1. \A n \in Message : MessageEvent(n) = MessageEvent(m) => n = m
    BY DEF MessageEvent
  <2>2. QED
    BY <1>1, <1>4, <2>1 DEF MessageCame, Grew
<1>5. QED
  BY <1>2, <1>3, <1>4, WhatIsEmitted

\* A task that reports resolves its handle, and says Sent with good reason.
LEMMA ReportResolves ==
  ASSUME LinkInv, NEW m \in Message, NEW outcome, Report(m, outcome),
         Runs("sender"), task[m] \in {"open_uni", "write_all", "stopped"},
         outcome = "Ok" => feedback[m] # "none",
         UNCHANGED <<conn, Arrived, Delivered>>
  PROVE  \E r \in SendingResult : Promise!Resolve(m, r)
<1>1. FromResult(outcome) \in SendingResult /\ FromResult(outcome) # "none"
  BY ResultTypes DEF SendingResult
<1>2. result[m] = "none" /\ task \in [Message -> {"idle", "open_uni", "write_all", "stopped", "done", "panicked"}]
  BY DEF LinkInv, StreamsInStep, TypeOK
<1>3. Handles[m] = "StillBeingSent"
  BY <1>2 DEF Handles, GetState, Runs
<1>4. \A n \in Message : GetState(n)' = IF n = m THEN FromResult(outcome) ELSE GetState(n)
  BY <1>1, <1>2 DEF Report, GetState, Runs, Alive, LinkInv, TypeOK
<1>5. Handles' = [Handles EXCEPT ![m] = FromResult(outcome)]
  BY <1>4 DEF Handles
<1>6. FromResult(outcome) = "Sent" => m \in Arrived
  <2>1. FromResult(outcome) = "Sent" => outcome = "Ok"
    BY DEF FromResult, FromConnectionError, ConnectionError
  <2>2. QED
    BY <2>1 DEF LinkInv, StreamsInStep, TypeOK, Arrived
<1>7. QED
  BY <1>1, <1>3, <1>5, <1>6 DEF Promise!Resolve

\* Every step of the link is a step of Messaging, or one that its users do
\* not see.
LEMMA LinkStepImplements ==
  LinkInv /\ [Next]_vars => [Promise!Next]_Promise!vars
<1> SUFFICES ASSUME LinkInv, [Next]_vars
             PROVE  [Promise!Next]_Promise!vars
  OBVIOUS
<1> TypeOK /\ StreamsInStep
  BY DEF LinkInv
<1> DEFINE Unseen == UNCHANGED <<Handles, Arrived, Delivered>>
<1>0. Unseen => [Promise!Next]_Promise!vars
  BY DEF Promise!vars
<1> HIDE DEF Unseen
<1>1. ASSUME UNCHANGED <<conn, task, result>>
      PROVE  UNCHANGED Handles
  BY <1>1 DEF Handles, GetState, Alive
<1>2. ASSUME UNCHANGED <<recvStream, reader>>
      PROVE  UNCHANGED Arrived
  BY <1>2 DEF Arrived
<1>3. ASSUME UNCHANGED events
      PROVE  UNCHANGED Delivered
  BY <1>3 DEF Delivered, Announced
<1>4. ASSUME NEW m \in Message, Send(m)
      PROVE  Promise!Send(m)
  <2>1. UNCHANGED Arrived /\ UNCHANGED Delivered
    BY <1>2, <1>3, <1>4 DEF Send, wireVars, recvVars
  <2>2. result[m] = "none"
    BY <1>4 DEF Send, StreamsInStep, TypeOK
  <2>3. \A n \in Message : GetState(n)' = IF n = m THEN "StillBeingSent" ELSE GetState(n)
    BY <1>4, <2>2 DEF Send, GetState, Alive, connVars, TypeOK
  <2>4. Handles[m] = "Unsent"
    BY <1>4 DEF Handles, GetState, Send
  <2>5. QED
    BY <2>1, <2>3, <2>4 DEF Promise!Send, Handles
<1>5. ASSUME NEW m \in Message, SenderTask(m)
      PROVE  Unseen \/ \E r \in SendingResult : Promise!Resolve(m, r)
  <2>1. UNCHANGED conn /\ UNCHANGED Arrived /\ UNCHANGED Delivered
    BY <1>2, <1>3, <1>5 DEF SenderTask, SerializeFails, OpenUni, WriteAll, AwaitStopped,
                            connVars, wireVars, recvVars
  <2>2. CASE SerializeFails(m)
    <3>1. Handles[m] = "StillBeingSent"
      BY <2>2 DEF SerializeFails, Handles, GetState, Runs, StreamsInStep, TypeOK
    <3>2. \A n \in Message : GetState(n)' = IF n = m THEN "Error" ELSE GetState(n)
      BY <2>1, <2>2 DEF SerializeFails, GetState, Runs, Alive, StreamsInStep, TypeOK
    <3>3. Handles' = [Handles EXCEPT ![m] = "Error"]
      BY <3>2 DEF Handles
    <3>4. QED
      BY <2>1, <3>1, <3>3 DEF Promise!Resolve, SendingResult
  <2>3. ASSUME UNCHANGED result, task[m] \in {"open_uni", "write_all"},
               \E t \in {"write_all", "stopped"} : task' = [task EXCEPT ![m] = t]
        PROVE  Unseen
    <3>1. \A n \in Message : GetState(n)' = GetState(n)
      BY <2>1, <2>3 DEF GetState, Alive, TypeOK
    <3>2. QED
      BY <2>1, <3>1 DEF Unseen, Handles
  <2>4. CASE OpenUni(m)
    BY <2>1, <2>3, <2>4, ReportResolves DEF OpenUni, Lost, ConnectionError
  <2>5. CASE WriteAll(m)
    BY <2>1, <2>3, <2>5, ReportResolves DEF WriteAll, Lost, ConnectionError
  <2>6. CASE AwaitStopped(m)
    BY <2>1, <2>6, ReportResolves DEF AwaitStopped, Lost, ConnectionError
  <2>7. QED
    BY <1>5, <2>2, <2>4, <2>5, <2>6 DEF SenderTask
<1>6. ASSUME NEW m \in Message, ReadMessage(m)
      PROVE  Unseen \/ Promise!Deliver(m)
  <2>1. UNCHANGED Handles
    BY <1>1, <1>6 DEF ReadMessage, connVars, sendVars
  <2>2. UNCHANGED Arrived
    BY <1>6 DEF ReadMessage, Reading, wireVars, Arrived, TypeOK
  <2>3. m \in Arrived
    BY <1>6 DEF ReadMessage, Arrived
  <2>4. UNCHANGED Delivered \/ Delivered' = Delivered \cup {m}
    <3>1. CASE UNCHANGED events
      BY <1>3, <3>1
    <3>2. CASE Emit(MessageEvent(m))
      <4>1. CASE UNCHANGED events
        BY <1>3, <4>1
      <4>2. CASE events' = Append(events, MessageEvent(m))
        <5>1. \A n \in Message : MessageEvent(n) = MessageEvent(m) => n = m
          BY DEF MessageEvent
        <5>2. MessageEvent(m) \in Event /\ events \in Seq(Event)
          BY EventTypes DEF TypeOK
        <5>3. QED
          BY <4>2, <5>1, <5>2 DEF Delivered, Announced
      <4>3. QED
        BY <3>2, <4>1, <4>2 DEF Emit
    <3>3. QED
      BY <1>6, <3>1, <3>2 DEF ReadMessage
  <2>5. QED
    BY <2>1, <2>2, <2>3, <2>4 DEF Unseen, Promise!Deliver
<1>7. ASSUME NEW m \in Message, ReadTooLong(m)
      PROVE  Unseen \/ Promise!Arrive(m)
  <2>1. UNCHANGED Handles /\ UNCHANGED Delivered
    BY <1>1, <1>3, <1>7 DEF ReadTooLong, connVars, sendVars
  <2>2. UNCHANGED Arrived \/ Arrived' = Arrived \cup {m}
    BY <1>7 DEF ReadTooLong, Reading, wireVars, Arrived, TypeOK
  <2>3. Handles[m] # "Unsent"
    <3>1. task[m] # "idle"
      BY <1>7 DEF ReadTooLong, Reading, StreamsInStep
    <3>2. QED
      BY <3>1 DEF Handles, GetState, StreamsInStep, TypeOK, SendingResult
  <2>4. QED
    BY <2>1, <2>2, <2>3 DEF Unseen, Promise!Arrive
<1>8. ASSUME NEW m \in Message, AcceptUni(m) \/ ReadFails(m)
      PROVE  Unseen
  <2>1. UNCHANGED Handles
    BY <1>1, <1>8 DEF AcceptUni, ReadFails, connVars, sendVars
  <2>2. UNCHANGED Arrived
    BY <1>8 DEF AcceptUni, Acceptable, ReadFails, Reading, wireVars, Arrived, TypeOK
  <2>3. UNCHANGED Delivered
    <3>1. \A n \in Message : ~ MessageCame(n)
      BY <1>8 DEF AcceptUni, Acceptable, ReadFails, Reading, MessageCame, TypeOK
    <3>2. QED
      BY <3>1, DeliveredGrows
  <2>4. QED
    BY <2>1, <2>2, <2>3 DEF Unseen
<1>9. ASSUME NEW m \in Message, Network(m)
      PROVE  Unseen \/ Promise!Arrive(m)
  <2>1. UNCHANGED Handles /\ UNCHANGED Delivered
    BY <1>1, <1>3, <1>9 DEF Network, FirstFrameArrives, LastFrameArrives, FeedbackArrives,
                            connVars, sendVars, recvVars
  <2>2. CASE LastFrameArrives(m)
    <3>1. Arrived' = Arrived \cup {m}
      BY <2>2 DEF LastFrameArrives, recvVars, Arrived, TypeOK
    <3>2. Handles[m] # "Unsent"
      BY <2>2 DEF LastFrameArrives, Handles, GetState, StreamsInStep, TypeOK, SendingResult
    <3>3. QED
      BY <2>1, <3>1, <3>2 DEF Promise!Arrive
  <2>3. CASE FirstFrameArrives(m) \/ FeedbackArrives(m)
    <3>1. UNCHANGED Arrived
      BY <2>3 DEF FirstFrameArrives, FeedbackArrives, recvVars, Arrived, TypeOK
    <3>2. QED
      BY <2>1, <3>1 DEF Unseen
  <2>4. QED
    BY <1>9, <2>2, <2>3 DEF Network
<1>10. ASSUME AcceptUniFails \/ DropReceiver \/ UNCHANGED vars
       PROVE  Unseen
  <2>1. UNCHANGED Handles /\ UNCHANGED Arrived
    BY <1>1, <1>2, <1>10 DEF AcceptUniFails, DropReceiver, vars,
                             connVars, sendVars, wireVars, recvVars
  <2>2. UNCHANGED Delivered
    <3>1. \A n \in Message : ~ MessageCame(n)
      BY <1>10 DEF AcceptUniFails, DropReceiver, MessageCame, vars, recvVars
    <3>2. QED
      BY <3>1, DeliveredGrows
  <2>3. QED
    BY <2>1, <2>2 DEF Unseen
<1>11. ASSUME \/ \E e \in Side : Disconnect(e) \/ Barrier(e) \/ Die(e)
              \/ \E e \in Side, error \in ConnectionError : LoseConnection(e, error)
       PROVE  Unseen \/ Promise!SenderExits
  <2>1. UNCHANGED <<task, result>> /\ UNCHANGED Arrived /\ UNCHANGED Delivered
    BY <1>2, <1>3, <1>11 DEF Disconnect, Barrier, Die, LoseConnection, sendVars, wireVars, recvVars
  <2>2. CASE UNCHANGED Alive("sender")
    BY <2>1, <2>2 DEF Unseen, Handles, GetState
  <2>3. CASE Alive("sender") /\ ~Alive("sender")'
    <3>1. \A m \in Message : GetState(m)' = IF GetState(m) = "StillBeingSent" THEN "Gone"
                                            ELSE GetState(m)
      BY <2>1, <2>3 DEF GetState, TypeOK, SendingResult
    <3>2. QED
      BY <2>1, <3>1 DEF Promise!SenderExits, Handles
  <2>4. CASE ~Alive("sender") /\ Alive("sender")'
    BY <1>11, <2>4 DEF Alive, Side, Disconnect, Barrier, Die, LoseConnection, TypeOK
  <2>5. QED
    BY <2>2, <2>3, <2>4 DEF Alive
<1>12. QED
  BY <1>0, <1>4, <1>5, <1>6, <1>7, <1>8, <1>9, <1>10, <1>11
     DEF Next, ReceiverTask, Promise!Next, SendingResult, Promise!SendingResult

\* The detailed specification implements the abstract one.
THEOREM LinkImplementsMessaging == Spec => ImplementsMessaging
<1>1. Init => Promise!Init
  BY DEF Init, Promise!Init, Handles, GetState, Arrived, Delivered, Announced
<1>2. QED
  BY <1>1, LinkStepImplements, LinkInvariant, PTL
     DEF Spec, ImplementsMessaging, Promise!Spec

==============================================================================
