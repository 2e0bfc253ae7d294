----------------------------- MODULE MessageLink -----------------------------
(***************************************************************************)
(* One direction of an established warqueen connection.                    *)
(*                                                                         *)
(* The sending user calls send_message_to_server / send_message_to_client: *)
(* every message gets a tokio task of its own that runs send_message and   *)
(* reports through a oneshot channel.  At the other end an accept loop     *)
(* spawns one reader task per unidirectional stream; readers and the loop  *)
(* put events in an unbounded mpsc channel.  Polling it never holds the    *)
(* writers up, so the channel is kept as its whole history.  Each end may  *)
(* close, lose the connection or die at any moment, and its runtime may be *)
(* blocked by the barriers of disconnections (see Disconnection).          *)
(*                                                                         *)
(* The code of the two directions is the same (client.rs and server.rs     *)
(* repeat each other), so the module serves for both.  The tasks advance   *)
(* from one await to the next; what Quinn does between the two ends is     *)
(* modelled from how the code uses it and is marked external.              *)
(***************************************************************************)
EXTENDS Naturals, Sequences, FiniteSets, ConnectionErrors

CONSTANTS
  Message,      \* the messages the sending user may send
  Payload,      \* Payload[m]: which conversion of m, if any, fails
  MaxStreams,   \* how many unidirectional streams Quinn lets us have open
  MayBlock      \* the ends of which the runtime may come to be blocked

PayloadKind == {"fine", "unserializable", "oversized", "undecodable"}

Side == {"sender", "receiver"}
Peer(e) == IF e = "sender" THEN "receiver" ELSE "sender"

ASSUME LinkAssumption ==
  /\ Payload \in [Message -> PayloadKind]
  /\ MaxStreams \in Nat \ {0}
  /\ MayBlock \subseteq Side

VARIABLES
  conn,        \* conn[e]: "open", the error of e's Connection, or "dead" process
  blocked,     \* blocked[e]: are all threads of e's runtime at barriers?
  task,        \* task[m]: the await at which the sending task of m stands
  result,      \* result[m]: value put in the oneshot channel of m
  sendStream,  \* sendStream[m]: the sender's half of the stream of m
  recvStream,  \* recvStream[m]: what of it the receiver's Quinn has got
  feedback,    \* feedback[m]: what the sender's Quinn heard back about it
  loop,        \* the accept_uni loop of the receiver
  reader,      \* reader[m]: the task that reads the stream of m
  events,      \* every event ever put in the mpsc channel, in order
  listening    \* is the receiving half of the mpsc channel still alive?

connVars  == <<conn, blocked>>
sendVars  == <<task, result, sendStream>>
wireVars  == <<recvStream, feedback>>
recvVars  == <<loop, reader, events>>
userVars  == <<listening>>
vars == <<connVars, sendVars, wireVars, recvVars, userVars>>

Alive(e) == conn[e] # "dead"
Lost(e)  == conn[e] \in ConnectionError

\* Are the tasks of e polled?
Runs(e) == Alive(e) /\ ~blocked[e]

Event == {MessageEvent(m) : m \in Message}
           \cup {DisconnectedEvent(d) : d \in {"None", "Timeout"}}

TypeOK ==
  /\ conn \in [Side -> {"open", "dead"} \cup ConnectionError]
  /\ blocked \in [Side -> BOOLEAN]
  /\ task \in [Message -> {"idle", "open_uni", "write_all", "stopped", "done", "panicked"}]
  /\ result \in [Message -> {"none"} \cup SendingResult]
  /\ sendStream \in [Message -> {"none", "open", "finished"}]
  /\ recvStream \in [Message -> {"none", "partial", "complete"}]
  /\ feedback \in [Message -> {"none", "acked", "stopped"}]
  /\ loop \in {"running", "returned", "panicked"}
  /\ reader \in [Message -> {"none", "reading", "done", "panicked", "stopping"}]
  /\ events \in Seq(Event)
  /\ listening \in BOOLEAN

Init ==
  /\ conn = [e \in Side |-> "open"]
  /\ blocked = [e \in Side |-> FALSE]
  /\ task = [m \in Message |-> "idle"]
  /\ result = [m \in Message |-> "none"]
  /\ sendStream = [m \in Message |-> "none"]
  /\ recvStream = [m \in Message |-> "none"]
  /\ feedback = [m \in Message |-> "none"]
  /\ loop = "running"
  /\ reader = [m \in Message |-> "none"]
  /\ events = <<>>
  /\ listening = TRUE

------------------------------------------------------------------------------
(* Sending: the user's call, then the task that runs send_message.         *)

\* send_message returns and the task reports.
Report(m, outcome) ==
  /\ task' = [task EXCEPT ![m] = "done"]
  /\ result' = [result EXCEPT ![m] = FromResult(outcome)]

\* What the SendingStateHandle of m answers.
GetState(m) ==
  IF task[m] = "idle" THEN "Unsent"
  ELSE IF result[m] # "none" THEN result[m]
  ELSE IF task[m] = "panicked" THEN "Error"       \* TryRecvError::Closed
  ELSE IF ~Alive("sender") THEN "Gone"
  ELSE "StillBeingSent"

\* The user sends; it works in any state of the connection.
Send(m) ==
  /\ Alive("sender")
  /\ task[m] = "idle"
  /\ task' = [task EXCEPT ![m] = "open_uni"]
  /\ UNCHANGED <<connVars, result, sendStream, wireVars, recvVars, userVars>>

\* rmp_serde::encode::to_vec(message).unwrap()
SerializeFails(m) ==
  /\ Runs("sender")
  /\ task[m] = "open_uni"
  /\ Payload[m] = "unserializable"
  /\ task' = [task EXCEPT ![m] = "panicked"]
  /\ UNCHANGED <<connVars, result, sendStream, wireVars, recvVars, userVars>>

\* Streams that count against the limit: opened, and not yet read to the end.
OpenStreams == {m \in Message : sendStream[m] # "none" /\ reader[m] \in {"none", "reading"}}

OpenUni(m) ==
  /\ Runs("sender")
  /\ task[m] = "open_uni"
  /\ Payload[m] # "unserializable"
  /\ \/ /\ conn["sender"] = "open"
        /\ Cardinality(OpenStreams) < MaxStreams
        /\ sendStream' = [sendStream EXCEPT ![m] = "open"]
        /\ task' = [task EXCEPT ![m] = "write_all"]
        /\ UNCHANGED result
     \/ /\ Lost("sender")
        /\ Report(m, conn["sender"])
        /\ UNCHANGED sendStream
  /\ UNCHANGED <<connVars, wireVars, recvVars, userVars>>

\* Mutant: finish() is forgotten.
WriteAllUnfinished(m) ==
  /\ Runs("sender")
  /\ task[m] = "write_all"
  /\ conn["sender"] = "open"
  /\ task' = [task EXCEPT ![m] = "stopped"]
  /\ UNCHANGED <<connVars, result, sendStream, wireVars, recvVars, userVars>>

\* write_all, then finish(), which does not wait.
WriteAll(m) ==
  /\ Runs("sender")
  /\ task[m] = "write_all"
  /\ \/ /\ Lost("sender")
        /\ Report(m, conn["sender"])
        /\ UNCHANGED sendStream
     \/ /\ conn["sender"] = "open"
        /\ feedback[m] = "stopped"
        /\ Report(m, "Stopped")
        /\ UNCHANGED sendStream
     \/ /\ conn["sender"] = "open"
        /\ feedback[m] # "stopped"
        /\ sendStream' = [sendStream EXCEPT ![m] = "finished"]
        /\ task' = [task EXCEPT ![m] = "stopped"]
        /\ UNCHANGED result
  /\ UNCHANGED <<connVars, wireVars, recvVars, userVars>>

\* Mutant: send_message ends with finish().
AwaitStoppedAtOnce(m) ==
  /\ Runs("sender")
  /\ task[m] = "stopped"
  /\ Report(m, "Ok")
  /\ UNCHANGED <<connVars, sendStream, wireVars, recvVars, userVars>>

\* Mutant: it is stuck when the connection is lost.
AwaitStoppedDespiteLoss(m) ==
  /\ Runs("sender")
  /\ task[m] = "stopped"
  /\ feedback[m] # "none"
  /\ Report(m, "Ok")
  /\ UNCHANGED <<connVars, sendStream, wireVars, recvVars, userVars>>

\* Mutant: the loss is looked at before the acknowledgement.
AwaitStoppedLossFirst(m) ==
  /\ Runs("sender")
  /\ task[m] = "stopped"
  /\ \/ Lost("sender") /\ Report(m, conn["sender"])
     \/ ~Lost("sender") /\ feedback[m] # "none" /\ Report(m, "Ok")
  /\ UNCHANGED <<connVars, sendStream, wireVars, recvVars, userVars>>

\* stream.stopped().await: its Ok value, a stop code or none, is not looked at.
AwaitStopped(m) ==
  /\ Runs("sender")
  /\ task[m] = "stopped"
  /\ \/ feedback[m] # "none" /\ Report(m, "Ok")
     \/ feedback[m] = "none" /\ Lost("sender") /\ Report(m, conn["sender"])
  /\ UNCHANGED <<connVars, sendStream, wireVars, recvVars, userVars>>

------------------------------------------------------------------------------
(* Receiving: the accept loop and the tasks it spawns.                     *)

\* receiving_sender.send(event): ignored once the receiving half is dropped.
Emit(ev) ==
  events' = IF listening /\ ev # NoEvent THEN Append(events, ev) ELSE events

\* A stream that Quinn has heard of and that the loop has not taken yet.
Acceptable(m) == recvStream[m] # "none" /\ reader[m] = "none"

AcceptUni(m) ==
  /\ Runs("receiver")
  /\ loop = "running"
  /\ Acceptable(m)
  /\ reader' = [reader EXCEPT ![m] = "reading"]
  /\ UNCHANGED <<connVars, sendVars, wireVars, loop, events, userVars>>

\* Mutant: the loop looks at the connection first.
AcceptUniFailsFirst ==
  /\ Runs("receiver") /\ Lost("receiver")
  /\ loop = "running"
  /\ loop' = IF PanicsOn(conn["receiver"]) THEN "panicked" ELSE "returned"
  /\ Emit(ToEvent(conn["receiver"]))
  /\ UNCHANGED <<connVars, sendVars, wireVars, reader, userVars>>

\* accept_uni gives an error only when no stream is left to take.
AcceptUniFails ==
  /\ Runs("receiver") /\ Lost("receiver")
  /\ loop = "running"
  /\ \A m \in Message : ~Acceptable(m)
  /\ loop' = IF PanicsOn(conn["receiver"]) THEN "panicked" ELSE "returned"
  /\ Emit(ToEvent(conn["receiver"]))
  /\ UNCHANGED <<connVars, sendVars, wireVars, reader, userVars>>

Reading(m) == Runs("receiver") /\ reader[m] = "reading"

\* Mutant: the reader goes on after its message, and reads it again.
ReadMessageAgain(m) ==
  /\ Reading(m)
  /\ recvStream[m] = "complete"
  /\ Payload[m] = "fine"
  /\ Emit(MessageEvent(m))
  /\ UNCHANGED <<connVars, sendVars, wireVars, loop, reader, userVars>>

\* read_to_end gives the whole message, decoding it may panic.
ReadMessage(m) ==
  /\ Reading(m)
  /\ recvStream[m] = "complete"
  /\ Payload[m] # "oversized"
  /\ \/ /\ Payload[m] = "undecodable"
        /\ reader' = [reader EXCEPT ![m] = "panicked"]
        /\ UNCHANGED events
     \/ /\ Payload[m] # "undecodable"
        /\ reader' = [reader EXCEPT ![m] = "done"]
        /\ Emit(MessageEvent(m))
  /\ UNCHANGED <<connVars, sendVars, wireVars, loop, userVars>>

\* More than one gigabyte: ReadToEndError::TooLong panics, and dropping the
\* unfinished stream tells the sender to stop if the connection still stands.
ReadTooLong(m) ==
  /\ Reading(m)
  /\ Payload[m] = "oversized"
  /\ reader' = [reader EXCEPT ![m] =
                  IF conn["receiver"] = "open" THEN "stopping" ELSE "panicked"]
  /\ UNCHANGED <<connVars, sendVars, wireVars, loop, events, userVars>>

\* The connection is lost in the middle of a message.
ReadFails(m) ==
  /\ Reading(m)
  /\ recvStream[m] = "partial"
  /\ Lost("receiver")
  /\ reader' = [reader EXCEPT ![m] =
                  IF PanicsOn(conn["receiver"]) THEN "panicked" ELSE "done"]
  /\ Emit(ToEvent(conn["receiver"]))
  /\ UNCHANGED <<connVars, sendVars, wireVars, loop, userVars>>

\* The receiving user's object is dropped; the loop's clone of the connection
\* keeps the connection itself as it is.
DropReceiver ==
  /\ Alive("receiver")
  /\ listening
  /\ listening' = FALSE
  /\ UNCHANGED <<connVars, sendVars, wireVars, recvVars>>

------------------------------------------------------------------------------
(* The two ends of the connection.                                         *)

\* disconnect(): Connection::close.  If the connection is already lost, which
\* of the two errors later awaits will see is left open.
Disconnect(e) ==
  /\ Alive(e)
  /\ \E err \in {"LocallyClosed"} \cup (IF Lost(e) THEN {conn[e]} ELSE {}) :
       conn' = [conn EXCEPT ![e] = err]
  /\ UNCHANGED <<blocked, sendVars, wireVars, recvVars, userVars>>

\* disconnect() has also spawned a task, which blocks its thread of the runtime
\* at a barrier until the user comes.  It gets there when the endpoint has no
\* connection left, so for the last thread to be blocked this one is over; on
\* a server the task may be that of another client's disconnection.
Barrier(e) ==
  /\ e \in MayBlock
  /\ Lost(e)
  /\ blocked' = [blocked EXCEPT ![e] = ~@]
  /\ UNCHANGED <<conn, sendVars, wireVars, recvVars, userVars>>

\* What Quinn finds out about the other end (external).  A peer that has
\* forgotten the connection answers with a stateless reset; silence ends in a
\* timeout; a transport failure closes the connection at the other end.
Notices(e, error) ==
  CASE error = "ApplicationClosed" -> conn[Peer(e)] = "LocallyClosed"
    [] error = "ConnectionClosed"  -> conn[Peer(e)] = "TransportError"
    [] error = "Reset"             -> conn[Peer(e)] # "open"
    [] error \in {"TimedOut", "TransportError"} -> TRUE
    [] OTHER -> FALSE

LoseConnection(e, error) ==
  /\ conn[e] = "open"
  /\ Notices(e, error)
  /\ conn' = [conn EXCEPT ![e] = error]
  /\ UNCHANGED <<blocked, sendVars, wireVars, recvVars, userVars>>

\* The process of e ends, and every task and thread of it.
Die(e) ==
  /\ Alive(e)
  /\ conn' = [conn EXCEPT ![e] = "dead"]
  /\ blocked' = [blocked EXCEPT ![e] = FALSE]
  /\ UNCHANGED <<sendVars, wireVars, recvVars, userVars>>

------------------------------------------------------------------------------
(* Quinn between the two ends (external): frames already sent may arrive   *)
(* after the sender has closed, nothing arrives at an end that has.        *)

FirstFrameArrives(m) ==
  /\ conn["receiver"] = "open"
  /\ sendStream[m] # "none"
  /\ recvStream[m] = "none"
  /\ recvStream' = [recvStream EXCEPT ![m] = "partial"]
  /\ UNCHANGED <<connVars, sendVars, feedback, recvVars, userVars>>

LastFrameArrives(m) ==
  /\ conn["receiver"] = "open"
  /\ sendStream[m] = "finished"
  /\ recvStream[m] = "partial"
  /\ recvStream' = [recvStream EXCEPT ![m] = "complete"]
  /\ UNCHANGED <<connVars, sendVars, feedback, recvVars, userVars>>

\* The acknowledgement of every byte, or the STOP_SENDING frame.
FeedbackArrives(m) ==
  /\ conn["sender"] = "open"
  /\ feedback[m] = "none"
  /\ \/ recvStream[m] = "complete" /\ feedback' = [feedback EXCEPT ![m] = "acked"]
     \/ reader[m] = "stopping" /\ feedback' = [feedback EXCEPT ![m] = "stopped"]
  /\ UNCHANGED <<connVars, sendVars, recvStream, recvVars, userVars>>

SenderTask(m)   == SerializeFails(m) \/ OpenUni(m) \/ WriteAll(m) \/ AwaitStopped(m)
ReceiverTask(m) == AcceptUni(m) \/ ReadMessage(m) \/ ReadTooLong(m) \/ ReadFails(m)
Network(m)      == FirstFrameArrives(m) \/ LastFrameArrives(m) \/ FeedbackArrives(m)

Next ==
  \/ \E m \in Message : Send(m) \/ SenderTask(m) \/ ReceiverTask(m) \/ Network(m)
  \/ AcceptUniFails
  \/ DropReceiver
  \/ \E e \in Side : Disconnect(e) \/ Barrier(e) \/ Die(e)
  \/ \E e \in Side, error \in ConnectionError : LoseConnection(e, error)

Spec == Init /\ [][Next]_vars

(***************************************************************************)
(* Fairness.  A runtime that is not blocked keeps polling its ready tasks: *)
(* Runs is a guard of each.  Quinn keeps retransmitting while both ends    *)
(* stand, and an end whose peer is gone finds out, by its idle timer at    *)
(* the latest: an end that still stands is not blocked.  The users owe     *)
(* nothing, so a runtime may stay blocked for ever.                        *)
(***************************************************************************)
Fairness ==
  /\ \A m \in Message :
       /\ WF_vars(SenderTask(m))
       /\ WF_vars(ReceiverTask(m))
       /\ WF_vars(FirstFrameArrives(m))
       /\ WF_vars(LastFrameArrives(m))
       /\ WF_vars(FeedbackArrives(m))
  /\ WF_vars(AcceptUniFails)
  /\ \A e \in Side :
       WF_vars(conn[Peer(e)] # "open"
                 /\ \E error \in ConnectionError : LoseConnection(e, error))

FairSpec == Spec /\ Fairness

------------------------------------------------------------------------------
(* Properties.                                                             *)

\* A message is put in the receiving user's channel at most once, however the
\* reader tasks interleave with the loss of the connection.
DeliveredOnce ==
  \A i, j \in 1 .. Len(events) :
    events[i].kind = "Message" /\ events[i] = events[j] => i = j

\* A handle says Sent only of a message that the other end has entirely, or
\* has itself refused (stopped): send_message waits for stopped() for this.
SentWasReceived ==
  \A m \in Message :
    result[m] = "Sent" => recvStream[m] = "complete" \/ reader[m] = "stopping"

\* A failed handle names a culprit that exists: WeClosed only if this side
\* called disconnect, PeerClosedOrDied only if the connection is really gone,
\* Error only for a refused message or a transport failure.  The message it
\* speaks of may have arrived, but never with its acknowledgement: a send whose
\* success this side has heard of is not failed by a later close or loss.
BlameIsFounded ==
  \A m \in Message :
    /\ result[m] = "WeClosed" => conn["sender"] \in {"LocallyClosed", "dead"}
    /\ result[m] = "PeerClosedOrDied" => conn["sender"] # "open"
    /\ result[m] = "Error" => \/ feedback[m] = "stopped"
                              \/ conn["sender"] \in {"TransportError", "LocallyClosed", "dead"}
    /\ result[m] \in SendingResult \ {"Sent"} => feedback[m] # "acked"

\* The loop and every interrupted reader may each announce a disconnection;
\* none does while the connection stands, and they never contradict each other.
DisconnectionIsReal ==
  \A i \in 1 .. Len(events) : events[i].kind = "Disconnected" =>
    /\ conn["receiver"] # "open"
    /\ events[i].value = "Timeout"
         => conn["receiver"] \in {"TimedOut", "LocallyClosed", "dead"}
    /\ \A j \in 1 .. Len(events) :
         events[j].kind = "Disconnected" => events[j] = events[i]

\* A message that cannot be converted takes only its own task down: the accept
\* loop ends with the connection and never before, so the others still arrive.
LoopOutlivesReaders ==
  loop # "running" => conn["receiver"] # "open"

\* The last thread of a runtime goes to its barrier only when the connections
\* of the endpoint are over.
BlockedIsOver == \A e \in Side : blocked[e] => Lost(e)

\* How the halves of a stream, its tasks and its handle keep in step.
StreamsInStep ==
  \A m \in Message :
    /\ task[m] = "write_all" => sendStream[m] = "open"
    /\ task[m] = "stopped" => sendStream[m] = "finished"
    /\ task[m] \in {"idle", "open_uni", "panicked"} => sendStream[m] = "none"
    /\ result[m] # "none" <=> task[m] = "done"
    /\ recvStream[m] # "none" => sendStream[m] # "none"
    /\ recvStream[m] = "complete" => sendStream[m] = "finished"
    /\ reader[m] # "none" => recvStream[m] # "none"
    /\ feedback[m] = "acked" => recvStream[m] = "complete"
    /\ feedback[m] = "stopped" => reader[m] = "stopping"
    /\ result[m] = "Sent" => feedback[m] # "none"

\* What an event in the channel says of the reader or the connection.
EventsInStep ==
  \A i \in 1 .. Len(events) :
    /\ events[i].kind = "Message" =>
         /\ reader[events[i].value] = "done"
         /\ recvStream[events[i].value] = "complete"
    /\ events[i] = DisconnectedEvent("None") =>
         conn["receiver"] \in {"ApplicationClosed", "ConnectionClosed", "LocallyClosed", "dead"}
    /\ events[i] = DisconnectedEvent("Timeout") =>
         conn["receiver"] \in {"TimedOut", "LocallyClosed", "dead"}

\* No stream is left open that nobody writes to, while both ends stand and the
\* receiver has not refused it.
OpenIsWritten ==
  \A m \in Message :
    sendStream[m] = "open" /\ conn["sender"] = "open" /\ feedback[m] # "stopped"
      => task[m] = "write_all"

Announced(ev) == \E i \in 1 .. Len(events) : events[i] = ev

\* What has arrived, and that the peer is gone, is not lost on its way to a
\* user who listens: somebody still has it in hand, or it is in the channel.
NewsIsKept ==
  /\ \A m \in Message :
       /\ Acceptable(m) => loop = "running"
       /\ reader[m] = "stopping" => Payload[m] = "oversized"
       /\ listening /\ Payload[m] = "fine" /\ reader[m] \notin {"none", "reading"}
            => \/ Announced(MessageEvent(m))
               \/ recvStream[m] = "partial" /\ conn["receiver"] # "open"
  /\ listening /\ conn["receiver"] \in {"ApplicationClosed", "ConnectionClosed", "TimedOut"}
       => loop = "running" \/ \E d \in {"None", "Timeout"} : Announced(DisconnectedEvent(d))

\* The inductive invariant: the properties above lean on one another through
\* the state of each stream and the meaning of each event.
LinkInv ==
  /\ TypeOK
  /\ BlockedIsOver
  /\ StreamsInStep
  /\ EventsInStep
  /\ DeliveredOnce
  /\ DisconnectionIsReal
  /\ BlameIsFounded
  /\ LoopOutlivesReaders
  /\ OpenIsWritten
  /\ NewsIsKept

\* A step is due that moves the message of an open stream: its task's, Quinn's,
\* the loop's or its reader's.
StreamIsDue(m) ==
  \/ task[m] = "write_all"
  \/ task[m] = "stopped" /\ feedback[m] # "none"
  \/ sendStream[m] # "none" /\ recvStream[m] = "none"
  \/ sendStream[m] = "finished" /\ recvStream[m] = "partial"
  \/ (recvStream[m] = "complete" \/ reader[m] = "stopping") /\ feedback[m] = "none"
  \/ Acceptable(m) /\ loop = "running"
  \/ Reading(m) /\ (recvStream[m] = "complete" \/ Payload[m] = "oversized")

\* No deadlock while both ends stand: the task of an unresolved handle has a
\* stream on which a step is due, or may have one now, or waits for that of
\* another message, which will be read, whatever becomes of its contents.
SendCanGoOn ==
  (\A e \in Side : conn[e] = "open") =>
    \A m \in Message : GetState(m) = "StillBeingSent" =>
      IF task[m] # "open_uni" THEN StreamIsDue(m)
      ELSE \/ Payload[m] = "unserializable"
           \/ Cardinality(OpenStreams) < MaxStreams
           \/ \E n \in OpenStreams : StreamIsDue(n)

\* No news gets stuck: while the user listens on a runtime that is not blocked,
\* a message that the sender calls sent is in the channel, or the loop or its
\* reader can go on with it, however the connection ended; and the loop outlives
\* a loss that is not told yet.
NewsCanGoOn ==
  listening /\ Runs("receiver") =>
    /\ \A m \in Message : result[m] = "Sent" /\ Payload[m] = "fine" =>
         \/ Announced(MessageEvent(m))
         \/ Acceptable(m) /\ loop = "running"
         \/ Reading(m) /\ recvStream[m] = "complete"
    /\ conn["receiver"] \in {"ApplicationClosed", "ConnectionClosed", "TimedOut"} =>
         \/ \E d \in {"None", "Timeout"} : Announced(DisconnectedEvent(d))
         \/ loop = "running"

\* Once an end has closed the connection itself, nobody else is blamed for it,
\* whatever the other end does then: no further disconnection is announced,
\* "Our own side have closed the connection, let's just wrap up as expected.",
\* and a message is WeClosed, if it was not sent before.
QuietAfterOurClose ==
  [][/\ conn["receiver"] = "LocallyClosed" /\ Len(events') > Len(events)
          => events'[Len(events')].kind = "Message"
     /\ conn["sender"] = "LocallyClosed" =>
          \A m \in Message : result'[m] # result[m] => result'[m] \in {"WeClosed", "Sent"}]_vars

\* Every handle is resolved in the end, by the send, its failure, or the end
\* of the sending process: no send_message waits for ever, not even when there
\* are more messages than streams.  But it waits for a runtime that barriers
\* block, as long as they do: a message that is sent meanwhile has a task that
\* is not polled.
SendResolves ==
  \A m \in Message :
    GetState(m) = "StillBeingSent" ~> GetState(m) # "StillBeingSent" \/ blocked["sender"]

\* A message whose handle says Sent gets to the receiving user's channel, even
\* if the connection is lost at once, unless that user is gone, or blocks the
\* runtime and does not come to the barrier.
SentIsDelivered ==
  \A m \in Message :
    result[m] = "Sent" /\ Payload[m] = "fine"
      ~> Announced(MessageEvent(m)) \/ ~listening \/ ~Runs("receiver")

\* A connection closed by the peer or timed out is announced to the user, who
\* otherwise would wait for messages for ever, unless the user left first or
\* blocks the runtime.
LossIsReported ==
  conn["receiver"] \in {"ApplicationClosed", "ConnectionClosed", "TimedOut"}
    ~> \/ \E d \in {"None", "Timeout"} : Announced(DisconnectedEvent(d))
       \/ ~listening
       \/ conn["receiver"] = "LocallyClosed"
       \/ ~Runs("receiver")

\* What the two users can tell of the link.
Handles   == [m \in Message |-> GetState(m)]
Arrived   == {m \in Message : recvStream[m] = "complete" \/ reader[m] = "stopping"}
Delivered == {m \in Message : Announced(MessageEvent(m))}

\* The link keeps the promise of Messaging.
Promise == INSTANCE Messaging
  WITH handle <- Handles, arrived <- Arrived, delivered <- Delivered

\* Every behaviour of the link is one of Messaging: handles are resolved once
\* and truthfully, and only entire messages are delivered.
ImplementsMessaging == Promise!Spec

==============================================================================
