--------------------------- MODULE ClientNetworking ---------------------------
(***************************************************************************)
(* The client's object, client.rs: an enum that goes from Connecting to    *)
(* Connected or to ThePeerDidntEvenConnect when a user's call finds the    *)
(* answer of the connecting task in a oneshot channel, and to Us when the  *)
(* user disconnects.  Messages sent before the connection wait in a        *)
(* vector.                                                                 *)
(*                                                                         *)
(* The user makes one call at a time; the connecting task, the receive     *)
(* tasks and the send tasks run on the runtime's threads meanwhile.  Of    *)
(* the connection this module keeps what the client's object tells apart,  *)
(* MessageLink has the details.                                            *)
(***************************************************************************)
EXTENDS Naturals, Sequences, ConnectionErrors

CONSTANTS
  Message,         \* the messages the user may send to the server
  ServerMessage    \* the messages that may come from the server

VARIABLES
  networking,  \* variant of ClientNetworkingEnum and WhoClosed, or "Dropped"
  announced,   \* the _event_already_polled flag of that variant, if it has one
  pending,     \* pending_sent_messages
  connecting,  \* the connecting task: "trying", "done" or "panicked"
  slot,        \* the oneshot channel from that task: "empty", its value, "closed"
  conn,        \* "none", "open", or the error of the connection
  loop,        \* the accept_uni loop: "none", "running" or "ended"
  arrived,     \* server messages whose reader tasks are through
  inbox,       \* what waits in the mpsc channel of events
  polled,      \* every event that poll_event_from_server has returned
  called,      \* every message that send_message_to_server was called with
  spawned,     \* the messages handed to a send task, in order
  handle       \* handle[m]: what its SendingStateHandle answers

enumVars == <<networking, announced, pending>>
taskVars == <<connecting, slot>>
connVars == <<conn, loop, arrived>>
userVars == <<polled, called>>
sendVars == <<spawned, handle>>
vars == <<enumVars, taskVars, connVars, inbox, userVars, sendVars>>

Lost == conn \in ConnectionError

ConnectedEvent == [kind |-> "Connected", value |-> "None"]
FailedToConnectEvent == [kind |-> "FailedToConnect", value |-> "None"]
NetworkEvent == {MessageEvent(v) : v \in ServerMessage}
                  \cup {DisconnectedEvent(d) : d \in {"None", "Timeout"}}
ClientEvent == NetworkEvent \cup {ConnectedEvent, FailedToConnectEvent}

Elements(s) == {s[i] : i \in 1 .. Len(s)}

TypeOK ==
  /\ networking \in {"Connecting", "Connected", "ThePeerDidntEvenConnect", "Us", "Dropped"}
  /\ announced \in BOOLEAN
  /\ pending \in Seq(Message)
  /\ connecting \in {"trying", "done", "panicked"}
  /\ slot \in {"empty", "Connected", "Timeout", "closed"}
  /\ conn \in {"none", "open"} \cup ConnectionError
  /\ loop \in {"none", "running", "ended"}
  /\ arrived \subseteq ServerMessage
  /\ inbox \in Seq(NetworkEvent)
  /\ polled \in Seq(ClientEvent)
  /\ called \in Seq(Message)
  /\ spawned \in Seq(Message)
  /\ handle \in [Message -> {"Unsent", "StillBeingSent"} \cup SendingResult]

Init ==
  /\ networking = "Connecting"
  /\ announced = FALSE
  /\ pending = <<>>
  /\ connecting = "trying"
  /\ slot = "empty"
  /\ conn = "none"
  /\ loop = "none"
  /\ arrived = {}
  /\ inbox = <<>>
  /\ polled = <<>>
  /\ called = <<>>
  /\ spawned = <<>>
  /\ handle = [m \in Message |-> "Unsent"]

------------------------------------------------------------------------------
(* The connecting task.                                                    *)

\* The task's value, lost if the client has let go of the receiver.
Answer(value) ==
  /\ connecting = "trying"
  /\ connecting' = "done"
  /\ slot' = IF slot = "closed" THEN slot ELSE value

\* The accept loop is spawned, with its clone of the connection, in any case.
ConnectSucceeds ==
  /\ Answer("Connected")
  /\ conn' = "open"
  /\ loop' = "running"
  /\ UNCHANGED <<enumVars, arrived, inbox, userVars, sendVars>>

\* Mutant: the failure is not passed on.
ConnectTimesOutSilently ==
  /\ connecting = "trying"
  /\ connecting' = "done"
  /\ UNCHANGED <<enumVars, slot, connVars, inbox, userVars, sendVars>>

ConnectTimesOut ==
  /\ Answer("Timeout")
  /\ UNCHANGED <<enumVars, connVars, inbox, userVars, sendVars>>

\* No socket, an address Quinn refuses, or any connection error but TimedOut:
\* the task panics and drops the sender.  try_recv().ok() makes no difference
\* between that and a task that is not done.
ConnectPanics ==
  /\ connecting = "trying"
  /\ connecting' = "panicked"
  /\ UNCHANGED <<enumVars, slot, connVars, inbox, userVars, sendVars>>

------------------------------------------------------------------------------
(* connect_if_possible: what the enum and what it owns have become when a  *)
(* call that starts with it goes on.                                       *)

Answered == networking = "Connecting" /\ slot \in {"Connected", "Timeout"}

NetworkingNow ==
  IF ~Answered THEN networking
  ELSE IF slot = "Connected" THEN "Connected" ELSE "ThePeerDidntEvenConnect"

AnnouncedNow == announced /\ ~Answered

SlotNow == IF Answered THEN "closed" ELSE slot

\* Mutant: the pending messages are handed over but not taken.
PendingNowKept == pending

PendingNow == IF Answered THEN <<>> ELSE pending

\* Mutant: the pending messages are forgotten.
SpawnedNowForgetful == spawned

\* connected() hands the pending messages to send tasks, in their order.
SpawnedNow == IF Answered /\ slot = "Connected" THEN spawned \o pending ELSE spawned

\* Replacing the enum on Timeout drops the result senders with the messages:
\* the handles answer Error from then on.
Dropping(messages) ==
  [m \in Message |-> IF m \in Elements(messages) THEN "Error" ELSE handle[m]]

\* Mutant: the result senders outlive the enum's variant.
HandleNowKept == handle

HandleNow == IF Answered /\ slot = "Timeout" THEN Dropping(pending) ELSE handle

ConnectIfPossible ==
  /\ networking' = NetworkingNow
  /\ slot' = SlotNow

------------------------------------------------------------------------------
(* The user's calls.                                                       *)

\* send_message_to_server
Send(m) ==
  /\ networking # "Dropped"
  /\ m \notin Elements(called)
  /\ called' = Append(called, m)
  /\ ConnectIfPossible
  /\ announced' = AnnouncedNow
  /\ \/ /\ NetworkingNow = "Connecting"
        /\ pending' = Append(PendingNow, m)
        /\ spawned' = SpawnedNow
        /\ handle' = [HandleNow EXCEPT ![m] = "StillBeingSent"]
     \/ /\ NetworkingNow = "Connected"
        /\ pending' = PendingNow
        /\ spawned' = Append(SpawnedNow, m)
        /\ handle' = [HandleNow EXCEPT ![m] = "StillBeingSent"]
     \/ /\ NetworkingNow \in {"Us", "ThePeerDidntEvenConnect"}
        /\ pending' = PendingNow
        /\ spawned' = SpawnedNow
        /\ handle' = [HandleNow EXCEPT ![m] = IF NetworkingNow = "Us" THEN "WeClosed"
                                                ELSE "PeerClosedOrDied"]
  /\ UNCHANGED <<connecting, connVars, inbox, polled>>

\* Mutant: the flag of the Connected event is not set.
PollForgetful ==
  /\ ConnectIfPossible
  /\ announced' = AnnouncedNow
  /\ NetworkingNow = "Connected" /\ ~AnnouncedNow
  /\ polled' = Append(polled, ConnectedEvent)
  /\ pending' = PendingNow
  /\ spawned' = SpawnedNow
  /\ handle' = HandleNow
  /\ UNCHANGED <<connecting, connVars, inbox, called>>

\* Mutant: any Disconnected variant is told as a failure to connect.
PollAnyDisconnected ==
  /\ NetworkingNow \in {"ThePeerDidntEvenConnect", "Us"} /\ ~AnnouncedNow
  /\ ConnectIfPossible
  /\ announced' = TRUE
  /\ polled' = Append(polled, FailedToConnectEvent)
  /\ pending' = PendingNow
  /\ spawned' = SpawnedNow
  /\ handle' = HandleNow
  /\ UNCHANGED <<connecting, connVars, inbox, called>>

\* poll_event_from_server, when there is something to return.
Poll ==
  /\ ConnectIfPossible
  /\ announced' = TRUE
  /\ \/ /\ NetworkingNow = "Connected" /\ ~AnnouncedNow
        /\ polled' = Append(polled, ConnectedEvent)
        /\ UNCHANGED inbox
     \/ /\ NetworkingNow = "Connected" /\ AnnouncedNow
        /\ inbox # <<>>
        /\ polled' = Append(polled, Head(inbox))
        /\ inbox' = Tail(inbox)
     \/ /\ NetworkingNow = "ThePeerDidntEvenConnect" /\ ~AnnouncedNow
        /\ polled' = Append(polled, FailedToConnectEvent)
        /\ UNCHANGED inbox
  /\ pending' = PendingNow
  /\ spawned' = SpawnedNow
  /\ handle' = HandleNow
  /\ UNCHANGED <<connecting, connVars, called>>

\* disconnect while Connecting: there is no call of connect_if_possible, and
\* the connecting task is left to itself.
DisconnectWhileConnecting ==
  /\ networking = "Connecting"
  /\ networking' = "Us"
  /\ pending' = <<>>
  /\ handle' = [m \in Message |-> IF m \in Elements(pending) THEN "WeClosed" ELSE handle[m]]
  /\ slot' = "closed"
  /\ inbox' = <<>>
  /\ UNCHANGED <<announced, connecting, connVars, userVars, spawned>>

\* Mutant: the connection is not closed.
DisconnectWithoutClose ==
  /\ networking = "Connected"
  /\ networking' = "Us"
  /\ inbox' = <<>>
  /\ UNCHANGED <<announced, pending, taskVars, connVars, userVars, sendVars>>

\* disconnect while Connected: Connection::close, see MessageLink!Disconnect.
\* (What the task spawned here and the handle returned do is Disconnection's.)
DisconnectWhileConnected ==
  /\ networking = "Connected"
  /\ networking' = "Us"
  /\ conn' \in {"LocallyClosed"} \cup (IF Lost THEN {conn} ELSE {})
  /\ inbox' = <<>>
  /\ UNCHANGED <<announced, pending, taskVars, loop, arrived, userVars, sendVars>>

\* The object is dropped without disconnect; once Us or
\* ThePeerDidntEvenConnect it owns nothing any more.
Drop ==
  /\ networking \in {"Connecting", "Connected"}
  /\ networking' = "Dropped"
  /\ pending' = <<>>
  /\ handle' = Dropping(pending)
  /\ slot' = "closed"
  /\ inbox' = <<>>
  /\ UNCHANGED <<announced, connecting, connVars, userVars, spawned>>

------------------------------------------------------------------------------
(* The tasks of an established connection; see MessageLink.                *)

\* The receiver of the mpsc channel is in the Connected variant, or still in
\* the oneshot channel.
Listening ==
  \/ networking = "Connected"
  \/ networking = "Connecting" /\ slot = "Connected"

Emit(ev) == inbox' = IF Listening /\ ev # NoEvent THEN Append(inbox, ev) ELSE inbox

\* A reader task gets its message, or is interrupted by the loss.
ReaderEnds(v) ==
  /\ conn # "none"
  /\ v \notin arrived
  /\ arrived' = arrived \cup {v}
  /\ Emit(MessageEvent(v)) \/ (Lost /\ Emit(ToEvent(conn)))
  /\ UNCHANGED <<enumVars, taskVars, conn, loop, userVars, sendVars>>

LoopEnds ==
  /\ Lost
  /\ loop = "running"
  /\ loop' = "ended"
  /\ Emit(ToEvent(conn))
  /\ UNCHANGED <<enumVars, taskVars, conn, arrived, userVars, sendVars>>

\* The peer closes or dies, or the network fails (external).
LoseConnection ==
  /\ conn = "open"
  /\ conn' \in ConnectionError \ {"LocallyClosed"}
  /\ UNCHANGED <<enumVars, taskVars, loop, arrived, inbox, userVars, sendVars>>

\* A send task reports, or panics over a message it cannot convert.
SendTaskEnds(m) ==
  /\ m \in Elements(spawned)
  /\ handle[m] = "StillBeingSent"
  /\ \E r \in {"Sent", "Error"} \cup (IF Lost THEN {FromConnectionError(conn)} ELSE {}) :
       handle' = [handle EXCEPT ![m] = r]
  /\ UNCHANGED <<enumVars, taskVars, connVars, inbox, userVars, spawned>>

Connect == ConnectSucceeds \/ ConnectTimesOut \/ ConnectPanics
Disconnect == DisconnectWhileConnecting \/ DisconnectWhileConnected

Next ==
  \/ \E m \in Message : Send(m) \/ SendTaskEnds(m)
  \/ \E v \in ServerMessage : ReaderEnds(v)
  \/ Connect \/ Poll \/ Disconnect \/ Drop \/ LoopEnds \/ LoseConnection

Spec == Init /\ [][Next]_vars

(***************************************************************************)
(* Fairness.  The connecting attempt ends (Quinn gives up after its idle   *)
(* timeout), so do the loop of a lost connection and the send tasks        *)
(* (MessageLink!SendResolves: nothing but the client's own disconnect      *)
(* blocks its runtime, and no task is spawned after that), and the user    *)
(* polls in a loop as the docs of poll_event_from_server show.             *)
(***************************************************************************)
Fairness ==
  /\ WF_vars(Connect)
  /\ WF_vars(Poll)
  /\ WF_vars(LoopEnds)
  /\ \A m \in Message : WF_vars(SendTaskEnds(m))

FairSpec == Spec /\ Fairness

------------------------------------------------------------------------------
(* Properties.                                                             *)

\* The user hears first how the connecting ended, and only once: messages and
\* disconnections that came before the first poll are told after Connected,
\* and after FailedToConnect nothing is told.
EventProtocol ==
  \A i \in 1 .. Len(polled) :
    /\ i = 1 <=> polled[i] \in {ConnectedEvent, FailedToConnectEvent}
    /\ polled[i] = FailedToConnectEvent => Len(polled) = 1

\* Messages sent before and after the connection is established are handed to
\* their tasks in the order of the calls, none left behind, none twice.
CallOrderKept ==
  /\ networking \in {"Connecting", "Connected"} => called = spawned \o pending
  /\ Len(spawned) <= Len(called)
  /\ \A i \in 1 .. Len(spawned) : spawned[i] = called[i]

\* A handle that is not resolved has someone left to resolve it: the vector,
\* while the client is still connecting, or a send task.
NoOrphanHandle ==
  /\ \A m \in Elements(pending) : networking = "Connecting" /\ handle[m] = "StillBeingSent"
  /\ \A m \in Message :
       handle[m] = "StillBeingSent" => m \in Elements(pending) \cup Elements(spawned)

\* Whom a failed handle blames: us only after our disconnect, the peer only if
\* the connection was lost or never came to be.
BlameIsFounded ==
  \A m \in Message :
    /\ handle[m] = "WeClosed" => networking = "Us"
    /\ handle[m] = "PeerClosedOrDied" => Lost \/ networking = "ThePeerDidntEvenConnect"

\* How the variant of the enum, the connecting task and what the user has been
\* told keep in step.
EnumInStep ==
  /\ connecting = "trying" => /\ conn = "none"
                             /\ slot \in {"empty", "closed"}
                             /\ networking \notin {"Connected", "ThePeerDidntEvenConnect"}
  /\ conn = "LocallyClosed" => networking = "Us"
  /\ networking = "Connecting" => spawned = <<>> /\ ~announced
  /\ networking # "Connecting" => pending = <<>>
  /\ announced <=> polled # <<>>
  /\ \A i \in 1 .. Len(polled) :
       /\ networking = "Connected" => polled[i] # FailedToConnectEvent
       /\ networking = "ThePeerDidntEvenConnect" => polled[i] = FailedToConnectEvent

\* disconnect while the enum says Connecting closes nothing: a connection that
\* is established already, or will be, stays open.  But it is one that the
\* client never used: nothing of it was told to the user, nothing will be sent
\* on it, and every message the user gave is answered WeClosed.
LeftOpenIsUnused ==
  networking = "Us" /\ ~Lost =>
    /\ polled = <<>> /\ spawned = <<>>
    /\ \A m \in Message : handle[m] \in {"Unsent", "WeClosed"}

\* No handle resolves while the client says that it is connecting.
ConnectingKeepsHandles ==
  networking = "Connecting" => \A m \in Message : handle[m] \in {"Unsent", "StillBeingSent"}

\* How the events, told or waiting, the reader tasks and the connection keep in
\* step: a message comes of its one reader, a disconnection of a loss.
EachMessageOnce(events) ==
  \A i, j \in 1 .. Len(events) :
    events[i].kind = "Message" /\ events[i] = events[j] => i = j

EventsInStep ==
  /\ EachMessageOnce(polled) /\ EachMessageOnce(inbox)
  /\ \A ev \in Elements(polled) \cap Elements(inbox) : ev.kind # "Message"
  /\ \A ev \in Elements(polled) \cup Elements(inbox) :
       /\ ev.kind = "Message" => ev.value \in arrived
       /\ ev.kind = "Disconnected" => Lost

\* The answer of the connecting task is not lost before the client has seen it.
AnswerIsKept ==
  networking = "Connecting" =>
    slot \in (IF connecting = "done" THEN {"Connected", "Timeout"} ELSE {"empty"})

\* The inductive invariant of the client's object.
ClientInv ==
  /\ TypeOK
  /\ EnumInStep
  /\ EventProtocol
  /\ CallOrderKept
  /\ NoOrphanHandle
  /\ BlameIsFounded
  /\ ConnectingKeepsHandles
  /\ LeftOpenIsUnused
  /\ EventsInStep
  /\ AnswerIsKept

\* No deadlock but by a panic: a client that is connecting waits for its task or
\* for its user's next call, and a handle waits for that or for a send task.
ClientCanGoOn ==
  /\ networking = "Connecting" => connecting \in {"trying", "panicked"} \/ Answered
  /\ \A m \in Message :
       handle[m] = "StillBeingSent" => networking = "Connecting" \/ m \in Elements(spawned)

\* The client's object keeps the promise of ClientPromise, in which there is no
\* task, no channel and no vector of pending messages.
Promise == INSTANCE ClientPromise WITH
             phase  <- networking,
             lost   <- Lost,
             handed <- spawned,
             told   <- polled

\* Every behaviour of the client's object is one of the promise: each call does
\* at once, as far as the user can tell, all that the connecting task's answer
\* calls for.
ImplementsPromise == Promise!Spec

\* disconnect is final: whatever the tasks still do, the user is told nothing
\* more, no send task is started, and the client never comes back.
DisconnectIsFinal ==
  [][networking = "Us" => UNCHANGED <<networking, polled, spawned>>]_vars

\* A user who polls gets an answer about the connecting, unless the user leaves
\* before, or the connecting task panics.
ConnectingIsTold ==
  networking = "Connecting" ~>
    polled # <<>> \/ networking \in {"Us", "Dropped"} \/ connecting = "panicked"

\* Every handle resolves, of pending messages too, but for such a panic.
HandlesResolve ==
  \A m \in Message :
    handle[m] = "StillBeingSent" ~> handle[m] \in SendingResult \/ connecting = "panicked"

------------------------------------------------------------------------------
(* What the documentation says, and the code does not do.                  *)

\* CHANGELOG 0.4.0: FailedToConnect lets the client know when the connecting
\* gives up and fails, instead of never being notified.
ConnectingIsAlwaysTold ==
  networking = "Connecting" ~> polled # <<>> \/ networking \in {"Us", "Dropped"}

==============================================================================
