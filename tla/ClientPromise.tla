----------------------------- MODULE ClientPromise -----------------------------
(***************************************************************************)
(* What a client's object promises to its user, who sees the calls, the    *)
(* handles and the events, and not the connecting task, the oneshot        *)
(* channel, the pending messages, the receive tasks or their channel:      *)
(*                                                                         *)
(*   - a call finds out whether the client is connected, and then all      *)
(*     messages so far are handed over, in the order of the calls;         *)
(*   - the first event is the outcome; after a failure there is no other,  *)
(*     a message of the server's is told once at most, and a disconnection *)
(*     only if the connection is lost;                                     *)
(*   - a handle is resolved once, and blames us only once we have left,    *)
(*     and the peer only for a connection that is lost or never came;      *)
(*   - once the user has left, nothing more is handed over or told.        *)
(***************************************************************************)
EXTENDS Naturals, Sequences, ConnectionErrors

CONSTANTS
  Message,         \* the messages the user may send to the server
  ServerMessage    \* the messages that may come from the server

VARIABLES
  phase,   \* what the client knows of itself; "Us" or "Dropped" once it has left
  lost,    \* has there been a connection that is lost now?
  called,  \* the messages that the user has given, in order
  handed,  \* those of them that are on their way, in order
  told,    \* the events that the user has been told, in order
  handle   \* handle[m]: what its handle answers

vars == <<phase, lost, called, handed, told, handle>>

Elements(s) == {s[i] : i \in 1 .. Len(s)}

ConnectedEvent == [kind |-> "Connected", value |-> "None"]
FailedToConnectEvent == [kind |-> "FailedToConnect", value |-> "None"]

Init ==
  /\ phase = "Connecting"
  /\ lost = FALSE
  /\ called = <<>>
  /\ handed = <<>>
  /\ told = <<>>
  /\ handle = [m \in Message |-> "Unsent"]

\* The handles that are not resolved yet get this answer.
EndAll(r) == [m \in Message |-> IF handle[m] = "StillBeingSent" THEN r ELSE handle[m]]

\* What a call may find: the outcome, if it is not known yet.
Finds(p) ==
  /\ \/ p = phase
     \/ phase = "Connecting" /\ p \in {"Connected", "ThePeerDidntEvenConnect"}
  /\ phase' = p

\* A failure, when it is found, ends the handles.
HandlesOnceFound(p) ==
  IF p = "ThePeerDidntEvenConnect" /\ phase = "Connecting" THEN EndAll("Error") ELSE handle

FirstAnswer(p) ==
  CASE p \in {"Connecting", "Connected"}  -> "StillBeingSent"
    [] p = "Us"                           -> "WeClosed"
    [] p = "ThePeerDidntEvenConnect"      -> "PeerClosedOrDied"

Send(m) ==
  /\ phase # "Dropped"
  /\ m \notin Elements(called)
  /\ called' = Append(called, m)
  /\ \E p \in {"Connecting", "Connected", "ThePeerDidntEvenConnect", "Us"} :
       /\ Finds(p)
       /\ handed' = IF p = "Connected" THEN called' ELSE handed
       /\ handle' = [HandlesOnceFound(p) EXCEPT ![m] = FirstAnswer(p)]
  /\ UNCHANGED <<lost, told>>

Outcome(p) == IF p = "Connected" THEN ConnectedEvent ELSE FailedToConnectEvent

\* The events that may follow a connection.
News ==
  {ev \in {MessageEvent(v) : v \in ServerMessage} : ev \notin Elements(told)}
    \cup (IF lost THEN {DisconnectedEvent(d) : d \in {"None", "Timeout"}} ELSE {})

Poll ==
  /\ \E p \in {"Connected", "ThePeerDidntEvenConnect"} :
       /\ Finds(p)
       /\ handed' = IF p = "Connected" THEN called ELSE handed
       /\ handle' = HandlesOnceFound(p)
       /\ \/ told = <<>> /\ told' = <<Outcome(p)>>
          \/ /\ told # <<>> /\ p = "Connected"
             /\ \E ev \in News : told' = Append(told, ev)
  /\ UNCHANGED <<lost, called>>

\* The user leaves by disconnect, which ends the connection if the client knows
\* of one, or by dropping the client.
Leave ==
  /\ phase \in {"Connecting", "Connected"}
  /\ \/ /\ phase' = "Us"
        /\ lost' = (lost \/ phase = "Connected")
        /\ handle' = IF phase = "Connecting" THEN EndAll("WeClosed") ELSE handle
     \/ /\ phase' = "Dropped"
        /\ lost' = lost
        /\ handle' = IF phase = "Connecting" THEN EndAll("Error") ELSE handle
  /\ UNCHANGED <<called, handed, told>>

LoseConnection ==
  /\ lost' = TRUE
  /\ UNCHANGED <<phase, called, handed, told, handle>>

Resolve(m, r) ==
  /\ m \in Elements(handed)
  /\ handle[m] = "StillBeingSent"
  /\ r = "WeClosed" => phase = "Us" /\ lost
  /\ r = "PeerClosedOrDied" => lost
  /\ handle' = [handle EXCEPT ![m] = r]
  /\ UNCHANGED <<phase, lost, called, handed, told>>

Next ==
  \/ \E m \in Message : Send(m)
  \/ \E m \in Message, r \in SendingResult : Resolve(m, r)
  \/ Poll \/ Leave \/ LoseConnection

Spec == Init /\ [][Next]_vars

==============================================================================
