------------------------------ MODULE Messaging ------------------------------
(***************************************************************************)
(* What one direction of a warqueen connection promises to the two users,  *)
(* whatever happens underneath: the sender holds one handle per message,   *)
(* the handle is resolved at most once and for good, "Sent" is said only   *)
(* of a message that reached the other end, and only such a message is     *)
(* given to the receiving user.  Nothing is promised about order, nor      *)
(* about a message whose handle says that it was not sent.                 *)
(***************************************************************************)
CONSTANT Message      \* the messages the sending user may send

SendingResult == {"Sent", "WeClosed", "PeerClosedOrDied", "Error"}

VARIABLES
  handle,     \* handle[m]: what get_state would answer about m
  arrived,    \* messages that the other end has got hold of
  delivered   \* messages made available to the receiving user

vars == <<handle, arrived, delivered>>

HandleState == {"Unsent", "StillBeingSent", "Gone"} \cup SendingResult

Init ==
  /\ handle = [m \in Message |-> "Unsent"]
  /\ arrived = {}
  /\ delivered = {}

Send(m) ==
  /\ handle[m] = "Unsent"
  /\ handle' = [handle EXCEPT ![m] = "StillBeingSent"]
  /\ UNCHANGED <<arrived, delivered>>

\* Bytes may still be under way when the handle is already resolved.
Arrive(m) ==
  /\ handle[m] # "Unsent"
  /\ arrived' = arrived \cup {m}
  /\ UNCHANGED <<handle, delivered>>

Deliver(m) ==
  /\ m \in arrived
  /\ delivered' = delivered \cup {m}
  /\ UNCHANGED <<handle, arrived>>

Resolve(m, r) ==
  /\ handle[m] = "StillBeingSent"
  /\ r = "Sent" => m \in arrived
  /\ handle' = [handle EXCEPT ![m] = r]
  /\ UNCHANGED <<arrived, delivered>>

\* The sending process ends: its unresolved handles end with it.
SenderExits ==
  /\ handle' = [m \in Message |->
                  IF handle[m] = "StillBeingSent" THEN "Gone" ELSE handle[m]]
  /\ UNCHANGED <<arrived, delivered>>

Next ==
  \/ \E m \in Message : Send(m) \/ Arrive(m) \/ Deliver(m)
  \/ \E m \in Message, r \in SendingResult : Resolve(m, r)
  \/ SenderExits

Spec == Init /\ [][Next]_vars

==============================================================================
