---------------------------- MODULE ClonelessSending ----------------------------
(***************************************************************************)
(* Content that is sent without a clone, cloneless.rs, as the cloneless    *)
(* example uses it: the program has its data in an Arc and puts a view of  *)
(* it, a clone of the Arc, into a message.  The message is serialized by   *)
(* its send task, some time after the call: until then the program may go  *)
(* on to write to its data, and until the message is dropped it has to     *)
(* share the Arc with it.                                                  *)
(*                                                                         *)
(* Rust lets a program write to what is in an Arc when nobody shares it,   *)
(* and makes it write to a copy of its own otherwise (Arc::make_mut); data *)
(* behind interior mutability may be written to at any time.               *)
(***************************************************************************)
EXTENDS Integers

CONSTANTS
  Message,
  Allocation,     \* where an Arc may put the data; a bound on its copies
  NoAllocation,
  MaxVersion,     \* a bound on the writes, which number the versions
  NotYet

ASSUME ClonelessAssumption ==
  /\ NoAllocation \notin Allocation
  /\ MaxVersion \in Nat
  /\ NotYet \notin Nat

VARIABLES
  networking,  \* the client's networking, as far as messages tell it apart
  panicked,    \* has the connecting task panicked?
  interior,    \* has the data interior mutability?  Never changes
  arc,         \* the allocation that the program's Arc points to
  content,     \* content[a]: the version of the data in each allocation
  variant,     \* variant[m]: "Owned" or "View", once m is sent
  stage,       \* stage[m]: how far m has come
  hold,        \* hold[m]: the allocation that m keeps alive
  asked,       \* asked[m]: what the data was when send was called
  raw,         \* raw[m]: what was serialized
  received     \* received[m]: what the receiver owns

programVars == <<interior, arc, content>>
messageVars == <<variant, stage, hold, asked, raw, received>>
vars == <<networking, panicked, programVars, messageVars>>

Version == 0 .. MaxVersion

TypeOK ==
  /\ networking \in {"Connecting", "Connected", "Disconnected"}
  /\ panicked \in BOOLEAN
  /\ interior \in BOOLEAN
  /\ arc \in Allocation
  /\ content \in [Allocation -> Version]
  /\ variant \in [Message -> {"none", "Owned", "View"}]
  /\ stage \in [Message -> {"none", "pending", "spawned", "serialized", "resolved", "gone"}]
  /\ hold \in [Message -> Allocation \cup {NoAllocation}]
  /\ asked \in [Message -> Version]
  /\ raw \in [Message -> Version \cup {NotYet}]
  /\ received \in [Message -> Version \cup {NotYet}]

Init ==
  /\ networking = "Connecting"
  /\ panicked = FALSE
  /\ interior \in BOOLEAN
  /\ arc \in Allocation
  /\ content = [a \in Allocation |-> 0]
  /\ variant = [m \in Message |-> "none"]
  /\ stage = [m \in Message |-> "none"]
  /\ hold = [m \in Message |-> NoAllocation]
  /\ asked = [m \in Message |-> 0]
  /\ raw = [m \in Message |-> NotYet]
  /\ received = [m \in Message |-> NotYet]

------------------------------------------------------------------------------
(* The program and its Arc (external: the rules of Rust).                  *)

Shared == \E m \in Message : hold[m] = arc

\* Arc::make_mut: in place if the Arc is not shared, else in a copy.
Write ==
  /\ content[arc] < MaxVersion
  /\ \E a \in Allocation :
       /\ IF Shared THEN a # arc /\ (\A m \in Message : hold[m] # a) ELSE a = arc
       /\ arc' = a
       /\ content' = [content EXCEPT ![a] = content[arc] + 1]
  /\ UNCHANGED <<networking, panicked, interior, messageVars>>

\* Interior mutability: in place, whoever looks.
WriteInside ==
  /\ interior
  /\ content[arc] < MaxVersion
  /\ content' = [content EXCEPT ![arc] = @ + 1]
  /\ UNCHANGED <<networking, panicked, interior, arc, messageVars>>

------------------------------------------------------------------------------
(* The client.                                                             *)

\* What a message with a view shares, and one with the data itself does not.
HoldOf(v) == IF v = "View" THEN arc ELSE NoAllocation

FirstStage ==
  CASE networking = "Connecting"   -> "pending"
    [] networking = "Connected"    -> "spawned"
    [] networking = "Disconnected" -> "gone"

\* send_message_to_server: the message waits, or goes to a task, or is dropped.
Send(m, v) ==
  /\ stage[m] = "none"
  /\ variant' = [variant EXCEPT ![m] = v]
  /\ asked' = [asked EXCEPT ![m] = content[arc]]
  /\ stage' = [stage EXCEPT ![m] = FirstStage]
  /\ hold' = [hold EXCEPT ![m] =
                IF networking = "Disconnected" THEN NoAllocation ELSE HoldOf(v)]
  /\ UNCHANGED <<networking, panicked, programVars, raw, received>>

\* Mutant: the vector of pending messages is not handed over.
ConnectKeepingPending ==
  /\ networking = "Connecting"
  /\ ~panicked
  /\ networking' = "Connected"
  /\ UNCHANGED <<panicked, programVars, messageVars>>

\* A call finds that the client is connected: a task for each pending message.
Connect ==
  /\ networking = "Connecting"
  /\ ~panicked
  /\ networking' = "Connected"
  /\ stage' = [m \in Message |-> IF stage[m] = "pending" THEN "spawned" ELSE stage[m]]
  /\ UNCHANGED <<panicked, programVars, variant, hold, asked, raw, received>>

\* Mutant: the pending messages are kept in the vector.
DropPendingKept == UNCHANGED <<stage, hold>>

\* The vector of pending messages is dropped, or emptied.
DropPending ==
  /\ stage' = [m \in Message |-> IF stage[m] = "pending" THEN "gone" ELSE stage[m]]
  /\ hold' = [m \in Message |-> IF stage[m] = "pending" THEN NoAllocation ELSE hold[m]]

\* A call finds that the client could not connect.
NeverConnects ==
  /\ networking = "Connecting"
  /\ ~panicked
  /\ networking' = "Disconnected"
  /\ DropPending
  /\ UNCHANGED <<panicked, programVars, variant, asked, raw, received>>

\* disconnect, or the drop of the client.
Disconnect ==
  /\ networking # "Disconnected"
  /\ networking' = "Disconnected"
  /\ DropPending
  /\ UNCHANGED <<panicked, programVars, variant, asked, raw, received>>

\* The connecting task panics, and the client goes on to be connecting.
ConnectingPanics ==
  /\ networking = "Connecting"
  /\ ~panicked
  /\ panicked' = TRUE
  /\ UNCHANGED <<networking, programVars, messageVars>>

------------------------------------------------------------------------------
(* The send tasks and the receiver.                                        *)

\* Mutant: the data is looked up where the program has it now.
SerializeCurrent(m) ==
  /\ stage[m] = "spawned"
  /\ stage' = [stage EXCEPT ![m] = "serialized"]
  /\ raw' = [raw EXCEPT ![m] = IF variant[m] = "View" THEN content[arc] ELSE asked[m]]
  /\ UNCHANGED <<networking, panicked, programVars, variant, hold, asked, received>>

\* to_vec(message), with the Serialize of ClonelessSending: what is owned has
\* not changed since the call, a view is accessed now.
Serialize(m) ==
  /\ stage[m] = "spawned"
  /\ stage' = [stage EXCEPT ![m] = "serialized"]
  /\ raw' = [raw EXCEPT ![m] = IF variant[m] = "View" THEN content[hold[m]] ELSE asked[m]]
  /\ UNCHANGED <<networking, panicked, programVars, variant, hold, asked, received>>

\* The unwrap of to_vec panics, which drops the message.
SerializeFails(m) ==
  /\ stage[m] = "spawned"
  /\ stage' = [stage EXCEPT ![m] = "gone"]
  /\ hold' = [hold EXCEPT ![m] = NoAllocation]
  /\ UNCHANGED <<networking, panicked, programVars, variant, asked, raw, received>>

\* The sending is over, well or not, and the handle is told.
Resolve(m) ==
  /\ stage[m] = "serialized"
  /\ stage' = [stage EXCEPT ![m] = "resolved"]
  /\ UNCHANGED <<networking, panicked, programVars, variant, hold, asked, raw, received>>

\* Then the task ends and drops the message.
TaskEnds(m) ==
  /\ stage[m] = "resolved"
  /\ stage' = [stage EXCEPT ![m] = "gone"]
  /\ hold' = [hold EXCEPT ![m] = NoAllocation]
  /\ UNCHANGED <<networking, panicked, programVars, variant, asked, raw, received>>

\* Deserialize makes an Owned of whatever was sent, into_owned unwraps it; when
\* the bytes arrive, and whether they do, is MessageLink's.
Receive(m) ==
  /\ raw[m] # NotYet
  /\ received[m] = NotYet
  /\ received' = [received EXCEPT ![m] = raw[m]]
  /\ UNCHANGED <<networking, panicked, programVars, variant, stage, hold, asked, raw>>

SendTask(m) == Serialize(m) \/ SerializeFails(m) \/ Resolve(m) \/ TaskEnds(m)

Next ==
  \/ Write \/ WriteInside
  \/ Connect \/ NeverConnects \/ Disconnect \/ ConnectingPanics
  \/ \E m \in Message :
       \/ \E v \in {"Owned", "View"} : Send(m, v)
       \/ SendTask(m) \/ Receive(m)

Spec == Init /\ [][Next]_vars

(***************************************************************************)
(* Fairness.  The runtime polls its tasks, and a send task comes to its    *)
(* end: SendResolves of MessageLink, with its exception of a blocked       *)
(* runtime.  The runtime of a client is blocked by no disconnection but    *)
(* its own, after which it spawns no task, and before the barrier the      *)
(* endpoint has to drain, while the tasks that are left already have the   *)
(* error of the closed connection.  The connecting is answered and the     *)
(* program looks, in the loop of the example.                              *)
(***************************************************************************)
Fairness ==
  /\ \A m \in Message : WF_vars(SendTask(m))
  /\ WF_vars(Connect \/ NeverConnects)

FairSpec == Spec /\ Fairness

------------------------------------------------------------------------------
(* Properties.                                                             *)

\* What is received is what was asked to be sent, however late the view was
\* serialized and whatever the program wrote meanwhile; only of data behind
\* interior mutability it may be a later version, never an older one.
ReceivedIsFaithful ==
  \A m \in Message : received[m] # NotYet =>
    \/ received[m] = asked[m]
    \/ interior /\ variant[m] = "View" /\ received[m] \in asked[m] .. content[arc]

\* A message on its way with a view holds an Arc of which the content is no
\* older than the call, no newer than the program's, and the same as at the
\* call without interior mutability.
ViewInStep(m) ==
  /\ hold[m] # NoAllocation <=>
       variant[m] = "View" /\ stage[m] \in {"pending", "spawned", "serialized", "resolved"}
  /\ hold[m] # NoAllocation =>
       /\ content[hold[m]] \in asked[m] .. content[arc]
       /\ ~interior => content[hold[m]] = asked[m]

\* What was serialized is faithful, and is what is received.
RawInStep(m) ==
  /\ raw[m] # NotYet =>
       \/ raw[m] = asked[m]
       \/ interior /\ variant[m] = "View" /\ raw[m] \in asked[m] .. content[arc]
  /\ received[m] # NotYet => received[m] = raw[m]
  /\ stage[m] \in {"none", "pending", "spawned"} => raw[m] = NotYet

\* A message waits only for a client that is still connecting.
PendingInStep == \A m \in Message : stage[m] = "pending" => networking = "Connecting"

\* The inductive invariant.
ClonelessInv ==
  /\ TypeOK
  /\ \A m \in Message : ViewInStep(m) /\ RawInStep(m)
  /\ PendingInStep

\* An Arc that is shared is never forgotten: a send task has it, which has a
\* step left that lets go of it, or the pending messages of a client that is
\* still connecting, which the end of the connecting hands over or drops.
ArcCanComeBack ==
  \A m \in Message : hold[m] # NoAllocation =>
    \/ stage[m] \in {"spawned", "serialized", "resolved"}
    \/ stage[m] = "pending" /\ networking = "Connecting"

\* What a message that can still be received would be received as, if it were
\* serialized now.
Travelling(m) ==
  IF received[m] # NotYet THEN NotYet
  ELSE IF raw[m] # NotYet THEN raw[m]
  ELSE IF stage[m] \notin {"pending", "spawned"} THEN NotYet
  ELSE IF variant[m] = "View" THEN content[hold[m]]
  ELSE asked[m]

\* Sending a view of shared data keeps the promise of CopySending.
Copying == INSTANCE CopySending WITH
             data <- content[arc],
             sent <- {m \in Message : stage[m] # "none"},
             copy <- [m \in Message |-> Travelling(m)]

\* Nobody can tell a shared Arc from a copy made by the call, however late the
\* view is serialized, and whatever the program writes meanwhile: every
\* behaviour is one of CopySending.
SharingIsCopying == Copying!Spec

\* A message lets go of the program's Arc at last, whether it was sent, lost,
\* dropped with the client or not serializable, unless it waits for a
\* connecting task that has panicked.
ArcComesBack ==
  \A m \in Message :
    hold[m] # NoAllocation ~>
      hold[m] = NoAllocation \/ (panicked /\ stage[m] = "pending")

=================================================================================
