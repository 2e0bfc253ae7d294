------------------------------ MODULE CopySending ------------------------------
(***************************************************************************)
(* What sending without a clone promises: to the program and the receiver  *)
(* it is as if every message had taken a copy of the data with it when it  *)
(* was sent.  A copy is received once at most, unchanged, or is lost; what *)
(* the program writes afterwards goes to its own data.  Only data with     *)
(* interior mutability may show through: a write may then reach copies     *)
(* that are still under way.                                               *)
(***************************************************************************)
EXTENDS Naturals

CONSTANTS
  Message,
  NotYet       \* stands for a copy that is not under way, or not received

VARIABLES
  interior,    \* has the data interior mutability?  Never changes
  data,        \* the version of the program's data
  sent,        \* the messages that have been sent
  copy,        \* copy[m]: the version under way with m
  received     \* received[m]: the version that the receiver owns

vars == <<interior, data, sent, copy, received>>

Init ==
  /\ interior \in BOOLEAN
  /\ data = 0
  /\ sent = {}
  /\ copy = [m \in Message |-> NotYet]
  /\ received = [m \in Message |-> NotYet]

Write ==
  /\ data' = data + 1
  /\ UNCHANGED <<interior, sent, copy, received>>

WriteThrough ==
  /\ interior
  /\ data' = data + 1
  /\ \E reached \in SUBSET {m \in Message : copy[m] # NotYet} :
       copy' = [m \in Message |-> IF m \in reached THEN data' ELSE copy[m]]
  /\ UNCHANGED <<interior, sent, received>>

\* A message goes on its way with a copy, or nowhere.
Send(m) ==
  /\ m \notin sent
  /\ sent' = sent \cup {m}
  /\ copy' \in {[copy EXCEPT ![m] = data], copy}
  /\ UNCHANGED <<interior, data, received>>

Lose ==
  /\ \E gone \in SUBSET Message :
       copy' = [m \in Message |-> IF m \in gone THEN NotYet ELSE copy[m]]
  /\ UNCHANGED <<interior, data, sent, received>>

Receive(m) ==
  /\ copy[m] # NotYet
  /\ received[m] = NotYet
  /\ received' = [received EXCEPT ![m] = copy[m]]
  /\ copy' = [copy EXCEPT ![m] = NotYet]
  /\ UNCHANGED <<interior, data, sent>>

Next ==
  \/ Write \/ WriteThrough \/ Lose
  \/ \E m \in Message : Send(m) \/ Receive(m)

Spec == Init /\ [][Next]_vars

==============================================================================
