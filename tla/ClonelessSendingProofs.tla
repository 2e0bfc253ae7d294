------------------------- MODULE ClonelessSendingProofs -------------------------
(***************************************************************************)
(* Proofs about ClonelessSending, for any number of messages, of writes    *)
(* and of copies, with interior mutability and without.                    *)
(***************************************************************************)
EXTENDS ClonelessSending, TLAPS

USE ClonelessAssumption

\* Every step keeps the types.
LEMMA TypeStep ==
  ASSUME ClonelessInv, [Next]_vars
  PROVE  TypeOK'
<1> USE DEF TypeOK, Version, messageVars, programVars
<1>0. TypeOK
  BY DEF ClonelessInv
<1>1. CASE Write
  <2>1. content[arc] + 1 \in Version
    BY <1>0, <1>1 DEF Write
  <2>2. QED
    BY <1>0, <1>1, <2>1 DEF Write
<1>2. CASE WriteInside
  <2>1. content[arc] + 1 \in Version
    BY <1>0, <1>2 DEF WriteInside
  <2>2. QED
    BY <1>0, <1>2, <2>1 DEF WriteInside
<1>3. ASSUME NEW m \in Message, NEW v \in {"Owned", "View"}, Send(m, v)
      PROVE  TypeOK'
  <2>1. FirstStage \in {"pending", "spawned", "gone"}
    BY <1>0 DEF FirstStage
  <2>2. HoldOf(v) \in Allocation \cup {NoAllocation}
    BY <1>0 DEF HoldOf
  <2>3. QED
    BY <1>0, <1>3, <2>1, <2>2 DEF Send
<1>4. CASE Connect \/ NeverConnects \/ Disconnect \/ ConnectingPanics
  BY <1>0, <1>4 DEF Connect, NeverConnects, Disconnect, ConnectingPanics, DropPending
<1>5. ASSUME NEW m \in Message, Serialize(m)
      PROVE  TypeOK'
  <2>1. hold[m] # NoAllocation \/ variant[m] # "View"
    BY <1>5 DEF Serialize, ClonelessInv, ViewInStep
  <2>2. (IF variant[m] = "View" THEN content[hold[m]] ELSE asked[m]) \in Version
    BY <1>0, <2>1
  <2>3. QED
    BY <1>0, <1>5, <2>2 DEF Serialize
<1>6. CASE \E m \in Message : SerializeFails(m) \/ Resolve(m) \/ TaskEnds(m) \/ Receive(m)
  BY <1>0, <1>6 DEF SerializeFails, Resolve, TaskEnds, Receive
<1>7. CASE UNCHANGED vars
  BY <1>0, <1>7 DEF vars
<1>8. QED
  BY <1>1, <1>2, <1>3, <1>4, <1>5, <1>6, <1>7 DEF Next, SendTask

\* The program only ever goes on to later versions.
LEMMA ContentGrows ==
  ASSUME TypeOK, [Next]_vars
  PROVE  content[arc] \in Version /\ content'[arc'] \in Version /\ content[arc] <= content'[arc']
<1> USE DEF TypeOK, Version
<1>1. CASE Write
  BY <1>1 DEF Write
<1>2. CASE WriteInside
  BY <1>2 DEF WriteInside
<1>3. CASE UNCHANGED <<arc, content>>
  BY <1>3
<1>4. QED
  BY <1>1, <1>2, <1>3 DEF Next, SendTask, vars, programVars, Send, Connect, NeverConnects,
       Disconnect, ConnectingPanics, Serialize, SerializeFails, Resolve, TaskEnds, Receive

\* A write to what a message holds takes interior mutability.
LEMMA HeldContentKept ==
  ASSUME TypeOK, [Next]_vars, NEW m \in Message, hold[m] # NoAllocation
  PROVE  /\ content[hold[m]] <= content'[hold[m]]
         /\ content'[hold[m]] # content[hold[m]] => interior /\ hold[m] = arc /\ arc' = arc
<1> USE DEF TypeOK, Version
<1>1. CASE Write
  BY <1>1 DEF Write, Shared
<1>2. CASE WriteInside
  BY <1>2 DEF WriteInside
<1>3. CASE UNCHANGED <<arc, content>>
  BY <1>3
<1>4. QED
  BY <1>1, <1>2, <1>3 DEF Next, SendTask, vars, programVars, Send, Connect, NeverConnects,
       Disconnect, ConnectingPanics, Serialize, SerializeFails, Resolve, TaskEnds, Receive

\* A message that a step leaves alone, or moves on between stages that hold
\* alike, stays in step whatever the program writes.
LEMMA UnmovedStep ==
  ASSUME ClonelessInv, [Next]_vars, NEW m \in Message,
         variant'[m] = variant[m], hold'[m] = hold[m], asked'[m] = asked[m],
         stage'[m] \in {"pending", "spawned", "serialized", "resolved"} <=>
           stage[m] \in {"pending", "spawned", "serialized", "resolved"}
  PROVE  ViewInStep(m)'
<1>1. TypeOK /\ ViewInStep(m)
  BY DEF ClonelessInv
<1>2. hold'[m] # NoAllocation <=>
        variant'[m] = "View" /\ stage'[m] \in {"pending", "spawned", "serialized", "resolved"}
  BY <1>1 DEF ViewInStep
<1>3. ASSUME hold[m] # NoAllocation
      PROVE  /\ content'[hold[m]] \in asked[m] .. content'[arc']
             /\ ~interior => content'[hold[m]] = asked[m]
  <2>1. content[hold[m]] \in asked[m] .. content[arc] /\ (~interior => content[hold[m]] = asked[m])
    BY <1>1, <1>3 DEF ViewInStep
  <2>2. asked[m] \in Int /\ content[hold[m]] \in Int
    BY <1>1, <1>3 DEF TypeOK, Version
  <2>3. CASE content'[hold[m]] = content[hold[m]]
    BY <1>1, <2>1, <2>2, <2>3, ContentGrows DEF Version
  <2>4. CASE content'[hold[m]] # content[hold[m]]
    <3>1. interior /\ hold[m] = arc'
      BY <1>1, <1>3, <2>4, HeldContentKept
    <3>2. content'[hold[m]] = content'[arc']
      BY <3>1
    <3>3. content[hold[m]] <= content'[hold[m]] /\ content'[arc'] \in Version
      BY <1>1, <1>3, HeldContentKept, ContentGrows
    <3>4. QED
      BY <2>1, <2>2, <3>1, <3>2, <3>3 DEF Version
  <2>5. QED
    BY <2>3, <2>4
<1>4. interior' = interior
  BY DEF Next, SendTask, vars, programVars, Write, WriteInside, Send, Connect, NeverConnects,
       Disconnect, ConnectingPanics, Serialize, SerializeFails, Resolve, TaskEnds, Receive
<1>5. QED
  BY <1>2, <1>3, <1>4 DEF ViewInStep

\* Every step keeps what the messages hold in step with the program.
LEMMA ViewStep ==
  ASSUME ClonelessInv, [Next]_vars, NEW m \in Message
  PROVE  ViewInStep(m)'
<1>0. TypeOK /\ ViewInStep(m)
  BY DEF ClonelessInv
<1> USE DEF TypeOK
<1>1. CASE Write \/ WriteInside \/ ConnectingPanics \/ UNCHANGED vars
  BY <1>1, UnmovedStep DEF Write, WriteInside, ConnectingPanics, vars, messageVars
<1>2. CASE Connect
  <2>1. stage'[m] = IF stage[m] = "pending" THEN "spawned" ELSE stage[m]
    BY <1>0, <1>2 DEF Connect
  <2>2. QED
    BY <1>2, <2>1, UnmovedStep DEF Connect
<1>3. CASE NeverConnects \/ Disconnect
  <2>1. /\ stage'[m] = IF stage[m] = "pending" THEN "gone" ELSE stage[m]
        /\ hold'[m] = IF stage[m] = "pending" THEN NoAllocation ELSE hold[m]
        /\ variant' = variant /\ asked' = asked
    BY <1>0, <1>3 DEF NeverConnects, Disconnect, DropPending
  <2>2. CASE stage[m] = "pending"
    BY <2>1, <2>2 DEF ViewInStep
  <2>3. CASE stage[m] # "pending"
    BY <2>1, <2>3, UnmovedStep
  <2>4. QED
    BY <2>2, <2>3
<1>4. ASSUME NEW n \in Message, NEW v \in {"Owned", "View"}, Send(n, v)
      PROVE  ViewInStep(m)'
  <2>1. CASE n = m
    <3>1. /\ variant'[m] = v /\ asked'[m] = content[arc] /\ stage'[m] = FirstStage
          /\ hold'[m] = IF networking = "Disconnected" THEN NoAllocation ELSE HoldOf(v)
          /\ arc' = arc /\ content' = content /\ interior' = interior
      BY <1>0, <1>4, <2>1 DEF Send, programVars
    <3>2. FirstStage \in {"pending", "spawned"} <=> networking # "Disconnected"
      BY <1>0 DEF FirstStage
    <3>3. FirstStage \in {"pending", "spawned", "gone"}
      BY <1>0 DEF FirstStage
    <3>4. content[arc] \in content[arc] .. content[arc] /\ arc # NoAllocation
      BY <1>0 DEF Version
    <3>5. QED
      BY <3>1, <3>2, <3>3, <3>4 DEF ViewInStep, HoldOf
  <2>2. CASE n # m
    BY <1>0, <1>4, <2>2, UnmovedStep DEF Send
  <2>3. QED
    BY <2>1, <2>2
<1>5. CASE \E n \in Message : Serialize(n) \/ Resolve(n) \/ Receive(n)
  BY <1>0, <1>5, UnmovedStep DEF Serialize, Resolve, Receive
<1>6. ASSUME NEW n \in Message, SerializeFails(n) \/ TaskEnds(n)
      PROVE  ViewInStep(m)'
  <2>1. CASE n = m
    BY <1>0, <1>6, <2>1 DEF SerializeFails, TaskEnds, ViewInStep
  <2>2. CASE n # m
    BY <1>0, <1>6, <2>2, UnmovedStep DEF SerializeFails, TaskEnds
  <2>3. QED
    BY <2>1, <2>2
<1>7. QED
  BY <1>1, <1>2, <1>3, <1>4, <1>5, <1>6 DEF Next, SendTask

\* Every step keeps what was serialized and received faithful.
LEMMA RawStep ==
  ASSUME ClonelessInv, [Next]_vars, NEW m \in Message
  PROVE  RawInStep(m)'
<1>0. TypeOK /\ ViewInStep(m) /\ RawInStep(m)
  BY DEF ClonelessInv
<1>g. content[arc] \in Version /\ content'[arc'] \in Version /\ content[arc] <= content'[arc']
  BY <1>0, ContentGrows
<1>i. interior' = interior
  BY DEF Next, SendTask, vars, programVars, Write, WriteInside, Send, Connect, NeverConnects,
       Disconnect, ConnectingPanics, Serialize, SerializeFails, Resolve, TaskEnds, Receive
<1>u. ASSUME raw'[m] = raw[m], asked'[m] = asked[m], variant'[m] = variant[m],
             received'[m] \in {received[m], raw[m]},
             stage'[m] \in {"none", "pending", "spawned"} =>
               stage[m] \in {"none", "pending", "spawned"}
      PROVE  RawInStep(m)'
  <2>1. asked[m] \in Version /\ raw[m] \in Version \cup {NotYet}
    BY <1>0 DEF TypeOK
  <2>2. raw[m] # NotYet =>
          \/ raw[m] = asked[m]
          \/ interior /\ variant[m] = "View" /\ raw[m] \in asked[m] .. content'[arc']
    BY <1>0, <1>g, <2>1 DEF RawInStep, Version
  <2>3. received'[m] # NotYet => received'[m] = raw[m]
    BY <1>0, <1>u DEF RawInStep
  <2>4. QED
    BY <1>0, <1>i, <1>u, <2>2, <2>3 DEF RawInStep
<1> USE DEF TypeOK
<1>1. CASE Write \/ WriteInside \/ ConnectingPanics \/ UNCHANGED vars
  BY <1>1, <1>u DEF Write, WriteInside, ConnectingPanics, vars, messageVars
<1>2. CASE Connect \/ NeverConnects \/ Disconnect
  BY <1>0, <1>2, <1>u DEF Connect, NeverConnects, Disconnect, DropPending
<1>3. ASSUME NEW n \in Message, NEW v \in {"Owned", "View"}, Send(n, v)
      PROVE  RawInStep(m)'
  <2>1. CASE n = m
    <3>1. raw'[m] = NotYet /\ received'[m] = NotYet
      BY <1>0, <1>3, <2>1 DEF Send, RawInStep
    <3>2. QED
      BY <3>1 DEF RawInStep
  <2>2. CASE n # m
    BY <1>0, <1>3, <2>2, <1>u DEF Send
  <2>3. QED
    BY <2>1, <2>2
<1>4. ASSUME NEW n \in Message, Serialize(n)
      PROVE  RawInStep(m)'
  <2>1. CASE n = m
    <3>1. /\ raw'[m] = IF variant[m] = "View" THEN content[hold[m]] ELSE asked[m]
          /\ UNCHANGED <<arc, content, variant, asked, received>> /\ stage'[m] = "serialized"
      BY <1>0, <1>4, <2>1 DEF Serialize, programVars
    <3>2. variant[m] = "View" =>
            /\ content[hold[m]] \in asked[m] .. content[arc]
            /\ ~interior => content[hold[m]] = asked[m]
      BY <1>0, <1>4, <2>1 DEF Serialize, ViewInStep
    <3>3. received[m] = NotYet
      BY <1>0, <1>4, <2>1 DEF RawInStep, Serialize
    <3>4. QED
      BY <1>i, <3>1, <3>2, <3>3 DEF RawInStep
  <2>2. CASE n # m
    BY <1>0, <1>4, <2>2, <1>u DEF Serialize
  <2>3. QED
    BY <2>1, <2>2
<1>5. CASE \E n \in Message : SerializeFails(n) \/ Resolve(n) \/ TaskEnds(n) \/ Receive(n)
  BY <1>0, <1>5, <1>u DEF SerializeFails, Resolve, TaskEnds, Receive
<1>6. QED
  BY <1>1, <1>2, <1>3, <1>4, <1>5 DEF Next, SendTask

------------------------------------------------------------------------------

\* A client that stops connecting leaves no message pending.
LEMMA PendingStep ==
  ASSUME ClonelessInv, [Next]_vars
  PROVE  PendingInStep'
<1>0. TypeOK /\ PendingInStep
  BY DEF ClonelessInv
<1> USE DEF TypeOK, PendingInStep
<1>1. CASE Connect
  BY <1>0, <1>1 DEF Connect
<1>2. CASE NeverConnects \/ Disconnect
  BY <1>0, <1>2 DEF NeverConnects, Disconnect, DropPending
<1>3. ASSUME NEW m \in Message, NEW v \in {"Owned", "View"}, Send(m, v)
      PROVE  PendingInStep'
  BY <1>0, <1>3 DEF Send, FirstStage
<1>4. ASSUME NEW m \in Message, SendTask(m) \/ Receive(m)
      PROVE  PendingInStep'
  BY <1>0, <1>4 DEF SendTask, Serialize, SerializeFails, Resolve, TaskEnds, Receive
<1>5. CASE Write \/ WriteInside \/ ConnectingPanics \/ UNCHANGED vars
  BY <1>0, <1>5 DEF Write, WriteInside, ConnectingPanics, vars, messageVars
<1>6. QED
  BY <1>1, <1>2, <1>3, <1>4, <1>5 DEF Next

------------------------------------------------------------------------------

\* Messages, the Arcs that they hold and what is made of them keep in step
\* with the program that writes meanwhile.
THEOREM ClonelessInvariant == Spec => []ClonelessInv
<1>1. Init => ClonelessInv
  <2> SUFFICES ASSUME Init PROVE ClonelessInv
    OBVIOUS
  <2>1. TypeOK
    <3>1. 0 \in Version
      BY DEF Version
    <3>2. QED
      BY <3>1 DEF Init, TypeOK
  <2>2. ASSUME NEW m \in Message
        PROVE  ViewInStep(m) /\ RawInStep(m)
    BY DEF Init, ViewInStep, RawInStep
  <2>3. PendingInStep
    BY DEF Init, PendingInStep
  <2>4. QED
    BY <2>1, <2>2, <2>3 DEF ClonelessInv
<1>2. ClonelessInv /\ [Next]_vars => ClonelessInv'
  BY TypeStep, ViewStep, RawStep, PendingStep DEF ClonelessInv
<1>3. QED
  BY <1>1, <1>2, PTL DEF Spec

\* A view is received as it was when it was sent, or later with interior
\* mutability.
THEOREM FaithfullyReceived == Spec => []ReceivedIsFaithful
<1>1. ClonelessInv => ReceivedIsFaithful
  BY DEF ClonelessInv, RawInStep, ReceivedIsFaithful
<1>2. QED
  BY <1>1, ClonelessInvariant, PTL

\* No message holds the program's Arc without a task, or a connecting client,
\* that will let go of it.
THEOREM ArcsCanComeBack == Spec => []ArcCanComeBack
<1>1. ClonelessInv => ArcCanComeBack
  BY DEF ClonelessInv, ViewInStep, PendingInStep, ArcCanComeBack
<1>2. QED
  BY <1>1, ClonelessInvariant, PTL

------------------------------------------------------------------------------
(* A shared Arc is as good as a copy: the refinement of CopySending.       *)

OnItsWay(m) == stage[m] \in {"pending", "spawned"}

\* What a message would be received as does not change when neither the message
\* moves nor what it holds is written to.
LEMMA TravellingKept ==
  ASSUME NEW m \in Message,
         raw'[m] = raw[m], received'[m] = received[m], variant'[m] = variant[m],
         asked'[m] = asked[m], OnItsWay(m)' <=> OnItsWay(m),
         OnItsWay(m) /\ variant[m] = "View" => content'[hold'[m]] = content[hold[m]]
  PROVE  Travelling(m)' = Travelling(m)
  BY DEF Travelling, OnItsWay

\* A message that is still to be serialized has not been received, and holds an
\* allocation if it has a view.
LEMMA OnItsWayHolds ==
  ASSUME ClonelessInv, NEW m \in Message, OnItsWay(m)
  PROVE  /\ raw[m] = NotYet /\ received[m] = NotYet
         /\ variant[m] = "View" => hold[m] \in Allocation
<1>1. TypeOK /\ ViewInStep(m) /\ RawInStep(m)
  BY DEF ClonelessInv
<1>2. QED
  BY <1>1 DEF OnItsWay, ViewInStep, RawInStep, TypeOK

\* A step that changes nothing that CopySending speaks of.
LEMMA CopyStutter ==
  ASSUME \A m \in Message : Travelling(m)' = Travelling(m),
         \A m \in Message : stage'[m] = "none" <=> stage[m] = "none",
         content'[arc'] = content[arc], UNCHANGED <<interior, received>>
  PROVE  UNCHANGED Copying!vars
  BY DEF Copying!vars

\* Messages that are dropped.
LEMMA CopyLost ==
  ASSUME NEW gone \in SUBSET Message,
         \A m \in Message : Travelling(m)' = IF m \in gone THEN NotYet ELSE Travelling(m),
         \A m \in Message : stage'[m] = "none" <=> stage[m] = "none",
         content'[arc'] = content[arc], UNCHANGED <<interior, received>>
  PROVE  Copying!Lose
  BY DEF Copying!Lose

\* The program's writes leave alone what messages hold, or show through.
LEMMA WriteIsCopied ==
  ASSUME ClonelessInv, Write
  PROVE  Copying!Write
<1>0. TypeOK
  BY DEF ClonelessInv
<1>1. ASSUME NEW m \in Message
      PROVE  Travelling(m)' = Travelling(m)
  <2>1. ASSUME hold[m] \in Allocation
        PROVE  content'[hold[m]] = content[hold[m]]
    BY <1>0, <2>1 DEF Write, Shared, TypeOK
  <2>2. OnItsWay(m) /\ variant[m] = "View" => hold[m] \in Allocation
    BY OnItsWayHolds
  <2>3. QED
    BY <2>1, <2>2, TravellingKept DEF Write, messageVars, OnItsWay
<1>2. content'[arc'] = content[arc] + 1
  BY <1>0 DEF Write, TypeOK
<1>3. QED
  BY <1>1, <1>2 DEF Write, messageVars, Copying!Write

LEMMA WriteInsideIsCopied ==
  ASSUME ClonelessInv, WriteInside
  PROVE  Copying!WriteThrough
<1> DEFINE reached == {m \in Message : OnItsWay(m) /\ variant[m] = "View" /\ hold[m] = arc}
<1>0. TypeOK /\ NotYet \notin Nat
  BY DEF ClonelessInv
<1>1. content'[arc'] = content[arc] + 1 /\ arc' = arc
  BY <1>0 DEF WriteInside, TypeOK
<1>2. ASSUME NEW m \in reached
      PROVE  Travelling(m)' = content[arc] + 1 /\ Travelling(m) # NotYet
  <2>1. raw[m] = NotYet /\ received[m] = NotYet
    BY OnItsWayHolds
  <2>2. content[arc] \in Nat
    BY <1>0 DEF TypeOK, Version
  <2>3. QED
    BY <1>0, <1>1, <2>1, <2>2 DEF WriteInside, messageVars, Travelling, OnItsWay
<1>3. ASSUME NEW m \in Message, m \notin reached
      PROVE  Travelling(m)' = Travelling(m)
  <2>1. OnItsWay(m) /\ variant[m] = "View" => hold[m] \in Allocation /\ hold[m] # arc
    BY <1>3, OnItsWayHolds
  <2>2. OnItsWay(m) /\ variant[m] = "View" => content'[hold[m]] = content[hold[m]]
    BY <1>0, <2>1 DEF WriteInside, TypeOK
  <2>3. QED
    BY <2>2, TravellingKept DEF WriteInside, messageVars, OnItsWay
<1>4. [m \in Message |-> Travelling(m)]'
        = [m \in Message |-> IF m \in reached THEN content[arc] + 1 ELSE Travelling(m)]
  BY <1>2, <1>3
<1>5. reached \in SUBSET {m \in Message : Travelling(m) # NotYet}
  BY <1>2
<1> HIDE DEF reached
<1>6. QED
  BY <1>1, <1>4, <1>5 DEF WriteInside, messageVars, Copying!WriteThrough

\* A message is sent with a copy, or in vain.
LEMMA SendIsCopied ==
  ASSUME ClonelessInv, NEW m \in Message, NEW v \in {"Owned", "View"}, Send(m, v)
  PROVE  Copying!Send(m)
<1>0. TypeOK /\ RawInStep(m)
  BY DEF ClonelessInv
<1>1. raw[m] = NotYet /\ received[m] = NotYet /\ stage[m] = "none"
  BY <1>0 DEF Send, RawInStep
<1>2. /\ UNCHANGED <<raw, received, arc, content, interior>>
      /\ stage'[m] = FirstStage /\ variant'[m] = v /\ asked'[m] = content[arc]
      /\ hold'[m] = IF networking = "Disconnected" THEN NoAllocation ELSE HoldOf(v)
  BY <1>0 DEF Send, programVars, TypeOK
<1>3. ASSUME NEW n \in Message, n # m
      PROVE  Travelling(n)' = Travelling(n) /\ stage'[n] = stage[n]
  <2>1. /\ stage'[n] = stage[n] /\ variant'[n] = variant[n] /\ asked'[n] = asked[n]
        /\ hold'[n] = hold[n]
    BY <1>0, <1>3 DEF Send, TypeOK
  <2>2. QED
    BY <1>2, <2>1, TravellingKept DEF OnItsWay
<1>4. Travelling(m) = NotYet
  BY <1>1 DEF Travelling
<1>5. Travelling(m)' \in {content[arc], NotYet}
  <2>1. CASE networking = "Disconnected"
    BY <1>1, <1>2, <2>1 DEF Travelling, FirstStage
  <2>2. CASE networking # "Disconnected"
    BY <1>1, <1>2, <2>2 DEF Travelling, HoldOf
  <2>3. QED
    BY <2>1, <2>2
<1>6. FirstStage # "none"
  BY <1>0 DEF FirstStage, TypeOK
<1>7. {n \in Message : stage[n] # "none"}' = {n \in Message : stage[n] # "none"} \cup {m}
  BY <1>2, <1>3, <1>6
<1>8. \/ [n \in Message |-> Travelling(n)]'
           = [[n \in Message |-> Travelling(n)] EXCEPT ![m] = content[arc]]
      \/ [n \in Message |-> Travelling(n)]' = [n \in Message |-> Travelling(n)]
  BY <1>3, <1>4, <1>5
<1>9. m \notin {n \in Message : stage[n] # "none"}
  BY <1>1
<1>10. QED
  BY <1>2, <1>7, <1>8, <1>9 DEF Copying!Send

\* The vector of pending messages is dropped.
LEMMA DropIsCopied ==
  ASSUME ClonelessInv, NeverConnects \/ Disconnect
  PROVE  Copying!Lose
<1> DEFINE gone == {m \in Message : stage[m] = "pending"}
<1>0. TypeOK
  BY DEF ClonelessInv
<1>1. /\ \A m \in Message : stage'[m] = IF m \in gone THEN "gone" ELSE stage[m]
      /\ \A m \in Message : hold'[m] = IF m \in gone THEN NoAllocation ELSE hold[m]
      /\ UNCHANGED <<variant, asked, raw, received, interior, arc, content>>
  BY <1>0 DEF NeverConnects, Disconnect, DropPending, programVars
<1>2. ASSUME NEW m \in gone
      PROVE  Travelling(m)' = NotYet
  <2>1. raw[m] = NotYet
    BY OnItsWayHolds DEF OnItsWay
  <2>2. QED
    BY <1>1, <2>1 DEF Travelling
<1>3. ASSUME NEW m \in Message, m \notin gone
      PROVE  Travelling(m)' = Travelling(m)
  BY <1>1, <1>3, TravellingKept DEF OnItsWay
<1>4. \A m \in Message : stage'[m] = "none" <=> stage[m] = "none"
  BY <1>1
<1>5. gone \in SUBSET Message
  OBVIOUS
<1>6. \A m \in Message : Travelling(m)' = IF m \in gone THEN NotYet ELSE Travelling(m)
  BY <1>2, <1>3
<1> HIDE DEF gone
<1>7. QED
  BY <1>1, <1>4, <1>5, <1>6, CopyLost

\* A send task serializes what its message has had from the start, or fails.
LEMMA TaskIsCopied ==
  ASSUME ClonelessInv, NEW m \in Message, SendTask(m)
  PROVE  Copying!Lose \/ UNCHANGED Copying!vars
<1>0. TypeOK
  BY DEF ClonelessInv
<1>1. /\ UNCHANGED <<interior, arc, content, variant, asked, received>>
      /\ stage[m] \in {"spawned", "serialized", "resolved"}
      /\ stage'[m] \in {"serialized", "resolved", "gone"}
      /\ \A n \in Message \ {m} : stage'[n] = stage[n] /\ hold'[n] = hold[n] /\ raw'[n] = raw[n]
  BY <1>0 DEF SendTask, Serialize, SerializeFails, Resolve, TaskEnds, programVars, TypeOK
<1>2. ASSUME NEW n \in Message, n # m
      PROVE  Travelling(n)' = Travelling(n)
  BY <1>1, <1>2, TravellingKept DEF OnItsWay
<1>3. \A n \in Message : stage'[n] = "none" <=> stage[n] = "none"
  BY <1>1
<1>4. CASE Serialize(m)
  <2>1. raw[m] = NotYet /\ received[m] = NotYet
    BY <1>4, OnItsWayHolds DEF OnItsWay, Serialize
  <2>2. raw'[m] = IF variant[m] = "View" THEN content[hold[m]] ELSE asked[m]
    BY <1>0, <1>4 DEF Serialize, TypeOK
  <2>3. Travelling(m)' = Travelling(m)
    BY <1>1, <1>4, <2>1, <2>2 DEF Travelling, Serialize
  <2>4. QED
    BY <1>1, <1>2, <1>3, <2>3, CopyStutter
<1>5. CASE SerializeFails(m)
  <2>1. raw[m] = NotYet /\ raw' = raw
    BY <1>5, OnItsWayHolds DEF OnItsWay, SerializeFails
  <2>2. Travelling(m)' = NotYet
    BY <1>1, <2>1 DEF Travelling
  <2>3. \A n \in Message : Travelling(n)' = IF n \in {m} THEN NotYet ELSE Travelling(n)
    BY <1>2, <2>2
  <2>4. Copying!Lose
    BY <1>1, <1>3, <2>3, CopyLost
  <2>5. QED
    BY <2>4
<1>6. CASE Resolve(m) \/ TaskEnds(m)
  <2>1. ~OnItsWay(m) /\ ~OnItsWay(m)' /\ raw' = raw
    BY <1>1, <1>6 DEF OnItsWay, Resolve, TaskEnds
  <2>2. Travelling(m)' = Travelling(m)
    BY <1>1, <2>1 DEF Travelling, OnItsWay
  <2>3. QED
    BY <1>1, <1>2, <1>3, <2>2, CopyStutter
<1>7. QED
  BY <1>4, <1>5, <1>6 DEF SendTask

\* The receiver owns the copy.
LEMMA ReceiveIsCopied ==
  ASSUME ClonelessInv, NEW m \in Message, Receive(m)
  PROVE  Copying!Receive(m)
<1>0. TypeOK
  BY DEF ClonelessInv
<1>1. /\ raw[m] # NotYet /\ received[m] = NotYet /\ received' = [received EXCEPT ![m] = raw[m]]
      /\ UNCHANGED <<interior, arc, content, variant, stage, hold, asked, raw>>
  BY DEF Receive, programVars
<1>2. Travelling(m) = raw[m] /\ Travelling(m)' = NotYet
  BY <1>0, <1>1 DEF Travelling, TypeOK
<1>3. ASSUME NEW n \in Message, n # m
      PROVE  Travelling(n)' = Travelling(n)
  BY <1>0, <1>1, <1>3, TravellingKept DEF OnItsWay, TypeOK
<1>4. [n \in Message |-> Travelling(n)]' = [[n \in Message |-> Travelling(n)] EXCEPT ![m] = NotYet]
  BY <1>2, <1>3
<1>5. QED
  BY <1>1, <1>2, <1>4 DEF Copying!Receive

\* Every behaviour with shared Arcs is one with copies.
THEOREM SharingImplementsCopying == Spec => SharingIsCopying
<1>1. Init => Copying!Init
  BY DEF Init, Copying!Init, Travelling
<1>2. ClonelessInv /\ [Next]_vars => [Copying!Next]_(Copying!vars)
  <2> SUFFICES ASSUME ClonelessInv, [Next]_vars PROVE [Copying!Next]_(Copying!vars)
    OBVIOUS
  <2>0. TypeOK
    BY DEF ClonelessInv
  <2>1. CASE Write \/ WriteInside
    BY <2>1, WriteIsCopied, WriteInsideIsCopied DEF Copying!Next
  <2>2. CASE \E m \in Message, v \in {"Owned", "View"} : Send(m, v)
    BY <2>2, SendIsCopied DEF Copying!Next
  <2>3. CASE NeverConnects \/ Disconnect
    BY <2>3, DropIsCopied DEF Copying!Next
  <2>4. CASE \E m \in Message : SendTask(m)
    BY <2>4, TaskIsCopied DEF Copying!Next
  <2>5. CASE \E m \in Message : Receive(m)
    BY <2>5, ReceiveIsCopied DEF Copying!Next
  <2>6. CASE Connect \/ ConnectingPanics \/ UNCHANGED vars
    <3>1. /\ UNCHANGED <<interior, arc, content, variant, hold, asked, raw, received>>
          /\ \A m \in Message : /\ OnItsWay(m)' <=> OnItsWay(m)
                                /\ stage'[m] = "none" <=> stage[m] = "none"
      BY <2>0, <2>6 DEF Connect, ConnectingPanics, vars, programVars, messageVars, OnItsWay, TypeOK
    <3>2. \A m \in Message : Travelling(m)' = Travelling(m)
      BY <3>1, TravellingKept
    <3>3. QED
      BY <3>1, <3>2, CopyStutter
  <2>7. QED
    BY <2>1, <2>2, <2>3, <2>4, <2>5, <2>6 DEF Next
<1>3. QED
  BY <1>1, <1>2, ClonelessInvariant, PTL DEF Spec, SharingIsCopying, Copying!Spec

=================================================================================

