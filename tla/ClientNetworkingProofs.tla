------------------------ MODULE ClientNetworkingProofs ------------------------
(***************************************************************************)
(* Theorems about ClientNetworking, for any messages in both directions    *)
(* and any interleaving of the user's calls with the runtime's tasks.      *)
(***************************************************************************)
EXTENDS ClientNetworking, SequenceTheorems, TLAPS

USE DEF enumVars, taskVars, connVars, userVars, sendVars

\* What the messages of a vector are after one push, and after a hand-over.
LEMMA ElementsAppend ==
  ASSUME NEW s \in Seq(Message), NEW m \in Message
  PROVE  Elements(Append(s, m)) = Elements(s) \cup {m}
<1>1. \A n : n \in Elements(Append(s, m)) <=> n \in Elements(s) \/ n = m
  BY DEF Elements
<1>2. QED
  BY <1>1

LEMMA ElementsEmpty == Elements(<<>>) = {}
  BY DEF Elements

\* The event of a loss is a disconnection, or none.
LEMMA ToEventTypes ==
  \A e : ToEvent(e) \in {DisconnectedEvent("None"), DisconnectedEvent("Timeout"), NoEvent}
  BY DEF ToEvent

\* The verdict on a connection error.
LEMMA ResultTypes ==
  /\ \A e \in ConnectionError :
       /\ FromConnectionError(e) \in SendingResult \ {"Sent"}
       /\ FromConnectionError(e) = "WeClosed" => e = "LocallyClosed"
  /\ \A e : ToEvent(e) \in NetworkEvent \cup {NoEvent}
<1>1. \A e \in ConnectionError :
        /\ FromConnectionError(e) \in SendingResult \ {"Sent"}
        /\ FromConnectionError(e) = "WeClosed" => e = "LocallyClosed"
  BY DEF FromConnectionError, SendingResult, ConnectionError
<1>2. QED
  BY <1>1, ToEventTypes DEF NetworkEvent

\* A task's send on the mpsc channel keeps its type.
LEMMA EmitTypes ==
  ASSUME inbox \in Seq(NetworkEvent), NEW ev \in NetworkEvent \cup {NoEvent}, Emit(ev)
  PROVE  inbox' \in Seq(NetworkEvent)
  BY DEF Emit

\* The types of what connect_if_possible leaves behind.
LEMMA NowTypes ==
  TypeOK =>
    /\ NetworkingNow \in {"Connecting", "Connected", "ThePeerDidntEvenConnect", "Us", "Dropped"}
    /\ AnnouncedNow \in BOOLEAN
    /\ SlotNow \in {"empty", "Connected", "Timeout", "closed"}
    /\ PendingNow \in Seq(Message)
    /\ SpawnedNow \in Seq(Message)
    /\ HandleNow \in [Message -> {"Unsent", "StillBeingSent"} \cup SendingResult]
  BY DEF TypeOK, NetworkingNow, AnnouncedNow, SlotNow, PendingNow, SpawnedNow, HandleNow,
         Dropping, Answered, SendingResult

------------------------------------------------------------------------------

\* Every step keeps the types.
LEMMA TypeStep == TypeOK /\ [Next]_vars => TypeOK'
<1> SUFFICES ASSUME TypeOK, [Next]_vars
             PROVE  TypeOK'
  OBVIOUS
<1>0. /\ NetworkingNow \in {"Connecting", "Connected", "ThePeerDidntEvenConnect", "Us", "Dropped"}
      /\ AnnouncedNow \in BOOLEAN
      /\ SlotNow \in {"empty", "Connected", "Timeout", "closed"}
      /\ PendingNow \in Seq(Message)
      /\ SpawnedNow \in Seq(Message)
      /\ HandleNow \in [Message -> {"Unsent", "StillBeingSent"} \cup SendingResult]
  BY NowTypes
<1>1. ASSUME NEW m \in Message, Send(m)
      PROVE  TypeOK'
  <2>1. /\ pending' \in Seq(Message)
        /\ spawned' \in Seq(Message)
    <3>1. /\ pending' = PendingNow \/ pending' = Append(PendingNow, m)
          /\ spawned' = SpawnedNow \/ spawned' = Append(SpawnedNow, m)
      BY <1>1 DEF Send
    <3>2. Append(PendingNow, m) \in Seq(Message) /\ Append(SpawnedNow, m) \in Seq(Message)
      BY <1>0, AppendProperties
    <3>3. QED
      BY <1>0, <3>1, <3>2
  <2>2. called' \in Seq(Message)
    BY <1>1 DEF Send, TypeOK
  <2>3. /\ networking' = NetworkingNow /\ slot' = SlotNow /\ announced' = AnnouncedNow
        /\ UNCHANGED <<connecting, connVars, inbox, polled>>
    BY <1>1 DEF Send, ConnectIfPossible
  <2>4. handle' \in [Message -> {"Unsent", "StillBeingSent"} \cup SendingResult]
    <3>1. \E a \in {"StillBeingSent", "WeClosed", "PeerClosedOrDied"} :
            handle' = [HandleNow EXCEPT ![m] = a]
      BY <1>1 DEF Send
    <3>2. QED
      BY <1>0, <3>1 DEF SendingResult
  <2>5. QED
    BY <1>0, <2>1, <2>2, <2>3, <2>4 DEF TypeOK
<1>2. CASE Poll
  <2>1. polled' \in Seq(ClientEvent) /\ inbox' \in Seq(NetworkEvent)
    <3>1. \/ polled' = Append(polled, ConnectedEvent) /\ inbox' = inbox
          \/ inbox # <<>> /\ polled' = Append(polled, Head(inbox)) /\ inbox' = Tail(inbox)
          \/ polled' = Append(polled, FailedToConnectEvent) /\ inbox' = inbox
      BY <1>2 DEF Poll
    <3>2. /\ ConnectedEvent \in ClientEvent /\ FailedToConnectEvent \in ClientEvent
          /\ NetworkEvent \subseteq ClientEvent
      BY DEF ClientEvent
    <3>3. inbox # <<>> => Head(inbox) \in NetworkEvent /\ Tail(inbox) \in Seq(NetworkEvent)
      BY DEF TypeOK
    <3>4. /\ Append(polled, ConnectedEvent) \in Seq(ClientEvent)
          /\ Append(polled, FailedToConnectEvent) \in Seq(ClientEvent)
          /\ inbox # <<>> => Append(polled, Head(inbox)) \in Seq(ClientEvent)
      BY <3>2, <3>3, AppendProperties DEF TypeOK
    <3>5. QED
      BY <3>1, <3>3, <3>4 DEF TypeOK
  <2>2. /\ networking' = NetworkingNow /\ slot' = SlotNow /\ announced' = TRUE
        /\ pending' = PendingNow /\ spawned' = SpawnedNow /\ handle' = HandleNow
        /\ UNCHANGED <<connecting, connVars, called>>
    BY <1>2 DEF Poll, ConnectIfPossible
  <2>3. QED
    BY <1>0, <2>1, <2>2 DEF TypeOK
<1>3. CASE Connect
  BY <1>3 DEF Connect, ConnectSucceeds, ConnectTimesOut, ConnectPanics, Answer, TypeOK
<1>4. CASE Disconnect \/ Drop
  <2>1. CASE DisconnectWhileConnecting
    BY <2>1 DEF DisconnectWhileConnecting, SendingResult, TypeOK
  <2>2. CASE DisconnectWhileConnected
    BY <2>2 DEF DisconnectWhileConnected, Lost, ConnectionError, TypeOK
  <2>3. CASE Drop
    BY <2>3 DEF Drop, Dropping, SendingResult, TypeOK
  <2>4. QED
    BY <1>4, <2>1, <2>2, <2>3 DEF Disconnect
<1>5. ASSUME NEW v \in ServerMessage, ReaderEnds(v)
      PROVE  TypeOK'
  <2>1. inbox' \in Seq(NetworkEvent)
    BY <1>5, EmitTypes, ResultTypes DEF ReaderEnds, NetworkEvent, TypeOK
  <2>2. QED
    BY <1>5, <2>1 DEF ReaderEnds, TypeOK
<1>6. CASE LoopEnds
  <2>1. inbox' \in Seq(NetworkEvent)
    BY <1>6, EmitTypes, ResultTypes DEF LoopEnds, TypeOK
  <2>2. QED
    BY <1>6, <2>1 DEF LoopEnds, TypeOK
<1>7. CASE LoseConnection
  BY <1>7 DEF LoseConnection, TypeOK
<1>8. ASSUME NEW m \in Message, SendTaskEnds(m)
      PROVE  TypeOK'
  BY <1>8, ResultTypes DEF SendTaskEnds, Lost, SendingResult, TypeOK
<1>9. CASE UNCHANGED vars
  BY <1>9 DEF vars, TypeOK
<1>10. QED
  BY <1>1, <1>2, <1>3, <1>4, <1>5, <1>6, <1>7, <1>8, <1>9 DEF Next

------------------------------------------------------------------------------

\* ClientInv, but for the types, of what connect_if_possible leaves behind.
NowInStep ==
  /\ connecting = "trying" => /\ conn = "none"
                             /\ SlotNow \in {"empty", "closed"}
                             /\ NetworkingNow \notin {"Connected", "ThePeerDidntEvenConnect"}
  /\ conn = "LocallyClosed" => NetworkingNow = "Us"
  /\ NetworkingNow = "Connecting" => SpawnedNow = <<>> /\ ~AnnouncedNow
  /\ NetworkingNow # "Connecting" => PendingNow = <<>>
  /\ AnnouncedNow <=> polled # <<>>
  /\ \A i \in 1 .. Len(polled) :
       /\ NetworkingNow = "Connected" => polled[i] # FailedToConnectEvent
       /\ NetworkingNow = "ThePeerDidntEvenConnect" => polled[i] = FailedToConnectEvent

NowOrdered ==
  /\ NetworkingNow \in {"Connecting", "Connected"} => called = SpawnedNow \o PendingNow
  /\ Len(SpawnedNow) <= Len(called)
  /\ \A i \in 1 .. Len(SpawnedNow) : SpawnedNow[i] = called[i]

NowHandled ==
  /\ \A m \in Elements(PendingNow) : NetworkingNow = "Connecting" /\ HandleNow[m] = "StillBeingSent"
  /\ \A m \in Message :
       HandleNow[m] = "StillBeingSent" => m \in Elements(PendingNow) \cup Elements(SpawnedNow)
  /\ \A m \in Message :
       /\ HandleNow[m] = "WeClosed" => NetworkingNow = "Us"
       /\ HandleNow[m] = "PeerClosedOrDied" => Lost \/ NetworkingNow = "ThePeerDidntEvenConnect"

\* connect_if_possible keeps the invariant.
LEMMA NowHolds == ClientInv => NowInStep /\ NowOrdered /\ NowHandled
<1> SUFFICES ASSUME ClientInv PROVE NowInStep /\ NowOrdered /\ NowHandled
  OBVIOUS
<1> USE DEF ClientInv
<1>1. CASE ~Answered
  <2>1. /\ NetworkingNow = networking /\ AnnouncedNow = announced /\ PendingNow = pending
        /\ SpawnedNow = spawned /\ HandleNow = handle /\ SlotNow = slot
    BY <1>1 DEF NetworkingNow, SlotNow, AnnouncedNow, PendingNow, SpawnedNow, HandleNow, TypeOK
  <2>2. NowInStep
    BY <2>1 DEF NowInStep, EnumInStep
  <2>3. NowOrdered
    BY <2>1 DEF NowOrdered, CallOrderKept
  <2>4. NowHandled
    BY <2>1 DEF NowHandled, NoOrphanHandle, BlameIsFounded
  <2>5. QED
    BY <2>2, <2>3, <2>4
<1>2. CASE Answered
  <2>1. /\ networking = "Connecting" /\ spawned = <<>> /\ polled = <<>>
        /\ conn # "LocallyClosed" /\ connecting # "trying"
    BY <1>2 DEF Answered, EnumInStep
  <2>2. called = pending /\ pending \in Seq(Message)
    <3>1. called = <<>> \o pending /\ pending \in Seq(Message)
      BY <2>1 DEF CallOrderKept, TypeOK
    <3>2. QED
      BY <3>1
  <2>3. PendingNow = <<>> /\ AnnouncedNow = FALSE
    BY <1>2 DEF PendingNow, AnnouncedNow
  <2>4. \A m \in Message : handle[m] = "StillBeingSent" => m \in Elements(pending)
    BY <2>1, ElementsEmpty DEF NoOrphanHandle
  <2>5. CASE slot = "Connected"
    <3>1. NetworkingNow = "Connected" /\ HandleNow = handle /\ SpawnedNow = pending
      <4>1. SpawnedNow = <<>> \o pending
        BY <1>2, <2>1, <2>5 DEF SpawnedNow
      <4>2. QED
        BY <1>2, <2>2, <2>5, <4>1 DEF NetworkingNow, HandleNow
    <3>2. NowInStep
      BY <2>1, <2>3, <3>1 DEF NowInStep, EnumInStep
    <3>3. NowOrdered
      <4>1. called = SpawnedNow \o PendingNow
        BY <2>2, <2>3, <3>1
      <4>2. QED
        BY <2>2, <3>1, <4>1 DEF NowOrdered
    <3>4. NowHandled
      BY <2>1, <2>3, <2>4, <3>1, ElementsEmpty DEF NowHandled, BlameIsFounded
    <3>5. QED
      BY <3>2, <3>3, <3>4
  <2>6. CASE slot = "Timeout"
    <3>1. NetworkingNow = "ThePeerDidntEvenConnect" /\ HandleNow = Dropping(pending) /\ SpawnedNow = <<>>
      BY <1>2, <2>1, <2>6 DEF NetworkingNow, HandleNow, SpawnedNow
    <3>2. NowInStep
      BY <2>1, <2>3, <3>1 DEF NowInStep, EnumInStep
    <3>3. NowOrdered
      BY <2>2, <3>1 DEF NowOrdered
    <3>4. NowHandled
      BY <2>1, <2>3, <2>4, <3>1, ElementsEmpty DEF NowHandled, Dropping, BlameIsFounded
    <3>5. QED
      BY <3>2, <3>3, <3>4
  <2>7. QED
    BY <1>2, <2>5, <2>6 DEF Answered
<1>3. QED
  BY <1>1, <1>2

------------------------------------------------------------------------------

\* A call to send_message_to_server keeps the invariant.
LEMMA SendStep ==
  ASSUME ClientInv, NEW m \in Message, Send(m)
  PROVE  EnumInStep' /\ EventProtocol' /\ CallOrderKept' /\ NoOrphanHandle' /\ BlameIsFounded'
<1>1. NowInStep /\ NowOrdered /\ NowHandled
  BY NowHolds
<1>2. /\ PendingNow \in Seq(Message) /\ SpawnedNow \in Seq(Message) /\ called \in Seq(Message)
      /\ HandleNow \in [Message -> {"Unsent", "StillBeingSent"} \cup SendingResult]
  BY NowTypes DEF ClientInv, TypeOK
<1>3. /\ networking' = NetworkingNow /\ slot' = SlotNow
      /\ announced' = AnnouncedNow /\ called' = Append(called, m)
      /\ UNCHANGED <<connecting, conn, polled>>
  BY DEF Send, ConnectIfPossible
<1>4. /\ Len(called') = Len(called) + 1
      /\ \A i \in 1 .. Len(called) : called'[i] = called[i]
  BY <1>2, <1>3, AppendProperties
<1>5. EventProtocol'
  BY <1>3 DEF ClientInv, EventProtocol
<1>6. CASE /\ NetworkingNow = "Connecting"
           /\ pending' = Append(PendingNow, m)
           /\ spawned' = SpawnedNow
           /\ handle' = [HandleNow EXCEPT ![m] = "StillBeingSent"]
  <2>1. EnumInStep'
    BY <1>1, <1>3, <1>6 DEF NowInStep, EnumInStep
  <2>2. CallOrderKept'
    <3>1. spawned' = <<>> /\ called = SpawnedNow \o PendingNow
      BY <1>1, <1>6 DEF NowInStep, NowOrdered
    <3>2. called' = spawned' \o pending'
      <4>1. called = PendingNow
        <5>1. <<>> \o PendingNow = PendingNow
          BY <1>2, ConcatEmptySeq
        <5>2. SpawnedNow = <<>>
          BY <1>6, <3>1
        <5>3. QED
          BY <3>1, <5>1, <5>2
      <4>2. Append(PendingNow, m) \in Seq(Message)
        BY <1>2, AppendProperties
      <4>3. <<>> \o Append(PendingNow, m) = Append(PendingNow, m)
        BY <4>2, ConcatEmptySeq
      <4>4. QED
        BY <1>3, <1>6, <3>1, <4>1, <4>3
    <3>3. QED
      BY <1>2, <1>4, <3>1, <3>2 DEF CallOrderKept
  <2>3. NoOrphanHandle'
    <3>1. Elements(pending') = Elements(PendingNow) \cup {m}
      BY <1>2, <1>6, ElementsAppend
    <3>2. \A n \in Message : handle'[n] = IF n = m THEN "StillBeingSent" ELSE HandleNow[n]
      BY <1>2, <1>6
    <3>3. Elements(PendingNow) \subseteq Message
      BY <1>2 DEF Elements
    <3>4. Elements(pending)' = Elements(pending') /\ Elements(spawned)' = Elements(SpawnedNow)
      BY <1>6 DEF Elements
    <3>5. QED
      BY <1>1, <1>3, <1>6, <3>1, <3>2, <3>3, <3>4 DEF NowHandled, NoOrphanHandle
  <2>4. BlameIsFounded'
    BY <1>1, <1>2, <1>3, <1>6 DEF NowHandled, BlameIsFounded, Lost
  <2>5. QED
    BY <1>5, <2>1, <2>2, <2>3, <2>4
<1>7. CASE /\ NetworkingNow = "Connected"
           /\ pending' = PendingNow
           /\ spawned' = Append(SpawnedNow, m)
           /\ handle' = [HandleNow EXCEPT ![m] = "StillBeingSent"]
  <2>1. EnumInStep'
    BY <1>1, <1>3, <1>7 DEF NowInStep, EnumInStep
  <2>2. CallOrderKept'
    <3>1. PendingNow = <<>> /\ called = SpawnedNow \o PendingNow
      BY <1>1, <1>7 DEF NowInStep, NowOrdered
    <3>2. called = SpawnedNow
      BY <1>2, <3>1
    <3>3. called' = spawned' /\ spawned' \in Seq(Message)
      BY <1>2, <1>3, <1>7, <3>2, AppendProperties
    <3>4. called' = spawned' \o pending'
      BY <1>7, <3>1, <3>3
    <3>5. QED
      BY <1>2, <3>3, <3>4 DEF CallOrderKept
  <2>3. NoOrphanHandle'
    <3>1. Elements(spawned') = Elements(SpawnedNow) \cup {m}
      BY <1>2, <1>7, ElementsAppend
    <3>2. \A n \in Message : handle'[n] = IF n = m THEN "StillBeingSent" ELSE HandleNow[n]
      BY <1>2, <1>7
    <3>3. Elements(PendingNow) = {}
      BY <1>1, <1>7, ElementsEmpty DEF NowInStep
    <3>4. Elements(pending)' = Elements(PendingNow) /\ Elements(spawned)' = Elements(spawned')
      BY <1>7 DEF Elements
    <3>5. QED
      BY <1>1, <1>3, <1>7, <3>1, <3>2, <3>3, <3>4 DEF NowHandled, NoOrphanHandle
  <2>4. BlameIsFounded'
    BY <1>1, <1>2, <1>3, <1>7 DEF NowHandled, BlameIsFounded, Lost
  <2>5. QED
    BY <1>5, <2>1, <2>2, <2>3, <2>4
<1>8. CASE /\ NetworkingNow \in {"Us", "ThePeerDidntEvenConnect"}
           /\ pending' = PendingNow
           /\ spawned' = SpawnedNow
           /\ handle' = [HandleNow EXCEPT ![m] = IF NetworkingNow = "Us" THEN "WeClosed"
                                                   ELSE "PeerClosedOrDied"]
  <2>1. EnumInStep'
    BY <1>1, <1>3, <1>8 DEF NowInStep, EnumInStep
  <2>2. CallOrderKept'
    BY <1>1, <1>2, <1>3, <1>4, <1>8 DEF NowOrdered, CallOrderKept
  <2>3. NoOrphanHandle'
    <3>1. Elements(PendingNow) = {}
      BY <1>1, <1>8, ElementsEmpty DEF NowInStep
    <3>2. Elements(pending)' = Elements(PendingNow) /\ Elements(spawned)' = Elements(SpawnedNow)
      BY <1>8 DEF Elements
    <3>3. QED
      BY <1>1, <1>2, <1>8, <3>1, <3>2 DEF NowHandled, NoOrphanHandle
  <2>4. BlameIsFounded'
    BY <1>1, <1>2, <1>3, <1>8 DEF NowHandled, BlameIsFounded, Lost
  <2>5. QED
    BY <1>5, <2>1, <2>2, <2>3, <2>4
<1>9. QED
  BY <1>6, <1>7, <1>8 DEF Send

\* So does a call to poll_event_from_server.
LEMMA PollStep ==
  ASSUME ClientInv, Poll
  PROVE  EnumInStep' /\ EventProtocol' /\ CallOrderKept' /\ NoOrphanHandle' /\ BlameIsFounded'
<1>1. NowInStep /\ NowOrdered /\ NowHandled
  BY NowHolds
<1>2. polled \in Seq(ClientEvent) /\ inbox \in Seq(NetworkEvent)
  BY DEF ClientInv, TypeOK
<1>3. /\ networking' = NetworkingNow /\ slot' = SlotNow /\ announced' = TRUE
      /\ pending' = PendingNow /\ spawned' = SpawnedNow /\ handle' = HandleNow
      /\ UNCHANGED <<connecting, conn, called>>
  BY DEF Poll, ConnectIfPossible
<1>4. CallOrderKept'
  BY <1>1, <1>3 DEF NowOrdered, CallOrderKept
<1>5. NoOrphanHandle'
  <2>1. Elements(pending)' = Elements(PendingNow) /\ Elements(spawned)' = Elements(SpawnedNow)
    BY <1>3 DEF Elements
  <2>2. QED
    BY <1>1, <1>3, <2>1 DEF NowHandled, NoOrphanHandle
<1>6. BlameIsFounded'
  BY <1>1, <1>3 DEF NowHandled, BlameIsFounded, Lost
<1>7. PICK ev \in ClientEvent :
        /\ polled' = Append(polled, ev)
        /\ ~AnnouncedNow <=> ev \in {ConnectedEvent, FailedToConnectEvent}
        /\ NetworkingNow \in {"Connected", "ThePeerDidntEvenConnect"}
        /\ NetworkingNow = "ThePeerDidntEvenConnect" <=> ev = FailedToConnectEvent
  <2>1. ConnectedEvent \in ClientEvent /\ FailedToConnectEvent \in ClientEvent
        /\ ConnectedEvent # FailedToConnectEvent
    BY DEF ClientEvent, ConnectedEvent, FailedToConnectEvent
  <2>2. inbox # <<>> => /\ Head(inbox) \in ClientEvent
                       /\ Head(inbox) \notin {ConnectedEvent, FailedToConnectEvent}
    <3>1. inbox # <<>> => Head(inbox) \in NetworkEvent
      BY <1>2
    <3>2. \A ev \in NetworkEvent : ev \in ClientEvent /\ ev.kind \in {"Message", "Disconnected"}
      BY DEF NetworkEvent, ClientEvent, MessageEvent, DisconnectedEvent
    <3>3. QED
      BY <3>1, <3>2 DEF ConnectedEvent, FailedToConnectEvent
  <2>3. CASE NetworkingNow = "Connected" /\ ~AnnouncedNow /\ polled' = Append(polled, ConnectedEvent)
    BY <2>1, <2>3
  <2>4. CASE /\ NetworkingNow = "Connected" /\ AnnouncedNow
             /\ inbox # <<>> /\ polled' = Append(polled, Head(inbox))
    BY <2>1, <2>2, <2>4
  <2>5. CASE /\ NetworkingNow = "ThePeerDidntEvenConnect" /\ ~AnnouncedNow
             /\ polled' = Append(polled, FailedToConnectEvent)
    BY <2>1, <2>5
  <2>6. QED
    BY <2>3, <2>4, <2>5 DEF Poll
<1>8. /\ Len(polled') = Len(polled) + 1 /\ Len(polled) \in Nat
      /\ polled'[Len(polled) + 1] = ev
      /\ \A i \in 1 .. Len(polled) : polled'[i] = polled[i]
  BY <1>2, <1>7, AppendProperties
<1>9. ~AnnouncedNow <=> Len(polled) = 0
  BY <1>1, <1>2 DEF NowInStep
<1>10. EnumInStep'
  <2>1. polled' # <<>>
    BY <1>8
  <2>2. \A i \in 1 .. Len(polled') :
          /\ NetworkingNow = "Connected" => polled'[i] # FailedToConnectEvent
          /\ NetworkingNow = "ThePeerDidntEvenConnect" => polled'[i] = FailedToConnectEvent
    BY <1>1, <1>7, <1>8 DEF NowInStep
  <2>3. QED
    BY <1>1, <1>3, <1>7, <2>1, <2>2 DEF NowInStep, EnumInStep
<1>11. EventProtocol'
  <2>1. SUFFICES ASSUME NEW i \in 1 .. Len(polled')
                 PROVE  /\ i = 1 <=> polled'[i] \in {ConnectedEvent, FailedToConnectEvent}
                        /\ polled'[i] = FailedToConnectEvent => Len(polled') = 1
    BY DEF EventProtocol
  <2>2. CASE i = Len(polled) + 1
    BY <1>7, <1>8, <1>9, <2>2
  <2>3. CASE i \in 1 .. Len(polled)
    <3>1. /\ i = 1 <=> polled[i] \in {ConnectedEvent, FailedToConnectEvent}
          /\ polled[i] = FailedToConnectEvent => Len(polled) = 1
      BY <2>3 DEF ClientInv, EventProtocol
    <3>2. polled[i] # FailedToConnectEvent
      <4>1. NetworkingNow = "Connected"
        BY <1>7, <1>8, <1>9, <2>3
      <4>2. QED
        BY <1>1, <2>3, <4>1 DEF NowInStep
    <3>3. QED
      BY <1>8, <2>3, <3>1, <3>2
  <2>4. QED
    BY <1>8, <2>2, <2>3
<1>12. QED
  BY <1>4, <1>5, <1>6, <1>10, <1>11

\* What the tasks and the user's leaving do to the invariant.
LEMMA OtherStep ==
  ASSUME ClientInv,
         \/ Connect \/ Disconnect \/ Drop \/ LoopEnds \/ LoseConnection
         \/ \E v \in ServerMessage : ReaderEnds(v)
         \/ \E m \in Message : SendTaskEnds(m)
         \/ UNCHANGED vars
  PROVE  EnumInStep' /\ EventProtocol' /\ CallOrderKept' /\ NoOrphanHandle' /\ BlameIsFounded'
<1> TypeOK /\ EnumInStep /\ EventProtocol /\ CallOrderKept /\ NoOrphanHandle /\ BlameIsFounded
  BY DEF ClientInv
<1>1. UNCHANGED <<polled, called, spawned>>
  BY DEF Connect, ConnectSucceeds, ConnectTimesOut, ConnectPanics, Answer,
         Disconnect, DisconnectWhileConnecting, DisconnectWhileConnected, Drop,
         LoopEnds, LoseConnection, ReaderEnds, SendTaskEnds, vars
<1>2. EventProtocol'
  BY <1>1 DEF EventProtocol
<1>3. UNCHANGED Elements(spawned)
  BY <1>1 DEF Elements
<1>4. CASE UNCHANGED <<enumVars, conn, handle>> /\ (connecting' = "trying" => UNCHANGED taskVars)
  <2>1. EnumInStep' /\ CallOrderKept'
    BY <1>1, <1>4 DEF EnumInStep, CallOrderKept
  <2>2. NoOrphanHandle'
    BY <1>3, <1>4 DEF NoOrphanHandle, Elements
  <2>3. BlameIsFounded'
    BY <1>4 DEF BlameIsFounded, Lost
  <2>4. QED
    BY <1>2, <2>1, <2>2, <2>3
<1>5. CASE ConnectSucceeds \/ LoseConnection
  <2>1. /\ UNCHANGED <<enumVars, handle>>
        /\ connecting' # "trying"
        /\ conn' # "LocallyClosed" /\ conn \in {"none", "open"}
    <3>1. CASE ConnectSucceeds
      BY <3>1 DEF ConnectSucceeds, Answer, EnumInStep
    <3>2. CASE LoseConnection
      BY <3>2 DEF LoseConnection, EnumInStep
    <3>3. QED
      BY <1>5, <3>1, <3>2
  <2>2. EnumInStep' /\ CallOrderKept'
    BY <1>1, <2>1 DEF EnumInStep, CallOrderKept
  <2>3. NoOrphanHandle'
    BY <1>3, <2>1 DEF NoOrphanHandle, Elements
  <2>4. BlameIsFounded'
    BY <2>1 DEF BlameIsFounded, Lost, ConnectionError
  <2>5. QED
    BY <1>2, <2>2, <2>3, <2>4
<1>6. CASE DisconnectWhileConnecting \/ Drop
  <2>1. /\ networking \in {"Connecting", "Connected"} /\ networking' \in {"Us", "Dropped"}
        /\ pending' = <<>>
        /\ UNCHANGED <<announced, connecting, conn>> /\ slot' = "closed"
    BY <1>6 DEF DisconnectWhileConnecting, Drop
  <2>2. \E a \in {"WeClosed", "Error"} :
          /\ \A m \in Message : handle'[m] = IF m \in Elements(pending) THEN a ELSE handle[m]
          /\ a = "WeClosed" => networking' = "Us"
    BY <1>6 DEF DisconnectWhileConnecting, Drop, Dropping
  <2>3. EnumInStep' /\ CallOrderKept'
    BY <1>1, <2>1 DEF EnumInStep, CallOrderKept
  <2>4. NoOrphanHandle'
    <3>1. Elements(pending)' = {}
      BY <2>1, ElementsEmpty DEF Elements
    <3>2. QED
      BY <1>3, <2>2, <3>1 DEF NoOrphanHandle
  <2>5. BlameIsFounded'
    BY <2>1, <2>2 DEF BlameIsFounded, Lost
  <2>6. QED
    BY <1>2, <2>3, <2>4, <2>5
<1>7. CASE DisconnectWhileConnected
  <2>1. /\ networking = "Connected" /\ networking' = "Us" /\ Lost'
        /\ UNCHANGED <<announced, pending, connecting, handle>>
    BY <1>7 DEF DisconnectWhileConnected, Lost, ConnectionError
  <2>2. connecting # "trying"
    BY <2>1 DEF EnumInStep
  <2>3. EnumInStep' /\ CallOrderKept'
    BY <1>1, <2>1, <2>2 DEF EnumInStep, CallOrderKept
  <2>4. NoOrphanHandle'
    BY <1>3, <2>1, ElementsEmpty DEF NoOrphanHandle, Elements, EnumInStep
  <2>5. BlameIsFounded'
    BY <2>1 DEF BlameIsFounded
  <2>6. QED
    BY <1>2, <2>3, <2>4, <2>5
<1>8. ASSUME NEW m \in Message, SendTaskEnds(m)
      PROVE  EnumInStep' /\ CallOrderKept' /\ NoOrphanHandle' /\ BlameIsFounded'
  <2>1. /\ m \in Elements(spawned)
        /\ UNCHANGED <<enumVars, taskVars, conn>>
    BY <1>8 DEF SendTaskEnds
  <2>2. PICK r \in SendingResult :
          /\ handle' = [handle EXCEPT ![m] = r]
          /\ r = "WeClosed" => conn = "LocallyClosed"
          /\ r = "PeerClosedOrDied" => Lost
    <3>1. PICK r \in {"Sent", "Error"} \cup (IF Lost THEN {FromConnectionError(conn)} ELSE {}) :
            handle' = [handle EXCEPT ![m] = r]
      BY <1>8 DEF SendTaskEnds
    <3>2. CASE r \in {"Sent", "Error"}
      BY <3>1, <3>2 DEF SendingResult
    <3>3. CASE Lost /\ r = FromConnectionError(conn)
      BY <3>1, <3>3, ResultTypes DEF Lost
    <3>4. QED
      BY <3>1, <3>2, <3>3
  <2>3. \A n \in Message : handle'[n] = IF n = m THEN r ELSE handle[n]
    BY <2>2 DEF TypeOK
  <2>4. EnumInStep' /\ CallOrderKept'
    BY <1>1, <2>1 DEF EnumInStep, CallOrderKept
  <2>5. NoOrphanHandle'
    <3>1. networking = "Connecting" => Elements(spawned) = {}
      BY ElementsEmpty DEF EnumInStep
    <3>2. Elements(pending)' = Elements(pending) /\ Elements(pending) \subseteq Message
      BY <2>1 DEF Elements, TypeOK
    <3>3. m \notin Elements(pending)
      BY <2>1, <3>1 DEF NoOrphanHandle
    <3>4. \A n \in Message : handle'[n] = "StillBeingSent" => handle[n] = "StillBeingSent"
      BY <2>2, <2>3 DEF SendingResult
    <3>5. QED
      BY <1>3, <2>1, <2>3, <3>2, <3>3, <3>4 DEF NoOrphanHandle
  <2>6. BlameIsFounded'
    BY <2>1, <2>2, <2>3 DEF BlameIsFounded, EnumInStep, Lost
  <2>7. QED
    BY <2>4, <2>5, <2>6
<1>9. ASSUME ConnectTimesOut \/ ConnectPanics \/ LoopEnds \/ UNCHANGED vars
             \/ \E v \in ServerMessage : ReaderEnds(v)
      PROVE  UNCHANGED <<enumVars, conn, handle>> /\ (connecting' = "trying" => UNCHANGED taskVars)
  BY <1>9 DEF ConnectTimesOut, ConnectPanics, Answer, LoopEnds, ReaderEnds, vars
<1>10. QED
  BY <1>2, <1>4, <1>5, <1>6, <1>7, <1>8, <1>9 DEF Connect, Disconnect

\* A connection left open by disconnect stays unused.
LEMMA LeftOpenStep ==
  ASSUME ClientInv, [Next]_vars
  PROVE  ConnectingKeepsHandles' /\ LeftOpenIsUnused'
<1> USE DEF ClientInv, TypeOK, ConnectingKeepsHandles, LeftOpenIsUnused, Lost
<1>1. ASSUME NEW m \in Message, Send(m)
      PROVE  ConnectingKeepsHandles' /\ LeftOpenIsUnused'
  <2>1. CASE networking = "Us"
    BY <1>1, <2>1 DEF Send, ConnectIfPossible, NetworkingNow, SpawnedNow, HandleNow, Answered,
                      connVars
  <2>2. CASE networking # "Us"
    BY <1>1, <2>2 DEF Send, ConnectIfPossible, NetworkingNow, HandleNow, Answered
  <2>3. QED
    BY <2>1, <2>2
<1>2. CASE Poll
  BY <1>2 DEF Poll, ConnectIfPossible, NetworkingNow, Answered
<1>3. CASE DisconnectWhileConnecting
  <2>1. spawned = <<>> /\ polled = <<>>
    BY <1>3 DEF DisconnectWhileConnecting, EnumInStep
  <2>2. \A m \in Message : handle[m] = "StillBeingSent" => m \in Elements(pending)
    BY <2>1, ElementsEmpty DEF NoOrphanHandle
  <2>3. QED
    BY <1>3, <2>1, <2>2 DEF DisconnectWhileConnecting, userVars
<1>4. CASE DisconnectWhileConnected
  BY <1>4 DEF DisconnectWhileConnected, ConnectionError
<1>5. CASE Drop
  BY <1>5 DEF Drop
<1>6. ASSUME NEW m \in Message, SendTaskEnds(m)
      PROVE  ConnectingKeepsHandles' /\ LeftOpenIsUnused'
  <2>1. spawned # <<>>
    BY <1>6, ElementsEmpty DEF SendTaskEnds
  <2>2. QED
    BY <1>6, <2>1 DEF SendTaskEnds, EnumInStep, enumVars, connVars, userVars
<1>7. CASE \/ Connect \/ LoopEnds \/ LoseConnection \/ UNCHANGED vars
           \/ \E v \in ServerMessage : ReaderEnds(v)
  <2>1. UNCHANGED <<networking, handle, spawned, polled>> /\ (Lost => UNCHANGED conn)
    BY <1>7 DEF Connect, ConnectSucceeds, ConnectTimesOut, ConnectPanics, Answer, LoopEnds,
                LoseConnection, ReaderEnds, vars, enumVars, connVars, userVars, sendVars, EnumInStep,
                ConnectionError
  <2>2. QED
    BY <2>1
<1>8. QED
  BY <1>1, <1>2, <1>3, <1>4, <1>5, <1>6, <1>7 DEF Next, Disconnect

------------------------------------------------------------------------------

\* What one more event, or one less in front, does to a sequence of events.
LEMMA OneMoreEvent ==
  ASSUME NEW S, NEW s \in Seq(S), NEW ev \in S
  PROVE  /\ Elements(Append(s, ev)) = Elements(s) \cup {ev}
         /\ EachMessageOnce(s) /\ (ev.kind = "Message" => ev \notin Elements(s))
              => EachMessageOnce(Append(s, ev))
<1>1. /\ Len(Append(s, ev)) = Len(s) + 1 /\ Len(s) \in Nat
      /\ Append(s, ev)[Len(s) + 1] = ev
      /\ \A i \in 1 .. Len(s) : Append(s, ev)[i] = s[i]
  BY AppendProperties
<1>2. \A i \in 1 .. Len(s) + 1 : i \in 1 .. Len(s) \/ i = Len(s) + 1
  BY <1>1
<1>3. \A e : e \in Elements(Append(s, ev)) <=> e \in Elements(s) \/ e = ev
  BY <1>1, <1>2 DEF Elements
<1>4. ASSUME EachMessageOnce(s), ev.kind = "Message" => ev \notin Elements(s)
      PROVE  EachMessageOnce(Append(s, ev))
  <2>1. \A i \in 1 .. Len(s) : ev.kind = "Message" => s[i] # ev
    BY <1>4 DEF Elements
  <2>2. \A i, j \in 1 .. Len(s) : s[i].kind = "Message" /\ s[i] = s[j] => i = j
    BY <1>4 DEF EachMessageOnce
  <2>3. QED
    BY <1>1, <1>2, <2>1, <2>2 DEF EachMessageOnce
<1>5. QED
  BY <1>3, <1>4

LEMMA OneEventLess ==
  ASSUME NEW S, NEW s \in Seq(S), s # <<>>
  PROVE  /\ Head(s) \in Elements(s) /\ Elements(Tail(s)) \subseteq Elements(s)
         /\ EachMessageOnce(s) =>
              /\ EachMessageOnce(Tail(s))
              /\ Head(s).kind = "Message" => Head(s) \notin Elements(Tail(s))
<1>1. /\ Len(s) \in Nat \ {0} /\ Len(Tail(s)) = Len(s) - 1 /\ Head(s) = s[1]
      /\ \A i \in 1 .. Len(Tail(s)) : Tail(s)[i] = s[i + 1]
  BY HeadTailProperties, EmptySeq
<1>2. \A i \in 1 .. Len(Tail(s)) : i + 1 \in 1 .. Len(s) /\ i + 1 # 1
  BY <1>1
<1>3. 1 \in 1 .. Len(s)
  BY <1>1
<1>4. Head(s) \in Elements(s) /\ Elements(Tail(s)) \subseteq Elements(s)
  BY <1>1, <1>2, <1>3 DEF Elements
<1>5. ASSUME EachMessageOnce(s)
      PROVE  /\ EachMessageOnce(Tail(s))
             /\ Head(s).kind = "Message" => Head(s) \notin Elements(Tail(s))
  <2>1. \A i, j \in 1 .. Len(s) : s[i].kind = "Message" /\ s[i] = s[j] => i = j
    BY <1>5 DEF EachMessageOnce
  <2>2. ASSUME NEW i \in 1 .. Len(Tail(s)), NEW j \in 1 .. Len(Tail(s)),
               Tail(s)[i].kind = "Message", Tail(s)[i] = Tail(s)[j]
        PROVE  i = j
    <3>1. i + 1 = j + 1
      BY <1>1, <1>2, <2>1, <2>2
    <3>2. QED
      BY <3>1
  <2>3. Head(s).kind = "Message" => \A i \in 1 .. Len(Tail(s)) : Tail(s)[i] # Head(s)
    BY <1>1, <1>2, <1>3, <2>1
  <2>4. QED
    BY <2>2, <2>3 DEF EachMessageOnce, Elements
<1>6. QED
  BY <1>4, <1>5

\* The kinds of events.
LEMMA EventKinds ==
  /\ ConnectedEvent.kind = "Connected" /\ FailedToConnectEvent.kind = "FailedToConnect"
  /\ \A v : MessageEvent(v).kind = "Message" /\ MessageEvent(v).value = v
  /\ \A d : DisconnectedEvent(d).kind = "Disconnected"
  /\ \A ev \in NetworkEvent :
       \/ ev.kind = "Message" /\ ev.value \in ServerMessage /\ ev = MessageEvent(ev.value)
       \/ ev.kind = "Disconnected" /\ ev \in {DisconnectedEvent(d) : d \in {"None", "Timeout"}}
  BY DEF ConnectedEvent, FailedToConnectEvent, MessageEvent, DisconnectedEvent, NetworkEvent

\* A connection that is lost stays lost.
LEMMA LostStep ==
  ASSUME ClientInv, [Next]_vars, Lost
  PROVE  Lost'
  BY DEF ClientInv, EnumInStep, Lost, ConnectionError, Next, Send, Poll, Connect, ConnectSucceeds,
         ConnectTimesOut, ConnectPanics, Answer, Disconnect, DisconnectWhileConnecting,
         DisconnectWhileConnected, Drop, LoopEnds, LoseConnection, ReaderEnds, SendTaskEnds, vars

\* Every step keeps the events in step with the readers and the connection.
LEMMA EventStep ==
  ASSUME ClientInv, [Next]_vars
  PROVE  EventsInStep'
<1>t. polled \in Seq(ClientEvent) /\ inbox \in Seq(NetworkEvent) /\ arrived \subseteq ServerMessage
  BY DEF ClientInv, TypeOK
<1>e. EventsInStep
  BY DEF ClientInv
<1>l. Lost => Lost'
  BY LostStep
<1>1. ASSUME UNCHANGED polled, inbox' = inbox \/ inbox' = <<>>, arrived \subseteq arrived'
      PROVE  EventsInStep'
  <2>1. EachMessageOnce(<<>>) /\ Elements(<<>>) = {}
    BY DEF EachMessageOnce, Elements
  <2>2. /\ EachMessageOnce(polled') /\ EachMessageOnce(inbox')
        /\ Elements(polled') = Elements(polled) /\ Elements(inbox') \subseteq Elements(inbox)
    BY <1>1, <1>e, <2>1 DEF EventsInStep
  <2>3. QED
    BY <1>1, <1>e, <1>l, <2>2 DEF EventsInStep, EachMessageOnce, Elements
<1>2. ASSUME NEW ev \in NetworkEvent, UNCHANGED polled, inbox' = Append(inbox, ev),
             arrived \subseteq arrived',
             ev.kind = "Message" => ev.value \in arrived' \ arrived,
             ev.kind = "Disconnected" => Lost
      PROVE  EventsInStep'
  <2>1. ev.kind = "Message" => ev \notin Elements(polled) \cup Elements(inbox)
    BY <1>2, <1>e DEF EventsInStep
  <2>2. Elements(inbox') = Elements(inbox) \cup {ev} /\ EachMessageOnce(inbox')
    BY <1>2, <1>e, <1>t, <2>1, OneMoreEvent DEF EventsInStep
  <2>3. Elements(polled') = Elements(polled) /\ EachMessageOnce(polled')
    BY <1>2, <1>e DEF EventsInStep
  <2>4. /\ \A e \in Elements(polled') \cap Elements(inbox') : e.kind # "Message"
        /\ \A e \in Elements(polled') \cup Elements(inbox') :
             /\ e.kind = "Message" => e.value \in arrived'
             /\ e.kind = "Disconnected" => Lost'
    BY <1>2, <1>e, <1>l, <2>1, <2>2, <2>3 DEF EventsInStep
  <2>5. QED
    BY <2>2, <2>3, <2>4 DEF EventsInStep, EachMessageOnce, Elements
<1>3. CASE Poll
  <2>1. UNCHANGED <<arrived, conn>>
    BY <1>3 DEF Poll
  <2>2. ASSUME NEW ev \in ClientEvent, ev.kind \notin {"Message", "Disconnected"},
               polled' = Append(polled, ev), UNCHANGED inbox
        PROVE  EventsInStep'
    <3>1. Elements(polled') = Elements(polled) \cup {ev} /\ EachMessageOnce(polled')
      BY <1>e, <1>t, <2>2, OneMoreEvent DEF EventsInStep
    <3>2. /\ \A e \in Elements(polled') \cap Elements(inbox') : e.kind # "Message"
          /\ \A e \in Elements(polled') \cup Elements(inbox') :
               /\ e.kind = "Message" => e.value \in arrived'
               /\ e.kind = "Disconnected" => Lost'
      BY <1>e, <1>l, <2>1, <2>2, <3>1 DEF EventsInStep
    <3>3. EachMessageOnce(inbox')
      BY <1>e, <2>2 DEF EventsInStep
    <3>4. QED
      BY <3>1, <3>2, <3>3 DEF EventsInStep, EachMessageOnce, Elements
  <2>3. CASE inbox # <<>> /\ polled' = Append(polled, Head(inbox)) /\ inbox' = Tail(inbox)
    <3>1. Head(inbox) \in ClientEvent
      BY <1>t, <2>3, HeadTailProperties DEF ClientEvent
    <3>2. /\ Head(inbox) \in Elements(inbox) /\ Elements(inbox') \subseteq Elements(inbox)
          /\ EachMessageOnce(inbox')
          /\ Head(inbox).kind = "Message" => Head(inbox) \notin Elements(inbox')
      BY <1>e, <1>t, <2>3, OneEventLess DEF EventsInStep
    <3>3. Head(inbox).kind = "Message" => Head(inbox) \notin Elements(polled)
      BY <1>e, <3>2 DEF EventsInStep
    <3>4. Elements(polled') = Elements(polled) \cup {Head(inbox)} /\ EachMessageOnce(polled')
      BY <1>e, <1>t, <2>3, <3>1, <3>3, OneMoreEvent DEF EventsInStep
    <3>5. /\ \A e \in Elements(polled') \cap Elements(inbox') : e.kind # "Message"
          /\ \A e \in Elements(polled') \cup Elements(inbox') :
               /\ e.kind = "Message" => e.value \in arrived'
               /\ e.kind = "Disconnected" => Lost'
      BY <1>e, <1>l, <2>1, <3>2, <3>4 DEF EventsInStep
    <3>6. QED
      BY <3>2, <3>4, <3>5 DEF EventsInStep, EachMessageOnce, Elements
  <2>4. ConnectedEvent \in ClientEvent /\ FailedToConnectEvent \in ClientEvent
    BY DEF ClientEvent
  <2>5. QED
    BY <1>3, <2>2, <2>3, <2>4, EventKinds DEF Poll
<1>4. ASSUME NEW v \in ServerMessage, ReaderEnds(v)
      PROVE  EventsInStep'
  <2>1. v \notin arrived /\ arrived' = arrived \cup {v} /\ UNCHANGED polled
    BY <1>4 DEF ReaderEnds
  <2>2. CASE Emit(MessageEvent(v))
    BY <1>1, <1>2, <2>1, <2>2, EventKinds DEF Emit, NetworkEvent
  <2>3. CASE Lost /\ Emit(ToEvent(conn))
    BY <1>1, <1>2, <2>1, <2>3, EventKinds, ToEventTypes DEF Emit, NetworkEvent
  <2>4. QED
    BY <1>4, <2>2, <2>3 DEF ReaderEnds
<1>5. CASE LoopEnds
  <2>1. UNCHANGED <<arrived, polled>> /\ Lost /\ Emit(ToEvent(conn))
    BY <1>5 DEF LoopEnds
  <2>2. QED
    BY <1>1, <1>2, <2>1, EventKinds, ToEventTypes DEF Emit, NetworkEvent
<1>6. CASE Disconnect \/ Drop
  BY <1>1, <1>6 DEF Disconnect, DisconnectWhileConnecting, DisconnectWhileConnected, Drop
<1>7. CASE \/ \E m \in Message : Send(m) \/ SendTaskEnds(m)
           \/ Connect \/ LoseConnection \/ UNCHANGED vars
  BY <1>1, <1>7 DEF Send, SendTaskEnds, Connect, ConnectSucceeds, ConnectTimesOut, ConnectPanics,
                    Answer, LoseConnection, vars
<1>8. QED
  BY <1>3, <1>4, <1>5, <1>6, <1>7 DEF Next

\* The oneshot channel is filled once, and emptied only by the call that moves
\* the client on.
LEMMA AnswerStep ==
  ASSUME TypeOK, AnswerIsKept, [Next]_vars
  PROVE  AnswerIsKept'
<1>1. CASE (\E m \in Message : Send(m)) \/ Poll
  BY <1>1 DEF Send, Poll, ConnectIfPossible, NetworkingNow, SlotNow, Answered, AnswerIsKept
<1>2. CASE Connect
  BY <1>2 DEF Connect, ConnectSucceeds, ConnectTimesOut, ConnectPanics, Answer, enumVars,
              AnswerIsKept
<1>3. CASE Disconnect \/ Drop
  BY <1>3 DEF Disconnect, DisconnectWhileConnecting, DisconnectWhileConnected, Drop,
              AnswerIsKept
<1>4. CASE UNCHANGED <<networking, taskVars>>
  BY <1>4 DEF taskVars, AnswerIsKept
<1>5. QED
  BY <1>1, <1>2, <1>3, <1>4 DEF Next, SendTaskEnds, ReaderEnds, LoopEnds, LoseConnection,
       vars, enumVars

------------------------------------------------------------------------------

\* The client's object keeps its invariant whatever the order of the user's
\* calls and of the tasks.
THEOREM ClientInvariant == Spec => []ClientInv
<1>1. Init => ClientInv
  <2> SUFFICES ASSUME Init PROVE ClientInv
    OBVIOUS
  <2>1. TypeOK
    <3>1. pending \in Seq(Message) /\ called \in Seq(Message) /\ spawned \in Seq(Message)
      BY DEF Init
    <3>2. inbox \in Seq(NetworkEvent) /\ polled \in Seq(ClientEvent)
      BY DEF Init
    <3>3. handle \in [Message -> {"Unsent", "StillBeingSent"} \cup SendingResult]
      BY DEF Init
    <3>4. QED
      BY <3>1, <3>2, <3>3 DEF Init, TypeOK
  <2>2. EnumInStep
    BY DEF Init, EnumInStep, ConnectionError
  <2>3. EventProtocol /\ BlameIsFounded
    BY DEF Init, EventProtocol, BlameIsFounded
  <2>4. CallOrderKept
    BY DEF Init, CallOrderKept
  <2>5. NoOrphanHandle
    BY ElementsEmpty DEF Init, NoOrphanHandle
  <2>6. ConnectingKeepsHandles /\ LeftOpenIsUnused
    BY DEF Init, ConnectingKeepsHandles, LeftOpenIsUnused
  <2>7. EventsInStep
    BY ElementsEmpty DEF Init, EventsInStep, EachMessageOnce
  <2>8. AnswerIsKept
    BY DEF Init, AnswerIsKept
  <2>9. QED
    BY <2>1, <2>2, <2>3, <2>4, <2>5, <2>6, <2>7, <2>8 DEF ClientInv
<1>2. ClientInv /\ [Next]_vars => ClientInv'
  <2> SUFFICES ASSUME ClientInv, [Next]_vars PROVE ClientInv'
    OBVIOUS
  <2>1. TypeOK'
    BY TypeStep DEF ClientInv
  <2>2. EnumInStep' /\ EventProtocol' /\ CallOrderKept' /\ NoOrphanHandle' /\ BlameIsFounded'
    BY SendStep, PollStep, OtherStep DEF Next
  <2>3. QED
    BY <2>1, <2>2, LeftOpenStep, EventStep, AnswerStep DEF ClientInv
<1>3. QED
  BY <1>1, <1>2, PTL DEF Spec

\* The user hears of the outcome of the connecting first, and once.
THEOREM ProtocolIsKept == Spec => []EventProtocol
<1>1. ClientInv => EventProtocol
  BY DEF ClientInv
<1>2. QED
  BY <1>1, ClientInvariant, PTL

\* Messages are handed over in the order of the calls, none lost, none twice.
THEOREM OrderIsKept == Spec => []CallOrderKept
<1>1. ClientInv => CallOrderKept
  BY DEF ClientInv
<1>2. QED
  BY <1>1, ClientInvariant, PTL

\* No handle is left without a vector or a task that will resolve it.
THEOREM HandlesAreHeld == Spec => []NoOrphanHandle
<1>1. ClientInv => NoOrphanHandle
  BY DEF ClientInv
<1>2. QED
  BY <1>1, ClientInvariant, PTL

\* Nobody waits in vain: not the user for the outcome of the connecting, nor a
\* handle for its result, unless the connecting task has panicked.
THEOREM ClientsCanGoOn == Spec => []ClientCanGoOn
<1>1. ClientInv => ClientCanGoOn
  <2> SUFFICES ASSUME ClientInv PROVE ClientCanGoOn
    OBVIOUS
  <2>1. networking = "Connecting" => connecting \in {"trying", "panicked"} \/ Answered
    BY DEF ClientInv, TypeOK, AnswerIsKept, Answered
  <2>2. \A m \in Message :
          handle[m] = "StillBeingSent" => networking = "Connecting" \/ m \in Elements(spawned)
    BY DEF ClientInv, NoOrphanHandle
  <2>3. QED
    BY <2>1, <2>2 DEF ClientCanGoOn
<1>2. QED
  BY <1>1, ClientInvariant, PTL

\* A failed handle blames the side that is to blame.
THEOREM BlameIsTrue == Spec => []BlameIsFounded
<1>1. ClientInv => BlameIsFounded
  BY DEF ClientInv
<1>2. QED
  BY <1>1, ClientInvariant, PTL

\* A connection that disconnect leaves open was never used.
THEOREM LeftOpenWasUnused == Spec => []LeftOpenIsUnused
<1>1. ClientInv => LeftOpenIsUnused
  BY DEF ClientInv
<1>2. QED
  BY <1>1, ClientInvariant, PTL

\* Nothing is told to the user, and no task is started, after disconnect.
THEOREM DisconnectEnds == Spec => DisconnectIsFinal
<1>1. [Next]_vars => [networking = "Us" => UNCHANGED <<networking, polled, spawned>>]_vars
  BY DEF Next, Send, Poll, ConnectIfPossible, NetworkingNow, SpawnedNow, Answered, Connect,
         ConnectSucceeds, ConnectTimesOut, ConnectPanics, Answer, Disconnect,
         DisconnectWhileConnecting, DisconnectWhileConnected, Drop, LoopEnds, LoseConnection,
         ReaderEnds, SendTaskEnds, vars
<1>2. QED
  BY <1>1, PTL DEF Spec, DisconnectIsFinal

------------------------------------------------------------------------------
(* The client's object keeps the promise of ClientPromise.                 *)

\* The two modules speak of the same elements, events and empty handles.
LEMMA PromiseWords ==
  /\ \A s : Promise!Elements(s) = Elements(s)
  /\ Promise!ConnectedEvent = ConnectedEvent
  /\ Promise!FailedToConnectEvent = FailedToConnectEvent
  /\ Promise!SendingResult = SendingResult
  /\ \A v : Promise!MessageEvent(v) = MessageEvent(v)
  /\ \A d : Promise!DisconnectedEvent(d) = DisconnectedEvent(d)
  BY DEF Promise!Elements, Elements, Promise!ConnectedEvent, ConnectedEvent,
         Promise!FailedToConnectEvent, FailedToConnectEvent, Promise!SendingResult, SendingResult,
         Promise!MessageEvent, MessageEvent, Promise!DisconnectedEvent, DisconnectedEvent

\* While the client is connecting, the unresolved handles are those of the
\* pending messages.
LEMMA PendingIsUnresolved ==
  ASSUME ClientInv, networking = "Connecting"
  PROVE  /\ \A m \in Message : m \in Elements(pending) <=> handle[m] = "StillBeingSent"
         /\ \A r : [m \in Message |-> IF m \in Elements(pending) THEN r ELSE handle[m]]
                     = Promise!EndAll(r)
<1>1. \A m \in Message : handle[m] = "StillBeingSent" => m \in Elements(pending)
  BY ElementsEmpty DEF ClientInv, EnumInStep, NoOrphanHandle
<1>2. \A m \in Message : m \in Elements(pending) => handle[m] = "StillBeingSent"
  BY DEF ClientInv, NoOrphanHandle
<1>3. QED
  BY <1>1, <1>2 DEF Promise!EndAll

\* What connect_if_possible does is what a call of the promise finds.
LEMMA NowIsFound ==
  ASSUME ClientInv, networking # "Dropped", ConnectIfPossible
  PROVE  /\ Promise!Finds(NetworkingNow)
         /\ HandleNow = Promise!HandlesOnceFound(NetworkingNow)
         /\ NetworkingNow = "Connected" => SpawnedNow = called
         /\ NetworkingNow # "Connected" => SpawnedNow = spawned
<1>1. Promise!Finds(NetworkingNow)
  BY DEF ConnectIfPossible, Promise!Finds, NetworkingNow, Answered
<1>2. HandleNow = Promise!HandlesOnceFound(NetworkingNow)
  <2>1. CASE Answered /\ slot = "Timeout"
    <3>1. networking = "Connecting" /\ NetworkingNow = "ThePeerDidntEvenConnect"
      BY <2>1 DEF Answered, NetworkingNow
    <3>2. HandleNow = Promise!EndAll("Error")
      BY <2>1, <3>1, PendingIsUnresolved DEF HandleNow, Dropping
    <3>3. QED
      BY <3>1, <3>2 DEF Promise!HandlesOnceFound
  <2>2. CASE ~(Answered /\ slot = "Timeout")
    BY <2>2 DEF Answered, NetworkingNow, HandleNow, Promise!HandlesOnceFound
  <2>3. QED
    BY <2>1, <2>2
<1>3. NetworkingNow = "Connected" => SpawnedNow = called
  <2>1. NowInStep /\ NowOrdered
    BY NowHolds
  <2>2. SpawnedNow \in Seq(Message)
    BY NowTypes DEF ClientInv
  <2>3. SpawnedNow \o <<>> = SpawnedNow
    BY <2>2, ConcatEmptySeq
  <2>4. QED
    BY <2>1, <2>3 DEF NowInStep, NowOrdered
<1>4. NetworkingNow # "Connected" => SpawnedNow = spawned
  BY DEF NetworkingNow, SpawnedNow, Answered
<1>5. QED
  BY <1>1, <1>2, <1>3, <1>4

\* A call to send_message_to_server is the promise's.
LEMMA SendIsPromised ==
  ASSUME ClientInv, NEW m \in Message, Send(m)
  PROVE  Promise!Send(m)
<1>1. /\ networking # "Dropped" /\ m \notin Elements(called)
      /\ called' = Append(called, m) /\ ConnectIfPossible
      /\ UNCHANGED <<conn, polled>>
  BY DEF Send
<1>2. /\ Promise!Finds(NetworkingNow)
      /\ HandleNow = Promise!HandlesOnceFound(NetworkingNow)
      /\ NetworkingNow = "Connected" => SpawnedNow = called
      /\ NetworkingNow # "Connected" => SpawnedNow = spawned
  BY <1>1, NowIsFound
<1>3. NetworkingNow \in {"Connecting", "Connected", "ThePeerDidntEvenConnect", "Us"}
  BY <1>1 DEF ClientInv, TypeOK, NetworkingNow
<1>4. spawned' = IF NetworkingNow = "Connected" THEN called' ELSE spawned
  BY <1>1, <1>2 DEF Send
<1>5. handle' = [HandleNow EXCEPT ![m] = Promise!FirstAnswer(NetworkingNow)]
  BY DEF Send, Promise!FirstAnswer
<1>6. UNCHANGED Lost
  BY <1>1 DEF Lost
<1>7. QED
  BY <1>1, <1>2, <1>3, <1>4, <1>5, <1>6, PromiseWords DEF Promise!Send

\* So is a call to poll_event_from_server.
LEMMA PollIsPromised ==
  ASSUME ClientInv, Poll
  PROVE  Promise!Poll
<1>t. polled \in Seq(ClientEvent) /\ inbox \in Seq(NetworkEvent)
  BY DEF ClientInv, TypeOK
<1>1. /\ ConnectIfPossible /\ spawned' = SpawnedNow /\ handle' = HandleNow
      /\ NetworkingNow \in {"Connected", "ThePeerDidntEvenConnect"}
      /\ UNCHANGED <<conn, called>>
  BY DEF Poll
<1>2. networking # "Dropped"
  BY <1>1 DEF NetworkingNow, Answered
<1>3. /\ Promise!Finds(NetworkingNow)
      /\ HandleNow = Promise!HandlesOnceFound(NetworkingNow)
      /\ NetworkingNow = "Connected" => SpawnedNow = called
      /\ NetworkingNow # "Connected" => SpawnedNow = spawned
  BY <1>1, <1>2, NowIsFound
<1>4. AnnouncedNow <=> polled # <<>>
  BY NowHolds DEF NowInStep
<1>5. \/ polled = <<>> /\ polled' = <<Promise!Outcome(NetworkingNow)>>
      \/ /\ polled # <<>> /\ NetworkingNow = "Connected"
         /\ \E ev \in Promise!News : polled' = Append(polled, ev)
  <2>a. \A ev : polled = <<>> => Append(polled, ev) = <<ev>>
    OBVIOUS
  <2>1. CASE NetworkingNow = "Connected" /\ ~AnnouncedNow /\ polled' = Append(polled, ConnectedEvent)
    <3>1. Promise!Outcome(NetworkingNow) = ConnectedEvent
      BY <2>1, PromiseWords DEF Promise!Outcome
    <3>2. QED
      BY <1>4, <2>a, <2>1, <3>1
  <2>2. CASE /\ NetworkingNow = "ThePeerDidntEvenConnect" /\ ~AnnouncedNow
             /\ polled' = Append(polled, FailedToConnectEvent)
    <3>1. Promise!Outcome(NetworkingNow) = FailedToConnectEvent
      BY <2>2, PromiseWords DEF Promise!Outcome
    <3>2. QED
      BY <1>4, <2>a, <2>2, <3>1
  <2>3. CASE /\ NetworkingNow = "Connected" /\ AnnouncedNow
             /\ inbox # <<>> /\ polled' = Append(polled, Head(inbox))
    <3>1. Head(inbox) \in NetworkEvent /\ Head(inbox) \in Elements(inbox)
      BY <1>t, <2>3, OneEventLess, HeadTailProperties
    <3>2. Head(inbox) \in Promise!News
      <4>1. CASE Head(inbox).kind = "Message"
        <5>1. Head(inbox) \notin Elements(polled)
          BY <3>1, <4>1 DEF ClientInv, EventsInStep
        <5>2. \E v \in ServerMessage : Head(inbox) = MessageEvent(v)
          BY <3>1, <4>1, EventKinds
        <5>3. QED
          BY <5>1, <5>2, PromiseWords DEF Promise!News
      <4>2. CASE Head(inbox).kind = "Disconnected"
        <5>1. Lost
          BY <3>1, <4>2 DEF ClientInv, EventsInStep
        <5>2. \E d \in {"None", "Timeout"} : Head(inbox) = DisconnectedEvent(d)
          BY <3>1, <4>2, EventKinds
        <5>3. QED
          BY <5>1, <5>2, PromiseWords DEF Promise!News
      <4>3. QED
        BY <3>1, <4>1, <4>2, EventKinds
    <3>3. QED
      BY <1>4, <2>3, <3>2
  <2>4. QED
    BY <2>1, <2>2, <2>3 DEF Poll
<1>6. UNCHANGED Lost
  BY <1>1 DEF Lost
<1>7. spawned' = IF NetworkingNow = "Connected" THEN called ELSE spawned
  BY <1>1, <1>3
<1>8. QED
  BY <1>1, <1>3, <1>5, <1>6, <1>7 DEF Promise!Poll

\* The user's leaving.
LEMMA LeaveIsPromised ==
  ASSUME ClientInv, Disconnect \/ Drop
  PROVE  Promise!Leave
<1>1. CASE DisconnectWhileConnecting
  BY <1>1, PendingIsUnresolved DEF DisconnectWhileConnecting, Promise!Leave, Lost
<1>2. CASE DisconnectWhileConnected
  BY <1>2 DEF DisconnectWhileConnected, Promise!Leave, Lost, ConnectionError
<1>3. CASE Drop
  <2>1. CASE networking = "Connecting"
    BY <1>3, <2>1, PendingIsUnresolved DEF Drop, Dropping, Promise!Leave, Lost
  <2>2. CASE networking = "Connected"
    <3>1. Dropping(pending) = handle
      BY <2>2, ElementsEmpty DEF ClientInv, TypeOK, EnumInStep, Dropping
    <3>2. QED
      BY <1>3, <2>2, <3>1 DEF Drop, Promise!Leave, Lost
  <2>3. QED
    BY <1>3, <2>1, <2>2 DEF Drop
<1>4. QED
  BY <1>1, <1>2, <1>3 DEF Disconnect

\* The report of a send task.
LEMMA ResolveIsPromised ==
  ASSUME ClientInv, NEW m \in Message, SendTaskEnds(m)
  PROVE  \E r \in SendingResult : Promise!Resolve(m, r)
<1>1. /\ m \in Elements(spawned) /\ handle[m] = "StillBeingSent"
      /\ UNCHANGED <<networking, conn, called, spawned, polled>>
  BY DEF SendTaskEnds
<1>2. PICK r \in {"Sent", "Error"} \cup (IF Lost THEN {FromConnectionError(conn)} ELSE {}) :
        handle' = [handle EXCEPT ![m] = r]
  BY DEF SendTaskEnds
<1>3. /\ r \in SendingResult
      /\ r = "WeClosed" => networking = "Us" /\ Lost
      /\ r = "PeerClosedOrDied" => Lost
  <2>1. CASE r \in {"Sent", "Error"}
    BY <2>1 DEF SendingResult
  <2>2. CASE Lost /\ r = FromConnectionError(conn)
    BY <2>2, ResultTypes DEF Lost, ClientInv, EnumInStep
  <2>3. QED
    BY <1>2, <2>1, <2>2
<1>4. UNCHANGED Lost
  BY <1>1 DEF Lost
<1>5. QED
  BY <1>1, <1>2, <1>3, <1>4, PromiseWords DEF Promise!Resolve

\* Every behaviour of the client's object is one of the promise.
THEOREM ClientImplementsPromise == Spec => ImplementsPromise
<1>1. Init => Promise!Init
  BY DEF Init, Promise!Init, Lost, ConnectionError
<1>2. ClientInv /\ [Next]_vars => [Promise!Next]_(Promise!vars)
  <2> SUFFICES ASSUME ClientInv, [Next]_vars PROVE [Promise!Next]_(Promise!vars)
    OBVIOUS
  <2>1. CASE \E m \in Message : Send(m)
    BY <2>1, SendIsPromised DEF Promise!Next
  <2>2. CASE \E m \in Message : SendTaskEnds(m)
    BY <2>2, ResolveIsPromised, PromiseWords DEF Promise!Next
  <2>3. CASE Poll
    BY <2>3, PollIsPromised DEF Promise!Next
  <2>4. CASE Disconnect \/ Drop
    BY <2>4, LeaveIsPromised DEF Promise!Next
  <2>5. CASE LoseConnection
    <3>1. Promise!LoseConnection
      BY <2>5 DEF LoseConnection, Promise!LoseConnection, Lost
    <3>2. QED
      BY <3>1 DEF Promise!Next
  <2>6. CASE Connect \/ LoopEnds \/ UNCHANGED vars \/ \E v \in ServerMessage : ReaderEnds(v)
    <3>1. UNCHANGED <<networking, called, spawned, polled, handle>>
      BY <2>6 DEF Connect, ConnectSucceeds, ConnectTimesOut, ConnectPanics, Answer, LoopEnds,
                  ReaderEnds, vars
    <3>2. UNCHANGED Lost
      BY <2>6 DEF Connect, ConnectSucceeds, ConnectTimesOut, ConnectPanics, Answer, LoopEnds,
                  ReaderEnds, vars, Lost, ConnectionError, ClientInv, EnumInStep
    <3>3. QED
      BY <3>1, <3>2 DEF Promise!vars
  <2>7. QED
    BY <2>1, <2>2, <2>3, <2>4, <2>5, <2>6 DEF Next
<1>3. QED
  BY <1>1, <1>2, ClientInvariant, PTL DEF Spec, ImplementsPromise, Promise!Spec

==============================================================================

