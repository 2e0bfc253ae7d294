----------------------------- MODULE ExamplesProofs -----------------------------
(***************************************************************************)
(* Proofs about Examples, for any number of clients and of threads of the  *)
(* server's runtime: the listener and the end of connections, put together *)
(* around the loop of the example server, are still what their own modules *)
(* say, and the loop loses sight of no client that it was given.           *)
(***************************************************************************)
EXTENDS Examples, SequenceTheorems, TLAPS

USE ExamplesAssumption

\* The variables of the listener and of the endpoint move as their modules
\* allow, or not at all.
LEMMA ListenerStep ==
  ASSUME [Next]_vars
  PROVE  [Listener!Next]_listenerVars
<1>1. CASE PollClient \/ Return \/ Start \/ Accept
  BY <1>1 DEF PollClient, Return, Start, Accept, Listener!Next
<1>2. CASE \E c \in Client : ClientStarts(c) \/ ClientEnds(c)
  BY <1>2 DEF ClientStarts, ClientEnds, Listener!Next
<1>3. CASE \E c \in Client : Handshake(c)
  BY <1>3 DEF Handshake, Listener!Next, Listener!Handshake
<1>4. CASE \E c \in Client : LosesClient(c) \/ Closes(c) \/ WaitTask(c)
  BY <1>4 DEF LosesClient, Closes, WaitTask
<1>5. CASE NoMoreClients \/ PollEvents \/ CtrlC \/ UNCHANGED vars
  BY <1>5 DEF NoMoreClients, PollEvents, CtrlC, vars
<1>6. CASE \E c \in Client : DisconnectFirst(c) \/ Disconnected(c)
  BY <1>6 DEF DisconnectFirst, Disconnected
<1>7. QED
  BY <1>1, <1>2, <1>3, <1>4, <1>5, <1>6 DEF Next, MainLoop

LEMMA EndingStep ==
  ASSUME Listener!TypeOK, [Next]_vars
  PROVE  [Ending!Next]_endingVars
<1>1. CASE Return
  BY <1>1 DEF Return, Ending!Next
<1>2. CASE Accept
  <2>1. Head(incoming) \in Client
    BY <1>2, HeadTailProperties DEF Accept, Listener!Accept, Listener!TypeOK
  <2>2. QED
    BY <1>2, <2>1 DEF Accept, Ending!Next
<1>3. CASE \E c \in Client : LosesClient(c) \/ Closes(c)
  BY <1>3 DEF LosesClient, Closes, Ending!Next
<1>4. CASE \E c \in Client : WaitTask(c) \/ DisconnectFirst(c)
  BY <1>4 DEF WaitTask, DisconnectFirst, Ending!Next
<1>5. CASE PollClient \/ NoMoreClients \/ PollEvents \/ CtrlC \/ Start \/ UNCHANGED vars
  BY <1>5 DEF PollClient, NoMoreClients, PollEvents, CtrlC, Start, vars
<1>6. CASE \E c \in Client : Disconnected(c) \/ ClientStarts(c) \/ ClientEnds(c) \/ Handshake(c)
  BY <1>6 DEF Disconnected, ClientStarts, ClientEnds, Handshake
<1>7. QED
  BY <1>1, <1>2, <1>3, <1>4, <1>5, <1>6 DEF Next, MainLoop


(* The theorems about the parts, about the same variables.                 *)

LP == INSTANCE ServerListenerProofs
EP == INSTANCE DisconnectionProofs
  WITH Connection <- Client, NoConnection <- NoClient, Call <- Client,
       UserThreads <- 1, ForbidHandleDrop <- FALSE

\* The two instances of each part are one and the same.
LEMMA SameListener ==
  /\ Listener!Init <=> LP!Init
  /\ [Listener!Next]_(Listener!vars) <=> [LP!Next]_(LP!vars)
  /\ Listener!TypeOK <=> LP!TypeOK
  /\ Listener!ListenerInv <=> LP!ListenerInv
<1>1. Listener!Init <=> LP!Init
  BY DEF Listener!Init, LP!Init
<1>2. /\ Listener!Start <=> LP!Start
      /\ Listener!Accept <=> LP!Accept
      /\ Listener!PollClient <=> LP!PollClient
      /\ Listener!DropListener <=> LP!DropListener
  BY DEF Listener!Start, LP!Start, Listener!Accept, LP!Accept,
         Listener!PollClient, LP!PollClient, Listener!DropListener, LP!DropListener
<1>3. ASSUME NEW c \in Client
      PROVE  /\ Listener!Handshake(c) <=> LP!Handshake(c)
             /\ Listener!Knock(c) <=> LP!Knock(c)
             /\ Listener!Leave(c) <=> LP!Leave(c)
  BY DEF Listener!Handshake, LP!Handshake, Listener!HandshakeSucceeds, LP!HandshakeSucceeds,
         Listener!HandshakeFails, LP!HandshakeFails,
         Listener!Knock, LP!Knock, Listener!Leave, LP!Leave
<1>4. Listener!Next <=> LP!Next
  BY <1>2, <1>3 DEF Listener!Next, LP!Next
<1>5. Listener!vars = LP!vars
  BY DEF Listener!vars, LP!vars
<1>6. Listener!TypeOK <=> LP!TypeOK
  BY DEF Listener!TypeOK, LP!TypeOK
<1>7. Listener!ListenerInv <=> LP!ListenerInv
  BY <1>6 DEF Listener!ListenerInv, LP!ListenerInv, Listener!QueuesInStep, LP!QueuesInStep,
              Listener!ArrivalOrderKept, LP!ArrivalOrderKept,
              Listener!NobodyStranded, LP!NobodyStranded,
              Listener!PanicHasCause, LP!PanicHasCause, Listener!Elements, LP!Elements
<1>8. [Listener!Next]_(Listener!vars) <=> [LP!Next]_(LP!vars)
  <2>1. UNCHANGED Listener!vars <=> UNCHANGED LP!vars
    BY DEF Listener!vars, LP!vars
  <2>2. QED
    BY <1>4, <2>1
<1>9. QED
  BY <1>1, <1>6, <1>7, <1>8

LEMMA SameEnding ==
  /\ Ending!Init <=> EP!Init
  /\ [Ending!Next]_(Ending!vars) <=> [EP!Next]_(EP!vars)
  /\ Ending!DisconnectionInv <=> EP!DisconnectionInv
  /\ Ending!Frozen <=> EP!Frozen
  /\ Ending!WaitCanGoOn <=> EP!WaitCanGoOn
<1>1. Ending!Init <=> EP!Init
  BY DEF Ending!Init, EP!Init
<1>2. /\ Ending!RuntimeRuns <=> EP!RuntimeRuns
      /\ Ending!UserRuns <=> EP!UserRuns
      /\ Ending!Exit <=> EP!Exit
      /\ Ending!NotYetCalled <=> EP!NotYetCalled
      /\ Ending!Notice <=> EP!Notice
  BY DEF Ending!RuntimeRuns, EP!RuntimeRuns, Ending!AtBarrier, EP!AtBarrier,
         Ending!UserRuns, EP!UserRuns, Ending!Exit, EP!Exit,
         Ending!NotYetCalled, EP!NotYetCalled, Ending!Notice, EP!Notice,
         Ending!Cardinality, EP!Cardinality
<1>3. ASSUME NEW d \in Client
      PROVE  /\ Ending!DisconnectWithoutBarrier(d) <=> EP!DisconnectWithoutBarrier(d)
             /\ Ending!Wait(d) <=> EP!Wait(d)
             /\ Ending!DropHandle(d) <=> EP!DropHandle(d)
             /\ Ending!WaitIdleReturns(d) <=> EP!WaitIdleReturns(d)
             /\ Ending!BarrierOpens(d) <=> EP!BarrierOpens(d)
  BY <1>2 DEF Ending!DisconnectWithoutBarrier, EP!DisconnectWithoutBarrier,
         Ending!Wait, EP!Wait, Ending!DropHandle, EP!DropHandle, Ending!WaitOn, EP!WaitOn,
         Ending!HasBarrier, EP!HasBarrier, Ending!WaitIdleReturns, EP!WaitIdleReturns,
         Ending!Idle, EP!Idle, Ending!BarrierOpens, EP!BarrierOpens
<1>4. ASSUME NEW c \in Client
      PROVE  /\ Ending!Established(c) <=> EP!Established(c)
             /\ Ending!PeerIsTold(c) <=> EP!PeerIsTold(c)
             /\ Ending!PeerLeaves(c) <=> EP!PeerLeaves(c)
             /\ Ending!Drained(c) <=> EP!Drained(c)
  BY <1>2 DEF Ending!Established, EP!Established, Ending!PeerIsTold, EP!PeerIsTold,
         Ending!PeerLeaves, EP!PeerLeaves, Ending!Drained, EP!Drained,
         Ending!Advance, EP!Advance
<1>5. ASSUME NEW d \in Client, NEW c \in Client
      PROVE  Ending!Disconnect(d, c) <=> EP!Disconnect(d, c)
  BY <1>2 DEF Ending!Disconnect, EP!Disconnect
<1>6. Ending!Next <=> EP!Next
  BY <1>2, <1>3, <1>4, <1>5 DEF Ending!Next, EP!Next
<1>7. [Ending!Next]_(Ending!vars) <=> [EP!Next]_(EP!vars)
  <2>1. UNCHANGED Ending!vars <=> UNCHANGED EP!vars
    BY DEF Ending!vars, EP!vars
  <2>2. QED
    BY <1>6, <2>1
<1>8. Ending!DisconnectionInv <=> EP!DisconnectionInv
  BY DEF Ending!DisconnectionInv, EP!DisconnectionInv, Ending!TypeOK, EP!TypeOK,
         Ending!HandlesInStep, EP!HandlesInStep, Ending!InStep, EP!InStep,
         Ending!HasBarrier, EP!HasBarrier, Ending!ClosingHasCall, EP!ClosingHasCall,
         Ending!ThreadsInStep, EP!ThreadsInStep, Ending!ClientHasOne, EP!ClientHasOne,
         Ending!ConnectedHasBarrier, EP!ConnectedHasBarrier, Ending!NotYetCalled, EP!NotYetCalled,
         Ending!AtBarrier, EP!AtBarrier, Ending!Cardinality, EP!Cardinality,
         Ending!IsFiniteSet, EP!IsFiniteSet
<1>9. Ending!Frozen <=> EP!Frozen
  BY DEF Ending!Frozen, EP!Frozen, Ending!AtBarrier, EP!AtBarrier,
         Ending!Cardinality, EP!Cardinality
<1>10. Ending!WaitCanGoOn <=> EP!WaitCanGoOn
  BY <1>2, <1>9 DEF Ending!WaitCanGoOn, EP!WaitCanGoOn, Ending!StepIsDue, EP!StepIsDue,
         Ending!Open, EP!Open, Ending!Idle, EP!Idle
<1>11. QED
  BY <1>1, <1>7, <1>8, <1>9, <1>10

------------------------------------------------------------------------------
(* Each step of the example is a step of the one part, of the other, of    *)
(* both at once, or of neither.                                            *)

LEMMA ImplementsListener == Spec => Listener!Spec /\ []Listener!ListenerInv
<1>1. Init => Listener!Init
  BY DEF Init
<1>2. [Next]_vars => [Listener!Next]_(Listener!vars)
  BY ListenerStep DEF Listener!vars, listenerVars
<1>3. Spec => Listener!Spec
  BY <1>1, <1>2, PTL DEF Spec, Listener!Spec
<1>4. Listener!Spec => LP!Spec
  BY SameListener, PTL DEF Listener!Spec, LP!Spec
<1>5. LP!Spec => []LP!ListenerInv
  BY LP!ListenerInvariant
<1>6. QED
  BY <1>3, <1>4, <1>5, SameListener, PTL

LEMMA ImplementsEnding == Spec => Ending!Spec /\ []Ending!DisconnectionInv
<1>1. Init => Ending!Init
  BY DEF Init
<1>2. Listener!ListenerInv /\ [Next]_vars => [Ending!Next]_(Ending!vars)
  BY EndingStep DEF Ending!vars, endingVars, Listener!ListenerInv
<1>3. Spec => Ending!Spec
  BY <1>1, <1>2, ImplementsListener, PTL DEF Spec, Ending!Spec
<1>4. Ending!Spec => EP!Spec
  BY SameEnding, PTL DEF Ending!Spec, EP!Spec
<1>5. EP!Spec => []EP!DisconnectionInv
  BY EP!DisconnectionInvariant
<1>6. QED
  BY <1>3, <1>4, <1>5, SameEnding, PTL

\* What is proved of the parts holds of the whole.
THEOREM PartsKeepInvariants == Spec => [](Listener!ListenerInv /\ Ending!DisconnectionInv)
  BY ImplementsListener, ImplementsEnding, PTL

\* And so is what the listener promises in the abstract: among handshakes that
\* need the threads on which disconnections wait, and clients that leave, the
\* server still provides its clients in one line.
THEOREM ServerKeepsTheLine == Spec => LP!ImplementsLine
<1>1. Spec => LP!Spec
  BY ImplementsListener, SameListener, PTL DEF Listener!Spec, LP!Spec
<1>2. LP!Spec => LP!ImplementsLine
  BY LP!ListenerImplementsLine
<1>3. QED
  BY <1>1, <1>2, PTL

------------------------------------------------------------------------------
(* The loop of the server.                                                 *)

\* Both parts' invariants, which every step keeps.
PartsInv == Listener!ListenerInv /\ Ending!DisconnectionInv

\* Every step keeps the types.
LEMMA TypeStep ==
  ASSUME TypeOK, PartsInv, PartsInv', [Next]_vars
  PROVE  TypeOK'
<1> USE DEF TypeOK
<1>1. Listener!TypeOK' /\ Ending!TypeOK'
  BY DEF PartsInv, Listener!ListenerInv, Ending!DisconnectionInv
<1>2. clients' \subseteq Client
  <2>1. CASE PollClient
    BY <2>1, HeadTailProperties DEF PollClient, Listener!PollClient, Listener!TypeOK
  <2>2. CASE clients' \subseteq clients
    BY <2>2
  <2>3. QED
    BY <2>1, <2>2 DEF Next, MainLoop, vars, mainVars, NoMoreClients, PollEvents, Return,
         DisconnectFirst, Disconnected, CtrlC, Start, Accept, ClientStarts, ClientEnds,
         Handshake, LosesClient, Closes, WaitTask
<1>3. event' \in [Client -> {"none", "disconnected", "panicked"}]
  <2>1. CASE \E c \in Client : LosesClient(c)
    BY <2>1 DEF LosesClient
  <2>2. CASE UNCHANGED event
    BY <2>2
  <2>3. QED
    BY <2>1, <2>2 DEF Next, MainLoop, vars, mainVars, PollClient, NoMoreClients, PollEvents,
         Return, DisconnectFirst, Disconnected, CtrlC, Start, Accept, ClientStarts, ClientEnds,
         Handshake, Closes, WaitTask
<1>4. halt' \in BOOLEAN /\ stage' \in {"poll_client", "poll_events", "disconnect"}
  BY DEF Next, MainLoop, vars, mainVars, PollClient, NoMoreClients, PollEvents, Return,
         DisconnectFirst, Disconnected, CtrlC, Start, Accept, ClientStarts, ClientEnds,
         Handshake, LosesClient, Closes, WaitTask
<1>5. QED
  BY <1>1, <1>2, <1>3, <1>4

\* A connection that is over stays over, whatever the listener, the loop and
\* the tasks do.
LEMMA OverStep ==
  ASSUME TypeOK, PartsInv, [Next]_vars, NEW c \in Client, Over(c)
  PROVE  Over(c)'
<1>1. [Ending!Next]_endingVars
  BY EndingStep DEF PartsInv, Listener!ListenerInv
<1>2. connection \in [Client -> {"none", "open", "closing", "draining", "drained"}]
  BY DEF TypeOK, Ending!TypeOK
<1>3. CASE UNCHANGED connection
  BY <1>3 DEF Over
<1>4. CASE \E d, e \in Client : Ending!Disconnect(d, e)
  BY <1>2, <1>4 DEF Ending!Disconnect, Over
<1>5. CASE \E e \in Client : \/ Ending!Established(e) \/ Ending!PeerIsTold(e)
                             \/ Ending!PeerLeaves(e) \/ Ending!Drained(e)
  BY <1>2, <1>5 DEF Ending!Established, Ending!PeerIsTold, Ending!PeerLeaves,
       Ending!Drained, Ending!Advance, Over
<1>6. QED
  BY <1>1, <1>3, <1>4, <1>5 DEF Ending!Next, endingVars, Ending!DisconnectWithoutBarrier,
       Ending!Wait, Ending!DropHandle, Ending!WaitIdleReturns, Ending!BarrierOpens, Ending!Exit,
       Ending!Notice

\* Only poll_client provides, and it provides one client.
LEMMA ProvidedStep ==
  ASSUME TypeOK, PartsInv, [Next]_vars
  PROVE  \/ PollClient /\ Provided' = Provided \cup {Head(channel)}
         \/ ~PollClient /\ Provided' = Provided
<1>1. CASE PollClient
  <2>1. provided \in Seq(Client) /\ Head(channel) \in Client
    BY <1>1, HeadTailProperties DEF TypeOK, Listener!TypeOK, PollClient, Listener!PollClient
  <2>2. Listener!Elements(Append(provided, Head(channel)))
          = Listener!Elements(provided) \cup {Head(channel)}
    BY <2>1, LP!ElementsAppend DEF Listener!Elements, LP!Elements
  <2>3. QED
    BY <1>1, <2>2 DEF PollClient, Listener!PollClient, Provided, Listener!Elements
<1>2. CASE ~PollClient
  <2>1. UNCHANGED provided
    BY <1>2 DEF Next, MainLoop, vars, listenerVars, NoMoreClients, PollEvents, Return,
         Listener!DropListener, DisconnectFirst, Disconnected, CtrlC, Start, Listener!Start,
         Accept, Listener!Accept, ClientStarts, Listener!Knock, ClientEnds, Listener!Leave,
         Handshake, Listener!HandshakeSucceeds, Listener!HandshakeFails,
         LosesClient, Closes, WaitTask
  <2>2. QED
    BY <1>2, <2>1 DEF Provided, Listener!Elements
<1>3. QED
  BY <1>1, <1>2

\* The handles of the calls move with the tasks that they stand for.
LEMMA HandleStep ==
  ASSUME TypeOK, MainInStep, PartsInv, [Next]_vars, NEW c \in Client
  PROVE  /\ waiter'[c] # "none" <=> handle'[c] # "none"
         /\ handle'[c] # "none" => target'[c] = c /\ connection'[c] # "none"
         /\ waiter'[c] = "at_barrier" \/ handle'[c] = "waited" => connection'[c] = "drained"
<1> USE DEF TypeOK, Ending!TypeOK
<1>0. /\ waiter[c] # "none" <=> handle[c] # "none"
      /\ handle[c] # "none" => target[c] = c /\ connection[c] # "none"
      /\ waiter[c] = "at_barrier" \/ handle[c] = "waited" => connection[c] = "drained"
  BY DEF MainInStep
<1>1. CASE \E d \in Client : DisconnectFirst(d)
  <2>1. PICK d \in Client : Ending!Disconnect(d, d) \/ Ending!Wait(d)
    BY <1>1 DEF DisconnectFirst
  <2>2. CASE Ending!Disconnect(d, d)
    BY <1>0, <2>2 DEF Ending!Disconnect
  <2>3. CASE Ending!Wait(d)
    BY <1>0, <2>3 DEF Ending!Wait, Ending!WaitOn, Ending!HasBarrier
  <2>4. QED
    BY <2>1, <2>2, <2>3
<1>2. CASE \E d \in Client : WaitTask(d)
  <2>1. PICK d \in Client : Ending!WaitIdleReturns(d) \/ Ending!BarrierOpens(d)
    BY <1>2 DEF WaitTask
  <2>2. CASE Ending!WaitIdleReturns(d)
    BY <1>0, <2>2 DEF Ending!WaitIdleReturns, Ending!Idle
  <2>3. CASE Ending!BarrierOpens(d)
    BY <1>0, <2>3 DEF Ending!BarrierOpens
  <2>4. QED
    BY <2>1, <2>2, <2>3
<1>3. CASE Accept \/ \E d \in Client : LosesClient(d) \/ Closes(d)
  BY <1>0, <1>3 DEF Accept, LosesClient, Closes, Ending!Established, Ending!PeerIsTold,
       Ending!PeerLeaves, Ending!Drained, Ending!Advance
<1>4. CASE Return
  BY <1>0, <1>4 DEF Return, Ending!Exit
<1>5. CASE UNCHANGED endingVars
  BY <1>0, <1>5 DEF endingVars
<1>6. QED
  BY <1>1, <1>2, <1>3, <1>4, <1>5 DEF Next, MainLoop, vars, PollClient, NoMoreClients,
       PollEvents, Disconnected, CtrlC, Start, ClientStarts, ClientEnds, Handshake

\* Every step keeps the list, the events and the calls in step.
LEMMA MainStep ==
  ASSUME TypeOK, MainInStep, PartsInv, [Next]_vars
  PROVE  MainInStep'
<1>1. clients' \subseteq Provided'
  <2>1. CASE PollClient
    BY <2>1, ProvidedStep DEF PollClient, MainInStep
  <2>2. CASE ~PollClient
    <3>1. clients' \subseteq clients
      BY <2>2 DEF Next, MainLoop, vars, mainVars, NoMoreClients, PollEvents, Return,
           DisconnectFirst, Disconnected, CtrlC, Start, Accept, ClientStarts, ClientEnds,
           Handshake, LosesClient, Closes, WaitTask
    <3>2. QED
      BY <2>2, <3>1, ProvidedStep DEF MainInStep
  <2>3. QED
    BY <2>1, <2>2
<1>2. exited' => stage' = "disconnect" /\ clients' = {}
  <2>1. CASE Return
    BY <2>1 DEF Return, mainVars
  <2>2. CASE ~Return
    <3>1. exited' = exited
      BY <2>2 DEF Next, MainLoop, vars, endingVars, PollClient, NoMoreClients, PollEvents,
           DisconnectFirst, Disconnected, CtrlC, Start, Accept, ClientStarts, ClientEnds,
           Handshake, LosesClient, Closes, WaitTask, Ending!Disconnect, Ending!Wait,
           Ending!Established, Ending!PeerIsTold, Ending!PeerLeaves, Ending!Drained,
           Ending!Advance, Ending!WaitIdleReturns, Ending!BarrierOpens
    <3>2. stage = "disconnect" /\ clients = {} => stage' = "disconnect" /\ clients' = {}
      BY <2>2 DEF Next, MainLoop, vars, mainVars, PollClient, NoMoreClients, PollEvents,
           DisconnectFirst, Disconnected, CtrlC, Start, Accept, ClientStarts, ClientEnds,
           Handshake, LosesClient, Closes, WaitTask
    <3>3. QED
      BY <3>1, <3>2 DEF MainInStep
  <2>3. QED
    BY <2>1, <2>2
<1>3. ASSUME NEW c \in Client, event'[c] = "disconnected"
      PROVE  Over(c)'
  <2>1. CASE event[c] = "disconnected"
    BY <2>1, OverStep DEF MainInStep
  <2>2. CASE event[c] # "disconnected"
    <3>1. PICK d \in Client : LosesClient(d) /\ event' # event
      BY <1>3, <2>2 DEF Next, MainLoop, vars, mainVars, PollClient, NoMoreClients, PollEvents,
           Return, DisconnectFirst, Disconnected, CtrlC, Start, Accept, ClientStarts,
           ClientEnds, Handshake, Closes, WaitTask
    <3>2. d = c
      BY <1>3, <2>2, <3>1 DEF LosesClient, TypeOK
    <3>3. QED
      BY <3>1, <3>2 DEF LosesClient, Ending!PeerLeaves, Ending!Advance, TypeOK,
           Ending!TypeOK, Over
  <2>3. QED
    BY <2>1, <2>2
<1>4. QED
  BY <1>1, <1>2, <1>3, HandleStep DEF MainInStep

\* The loop forgets a client only when its connection is over.
LEMMA ListStep ==
  ASSUME TypeOK, MainInStep, ListIsCurrent, PartsInv, [Next]_vars
  PROVE  ListIsCurrent'
<1> SUFFICES ASSUME NEW c \in Provided', c \notin clients'
             PROVE  Over(c)'
  BY DEF ListIsCurrent
<1>1. ~PollClient \/ c # Head(channel)
  BY DEF PollClient
<1>2. c \in Provided
  BY <1>1, ProvidedStep
<1>3. c \in Client
  BY <1>2 DEF Provided, Listener!Elements, TypeOK, Listener!TypeOK
<1>4. CASE Over(c)
  BY <1>3, <1>4, OverStep
<1>5. CASE c \in clients
  <2>1. CASE PollEvents
    BY <1>3, <1>5, <2>1, OverStep DEF PollEvents, MainInStep
  <2>2. CASE \E d \in Client : Disconnected(d)
    BY <1>3, <1>5, <2>2, OverStep DEF Disconnected, MainInStep, Over
  <2>3. CASE clients \subseteq clients'
    BY <1>5, <2>3
  <2>4. QED
    BY <2>1, <2>2, <2>3 DEF Next, MainLoop, vars, mainVars, PollClient, NoMoreClients, Return,
         DisconnectFirst, CtrlC, Start, Accept, ClientStarts, ClientEnds,
         Handshake, LosesClient, Closes, WaitTask
<1>6. QED
  BY <1>2, <1>4, <1>5 DEF ListIsCurrent

\* From Ctrl-C on nobody joins the list, and whoever is first stays first.
LEMMA ShutdownStep ==
  ASSUME [Next]_vars, stage = "disconnect"
  PROVE  /\ stage' = "disconnect"
         /\ \A c \in Client : First(c) /\ c \in clients' => First(c)'
<1>1. stage' = "disconnect" /\ clients' \subseteq clients /\ UNCHANGED provided
  BY DEF Next, MainLoop, vars, listenerVars, mainVars, PollClient, NoMoreClients, PollEvents,
       Return, Listener!DropListener, DisconnectFirst, Disconnected, CtrlC, Start,
       Listener!Start, Accept, Listener!Accept, ClientStarts, Listener!Knock, ClientEnds,
       Listener!Leave, Handshake, Listener!HandshakeSucceeds, Listener!HandshakeFails,
       LosesClient, Closes, WaitTask
<1>2. QED
  BY <1>1 DEF First

LEMMA FirstIsUnique ==
  ASSUME NEW c, NEW d, First(c), First(d), provided \in Seq(Client)
  PROVE  c = d
<1>1. PICK i \in 1 .. Len(provided) :
        provided[i] = c /\ \A k \in 1 .. i - 1 : provided[k] \notin clients
  BY DEF First
<1>2. PICK j \in 1 .. Len(provided) :
        provided[j] = d /\ \A k \in 1 .. j - 1 : provided[k] \notin clients
  BY DEF First
<1>3. ~(i < j) /\ ~(j < i)
  BY <1>1, <1>2 DEF First
<1>4. QED
  BY <1>1, <1>2, <1>3

\* A handle is taken in hand only for the first of the list, who stays in the
\* list until the wait is over.
LEMMA OneAtATimeStep ==
  ASSUME TypeOK, OneAtATime, [Next]_vars
  PROVE  OneAtATime'
<1> SUFFICES ASSUME NEW c \in Client, handle'[c] \notin {"none", "waited"}
             PROVE  stage' = "disconnect" /\ First(c)'
  BY DEF OneAtATime
<1> USE DEF TypeOK, Ending!TypeOK
<1>1. stage = "disconnect" /\ First(c)
  <2>1. CASE handle[c] \notin {"none", "waited"}
    BY <2>1 DEF OneAtATime
  <2>2. CASE handle[c] \in {"none", "waited"}
    <3>1. PICK d \in Client : DisconnectFirst(d) \/ WaitTask(d)
      BY <2>2 DEF Next, MainLoop, vars, endingVars, PollClient, NoMoreClients, PollEvents,
           Return, Ending!Exit, Disconnected, CtrlC, Start, Accept, ClientStarts, ClientEnds,
           Handshake, LosesClient, Closes, Ending!Established, Ending!PeerIsTold,
           Ending!PeerLeaves, Ending!Drained, Ending!Advance
    <3>2. ~WaitTask(d)
      BY <2>2 DEF WaitTask, Ending!WaitIdleReturns, Ending!BarrierOpens
    <3>3. d = c
      BY <2>2, <3>1, <3>2 DEF DisconnectFirst, Ending!Disconnect, Ending!Wait, Ending!WaitOn
    <3>4. QED
      BY <3>1, <3>2, <3>3 DEF DisconnectFirst
  <2>3. QED
    BY <2>1, <2>2
<1>2. c \in clients'
  <2>1. c \in clients
    BY <1>1 DEF First
  <2>2. CASE \E d \in Client : Disconnected(d)
    BY <2>1, <2>2 DEF Disconnected, endingVars
  <2>3. CASE clients \subseteq clients'
    BY <2>1, <2>3
  <2>4. QED
    BY <1>1, <2>2, <2>3 DEF Next, MainLoop, vars, mainVars, PollClient, NoMoreClients,
         PollEvents, Return, DisconnectFirst, CtrlC, Start, Accept, ClientStarts, ClientEnds,
         Handshake, LosesClient, Closes, WaitTask
<1>3. QED
  BY <1>1, <1>2, ShutdownStep

------------------------------------------------------------------------------

\* The list, the events and the calls of disconnect keep in step, and the list
\* holds everyone whom the server has been given and whose end is to come.
THEOREM ExamplesInvariant == Spec => []ExamplesInv
<1>1. Init /\ PartsInv => ExamplesInv
  <2> SUFFICES ASSUME Init, PartsInv PROVE ExamplesInv
    OBVIOUS
  <2>1. TypeOK
    BY DEF Init, PartsInv, Listener!ListenerInv, Ending!DisconnectionInv, TypeOK
  <2>2. MainInStep
    BY DEF Init, Ending!Init, MainInStep
  <2>3. ListIsCurrent
    BY DEF Init, Listener!Init, ListIsCurrent, Provided, Listener!Elements
  <2>4. OneAtATime
    BY DEF Init, Ending!Init, OneAtATime
  <2>5. QED
    BY <2>1, <2>2, <2>3, <2>4 DEF ExamplesInv
<1>2. ExamplesInv /\ PartsInv /\ PartsInv' /\ [Next]_vars => ExamplesInv'
  BY TypeStep, MainStep, ListStep, OneAtATimeStep DEF ExamplesInv
<1>3. Spec => []PartsInv
  BY PartsKeepInvariants, PTL DEF PartsInv
<1>4. QED
  BY <1>1, <1>2, <1>3, PTL DEF Spec

\* When the server exits, nobody whom it was given is left to find out by a
\* timeout.
THEOREM EveryoneKnownIsTold == Spec => []KnownAreTold
<1>1. ExamplesInv => KnownAreTold
  BY DEF ExamplesInv, MainInStep, ListIsCurrent, KnownAreTold
<1>2. QED
  BY <1>1, ExamplesInvariant, PTL

\* The loop waits for one client at a time, so that no wait holds up another's
\* task: what Disconnection allows to hang for want of a thread cannot hang here.
THEOREM HaltsCanGoOn == Spec => []HaltCanGoOn
<1>1. Spec => []Ending!WaitCanGoOn
  <2>1. Spec => EP!Spec
    BY ImplementsEnding, SameEnding, PTL DEF Ending!Spec, EP!Spec
  <2>2. EP!Spec => []EP!WaitCanGoOn
    BY EP!WaitsCanGoOn
  <2>3. QED
    BY <2>1, <2>2, SameEnding, PTL
<1>2. ExamplesInv /\ PartsInv /\ Ending!WaitCanGoOn => HaltCanGoOn
  <2> SUFFICES ASSUME ExamplesInv, PartsInv, Ending!WaitCanGoOn, ~exited,
                      NEW c \in Client, handle[c] = "waiting"
               PROVE  ~Ending!Frozen
    BY DEF HaltCanGoOn, Ending!WaitCanGoOn
  <2>1. ASSUME NEW d \in Ending!AtBarrier
        PROVE  handle[d] = "waiting"
    <3>1. d \in Client /\ handle[d] # "none"
      BY <2>1 DEF Ending!AtBarrier, ExamplesInv, MainInStep
    <3>2. handle[d] # "waited"
      BY <2>1, <3>1 DEF Ending!AtBarrier, PartsInv, Ending!DisconnectionInv,
           Ending!HandlesInStep, Ending!InStep, Ending!HasBarrier
    <3>3. First(c) /\ First(d)
      BY <3>1, <3>2 DEF ExamplesInv, OneAtATime
    <3>4. QED
      BY <3>3, FirstIsUnique DEF ExamplesInv, TypeOK, Listener!TypeOK
  <2>2. \A d \in EP!AtBarrier : handle[d] = "waiting"
    BY <2>1 DEF Ending!AtBarrier, EP!AtBarrier
  <2>3. ~EP!Frozen
    BY <2>2, EP!AttendedIsNotFrozen
  <2>4. QED
    BY <2>3, SameEnding
<1>3. QED
  BY <1>1, <1>2, ExamplesInvariant, PartsKeepInvariants, PTL DEF PartsInv

=================================================================================
