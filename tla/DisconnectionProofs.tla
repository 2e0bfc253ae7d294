-------------------------- MODULE DisconnectionProofs --------------------------
(***************************************************************************)
(* Proofs about Disconnection, for any number of connections, calls,       *)
(* threads of the runtime and threads of the user's, on either side.       *)
(***************************************************************************)
EXTENDS Disconnection, FiniteSetTheorems, TLAPS

USE DisconnectionAssumption

\* Every step keeps the types.
LEMMA TypeStep ==
  ASSUME TypeOK, [Next]_vars
  PROVE  TypeOK'
<1> USE DEF TypeOK
<1>1. CASE \E d \in Call, c \in Connection : Disconnect(d, c)
  BY <1>1 DEF Disconnect
<1>2. CASE \E d \in Call : DisconnectWithoutBarrier(d)
  BY <1>2 DEF DisconnectWithoutBarrier
<1>3. CASE \E d \in Call : Wait(d)
  BY <1>3 DEF Wait, WaitOn
<1>4. CASE \E d \in Call : DropHandle(d)
  BY <1>4 DEF DropHandle, WaitOn
<1>5. CASE \E d \in Call : WaitIdleReturns(d)
  BY <1>5 DEF WaitIdleReturns
<1>6. CASE \E d \in Call : BarrierOpens(d)
  BY <1>6 DEF BarrierOpens
<1>7. CASE Notice \/ Exit
  BY <1>7 DEF Notice, Exit
<1>8. CASE \E c \in Connection : Established(c) \/ PeerIsTold(c) \/ PeerLeaves(c) \/ Drained(c)
  BY <1>8 DEF Established, PeerIsTold, PeerLeaves, Drained, Advance
<1>9. CASE UNCHANGED vars
  BY <1>9 DEF vars
<1>10. QED
  BY <1>1, <1>2, <1>3, <1>4, <1>5, <1>6, <1>7, <1>8, <1>9 DEF Next

\* What the endpoint, the user or the task of another call does to one
\* connection: it may move on, but never from "drained", nor back to "none"
\* or "open", nor to "closing" unless a call closes it.
LEMMA ConnectionStep ==
  ASSUME TypeOK, [Next]_vars, NEW c \in Connection
  PROVE  /\ connection[c] = "drained" => connection'[c] = "drained"
         /\ connection[c] \notin {"none", "open"} => connection'[c] \notin {"none", "open"}
         /\ connection'[c] = "closing" /\ connection[c] # "closing"
              => \E d \in Call : target'[d] = c
<1> USE DEF TypeOK
<1>1. CASE \E d \in Call, e \in Connection : Disconnect(d, e)
  BY <1>1 DEF Disconnect
<1>2. CASE \E e \in Connection : Established(e) \/ PeerIsTold(e) \/ PeerLeaves(e) \/ Drained(e)
  BY <1>2 DEF Established, PeerIsTold, PeerLeaves, Drained, Advance
<1>3. CASE UNCHANGED connection
  BY <1>3
<1>4. CASE \E d \in Call : DisconnectWithoutBarrier(d) \/ Wait(d) \/ DropHandle(d)
                             \/ WaitIdleReturns(d) \/ BarrierOpens(d)
  BY <1>4, <1>3 DEF DisconnectWithoutBarrier, Wait, DropHandle, WaitIdleReturns, BarrierOpens
<1>5. CASE Notice \/ Exit \/ UNCHANGED vars
  BY <1>5, <1>3 DEF Notice, Exit, vars
<1>6. QED
  BY <1>1, <1>2, <1>4, <1>5 DEF Next

\* A call closes one connection, for good.
LEMMA TargetStep ==
  ASSUME DisconnectionInv, [Next]_vars, NEW d \in Call, target[d] # NoConnection
  PROVE  target'[d] = target[d]
<1> USE DEF DisconnectionInv, TypeOK
<1>1. CASE \E e \in Call, c \in Connection : Disconnect(e, c)
  <2>1. handle[d] # "none"
    BY DEF HandlesInStep, InStep
  <2>2. QED
    BY <1>1, <2>1 DEF Disconnect
<1>2. CASE UNCHANGED target
  BY <1>2
<1>3. CASE \E e \in Call : DisconnectWithoutBarrier(e) \/ Wait(e) \/ DropHandle(e)
                             \/ WaitIdleReturns(e) \/ BarrierOpens(e)
  BY <1>2, <1>3 DEF DisconnectWithoutBarrier, Wait, DropHandle, WaitIdleReturns, BarrierOpens
<1>4. CASE Notice \/ Exit \/ UNCHANGED vars
  BY <1>2, <1>4 DEF Notice, Exit, vars
<1>5. CASE \E c \in Connection : Established(c) \/ PeerIsTold(c) \/ PeerLeaves(c) \/ Drained(c)
  BY <1>2, <1>5 DEF Established, PeerIsTold, PeerLeaves, Drained, Advance
<1>6. QED
  BY <1>1, <1>3, <1>4, <1>5 DEF Next

\* A call that a step leaves alone stays in step.
LEMMA OtherCallStep ==
  ASSUME DisconnectionInv, [Next]_vars, NEW d \in Call,
         waiter'[d] = waiter[d], handle'[d] = handle[d], target'[d] = target[d]
  PROVE  InStep(d)'
<1>1. InStep(d)
  BY DEF DisconnectionInv, HandlesInStep
<1>2. HasBarrier(d) => target[d] \in Connection
  BY <1>1 DEF InStep, DisconnectionInv, TypeOK
<1>3. HasBarrier(d) =>
        /\ connection'[target[d]] \notin {"none", "open"}
        /\ connection[target[d]] = "drained" => connection'[target[d]] = "drained"
  BY <1>1, <1>2, ConnectionStep DEF InStep, DisconnectionInv
<1>4. waiter[d] \in {"at_barrier", "through"} => HasBarrier(d)
  BY DEF HasBarrier
<1>5. QED
  BY <1>1, <1>3, <1>4 DEF InStep, HasBarrier

\* Every step keeps every call, its task and its handle in step.
LEMMA HandleStep ==
  ASSUME DisconnectionInv, [Next]_vars
  PROVE  HandlesInStep'
<1> SUFFICES ASSUME NEW d \in Call PROVE InStep(d)'
  BY DEF HandlesInStep
<1>t. TypeOK /\ InStep(d)
  BY DEF DisconnectionInv, HandlesInStep
<1>0. ASSUME NEW e \in Call, e # d,
             \/ \E c \in Connection : Disconnect(e, c)
             \/ DisconnectWithoutBarrier(e) \/ Wait(e) \/ DropHandle(e)
             \/ WaitIdleReturns(e) \/ BarrierOpens(e)
      PROVE  InStep(d)'
  <2>1. waiter'[d] = waiter[d] /\ handle'[d] = handle[d] /\ target'[d] = target[d]
    BY <1>0, <1>t DEF TypeOK, Disconnect, DisconnectWithoutBarrier, Wait, DropHandle,
                      WaitOn, WaitIdleReturns, BarrierOpens
  <2>2. QED
    BY <2>1, OtherCallStep
<1>1. CASE \E c \in Connection : Disconnect(d, c)
  BY <1>1, <1>t DEF TypeOK, Disconnect, InStep, HasBarrier
<1>2. CASE DisconnectWithoutBarrier(d)
  BY <1>2, <1>t DEF TypeOK, DisconnectWithoutBarrier, InStep, HasBarrier
<1>3. CASE Wait(d)
  BY <1>3, <1>t DEF TypeOK, Wait, WaitOn, InStep, HasBarrier
<1>4. CASE DropHandle(d)
  BY <1>4, <1>t DEF TypeOK, DropHandle, WaitOn, InStep, HasBarrier
<1>5. CASE WaitIdleReturns(d)
  <2>1. target[d] \in Connection
    BY <1>5, <1>t DEF TypeOK, InStep, HasBarrier, WaitIdleReturns
  <2>2. connection[target[d]] \in {"none", "drained"}
    BY <1>5, <2>1 DEF WaitIdleReturns, Idle
  <2>3. connection[target[d]] # "none"
    BY <1>5, <1>t DEF InStep, HasBarrier, WaitIdleReturns
  <2>4. QED
    BY <1>5, <1>t, <2>2, <2>3 DEF TypeOK, WaitIdleReturns, InStep, HasBarrier
<1>6. CASE BarrierOpens(d)
  BY <1>6, <1>t DEF TypeOK, BarrierOpens, InStep, HasBarrier
<1>7. CASE \/ Notice \/ Exit \/ UNCHANGED vars
           \/ \E c \in Connection : Established(c) \/ PeerIsTold(c) \/ PeerLeaves(c) \/ Drained(c)
  <2>1. UNCHANGED <<waiter, handle, target>>
    BY <1>7 DEF Notice, Exit, vars, Established, PeerIsTold, PeerLeaves, Drained, Advance
  <2>2. QED
    BY <2>1, OtherCallStep
<1>8. QED
  BY <1>0, <1>1, <1>2, <1>3, <1>4, <1>5, <1>6, <1>7 DEF Next

\* A connection that is being closed has its call, and keeps it.
LEMMA ClosingStep ==
  ASSUME DisconnectionInv, [Next]_vars
  PROVE  ClosingHasCall'
<1> SUFFICES ASSUME NEW c \in Connection, connection'[c] = "closing"
             PROVE  \E d \in Call : target'[d] = c
  BY DEF ClosingHasCall
<1>1. CASE connection[c] = "closing"
  <2>1. PICK d \in Call : target[d] = c
    BY <1>1 DEF DisconnectionInv, ClosingHasCall
  <2>2. target'[d] = c
    BY <2>1, TargetStep
  <2>3. QED
    BY <2>2
<1>2. CASE connection[c] # "closing"
  BY <1>2, ConnectionStep DEF DisconnectionInv
<1>3. QED
  BY <1>1, <1>2

\* A task goes to its barrier on a thread that is free.
LEMMA ThreadsStep ==
  ASSUME DisconnectionInv, [Next]_vars
  PROVE  ThreadsInStep'
<1> USE DEF DisconnectionInv, TypeOK, ThreadsInStep
<1>1. ASSUME NEW d \in Call, WaitIdleReturns(d)
      PROVE  ThreadsInStep'
  <2>1. AtBarrier' = AtBarrier \cup {d} /\ d \notin AtBarrier
    BY <1>1 DEF WaitIdleReturns, AtBarrier
  <2>2. Cardinality(AtBarrier) < Workers
    BY <1>1 DEF WaitIdleReturns, RuntimeRuns
  <2>3. IsFiniteSet(AtBarrier') /\ Cardinality(AtBarrier') = Cardinality(AtBarrier) + 1
    BY <2>1, FS_AddElement
  <2>4. QED
    BY <2>2, <2>3, FS_CardinalityType
<1>2. ASSUME AtBarrier' \subseteq AtBarrier
      PROVE  ThreadsInStep'
  BY <1>2, FS_Subset, FS_CardinalityType
<1>3. CASE \E d \in Call, c \in Connection : Disconnect(d, c)
  BY <1>2, <1>3 DEF Disconnect, AtBarrier
<1>4. CASE \E d \in Call : BarrierOpens(d)
  BY <1>2, <1>4 DEF BarrierOpens, AtBarrier
<1>5. CASE UNCHANGED waiter
  BY <1>2, <1>5 DEF AtBarrier
<1>6. QED
  BY <1>1, <1>3, <1>4, <1>5 DEF Next, vars, Notice, DisconnectWithoutBarrier, Wait, DropHandle, Exit,
       Established, PeerIsTold, PeerLeaves, Drained, Advance

\* The endpoint of a client connects once, and disconnects once.
LEMMA ClientStep ==
  ASSUME DisconnectionInv, [Next]_vars
  PROVE  ClientHasOne'
<1> SUFFICES ASSUME ~isServer'
             PROVE  /\ \A b, c \in Connection :
                         connection'[b] # "none" /\ connection'[c] # "none" => b = c
                    /\ \A d, e \in Call : HasBarrier(d)' /\ HasBarrier(e)' => d = e
  BY DEF ClientHasOne
<1> USE DEF DisconnectionInv, TypeOK
<1>1. ~isServer
  BY DEF Next, vars, Notice, Disconnect, DisconnectWithoutBarrier, Wait, DropHandle,
       WaitIdleReturns, BarrierOpens, Exit, Established, PeerIsTold, PeerLeaves, Drained, Advance
<1>2. /\ \A b, c \in Connection : connection[b] # "none" /\ connection[c] # "none" => b = c
      /\ \A d, e \in Call : HasBarrier(d) /\ HasBarrier(e) => d = e
  BY <1>1 DEF ClientHasOne
<1>3. \A b, c \in Connection : connection'[b] # "none" /\ connection'[c] # "none" => b = c
  <2>1. CASE \E d \in Call, c \in Connection : Disconnect(d, c)
    BY <1>2, <2>1 DEF Disconnect
  <2>2. CASE \E c \in Connection : Established(c)
    BY <1>1, <1>2, <2>2 DEF Established, Advance
  <2>3. CASE \E c \in Connection : PeerIsTold(c) \/ PeerLeaves(c) \/ Drained(c)
    BY <1>2, <2>3 DEF PeerIsTold, PeerLeaves, Drained, Advance
  <2>4. CASE UNCHANGED connection
    BY <1>2, <2>4
  <2>5. QED
    BY <2>1, <2>2, <2>3, <2>4 DEF Next, vars, Notice, DisconnectWithoutBarrier, Wait,
         DropHandle, WaitIdleReturns, BarrierOpens, Exit
<1>4. \A d, e \in Call : HasBarrier(d)' /\ HasBarrier(e)' => d = e
  <2>1. CASE \E d \in Call, c \in Connection : Disconnect(d, c)
    <3>1. PICK d \in Call, c \in Connection : Disconnect(d, c)
      BY <2>1
    <3>2. \A e \in Call : ~HasBarrier(e)
      BY <1>1, <3>1 DEF Disconnect, NotYetCalled, HandlesInStep, InStep
    <3>3. \A e \in Call : HasBarrier(e)' => e = d
      BY <3>1, <3>2 DEF Disconnect, HasBarrier
    <3>4. QED
      BY <3>3
  <2>2. CASE \A e \in Call : HasBarrier(e)' => HasBarrier(e)
    BY <1>2, <2>2
  <2>3. CASE \E d \in Call : WaitIdleReturns(d) \/ BarrierOpens(d)
    BY <2>2, <2>3 DEF WaitIdleReturns, BarrierOpens, HasBarrier
  <2>4. CASE UNCHANGED waiter
    BY <2>2, <2>4 DEF HasBarrier
  <2>5. QED
    BY <2>1, <2>3, <2>4 DEF Next, vars, Notice, DisconnectWithoutBarrier, Wait, DropHandle, Exit,
         Established, PeerIsTold, PeerLeaves, Drained, Advance
<1>5. QED
  BY <1>3, <1>4

\* Only a client's object notices a connection, and then its first disconnect()
\* leaves a task, which is never taken back.
LEMMA ConnectedStep ==
  ASSUME DisconnectionInv, [Next]_vars
  PROVE  ConnectedHasBarrier'
<1> USE DEF DisconnectionInv, TypeOK
<1>1. ASSUME NEW d \in Call, HasBarrier(d)
      PROVE  HasBarrier(d)'
  <2>1. CASE \E e \in Call, c \in Connection : Disconnect(e, c)
    BY <1>1, <2>1 DEF Disconnect, HasBarrier
  <2>2. CASE \E e \in Call : WaitIdleReturns(e) \/ BarrierOpens(e)
    BY <1>1, <2>2 DEF WaitIdleReturns, BarrierOpens, HasBarrier
  <2>3. CASE UNCHANGED waiter
    BY <1>1, <2>3 DEF HasBarrier
  <2>4. QED
    BY <2>1, <2>2, <2>3 DEF Next, vars, Notice, DisconnectWithoutBarrier, Wait, DropHandle,
         Exit, Established, PeerIsTold, PeerLeaves, Drained, Advance
<1>2. UNCHANGED isServer
  BY DEF Next, vars, Notice, Disconnect, DisconnectWithoutBarrier, Wait, DropHandle,
       WaitIdleReturns, BarrierOpens, Exit, Established, PeerIsTold, PeerLeaves, Drained, Advance
<1>3. CASE Notice
  BY <1>2, <1>3 DEF Notice, NotYetCalled, ConnectedHasBarrier
<1>4. CASE \E d \in Call, c \in Connection : Disconnect(d, c)
  <2>1. PICK d \in Call, c \in Connection : Disconnect(d, c)
    BY <1>4
  <2>2. HasBarrier(d)' /\ UNCHANGED noticed
    BY <2>1 DEF Disconnect, HasBarrier
  <2>3. QED
    BY <1>2, <2>2 DEF ConnectedHasBarrier
<1>5. CASE \E d \in Call : DisconnectWithoutBarrier(d)
  <2>1. noticed' => noticed /\ ~NotYetCalled
    BY <1>5 DEF DisconnectWithoutBarrier
  <2>2. QED
    BY <1>1, <1>2, <2>1 DEF ConnectedHasBarrier
<1>6. ASSUME UNCHANGED noticed, NotYetCalled => NotYetCalled'
      PROVE  ConnectedHasBarrier'
  BY <1>1, <1>2, <1>6 DEF ConnectedHasBarrier
<1>7. CASE \E d \in Call : Wait(d) \/ DropHandle(d) \/ WaitIdleReturns(d) \/ BarrierOpens(d)
  BY <1>6, <1>7 DEF Wait, DropHandle, WaitIdleReturns, BarrierOpens, NotYetCalled
<1>8. CASE UNCHANGED <<noticed, handle>>
  BY <1>6, <1>8 DEF NotYetCalled
<1>9. QED
  BY <1>3, <1>4, <1>5, <1>7, <1>8 DEF Next, vars, Exit, Established, PeerIsTold, PeerLeaves,
       Drained, Advance

------------------------------------------------------------------------------

\* The calls, their tasks and their handles keep in step with the endpoint.
THEOREM DisconnectionInvariant == Spec => []DisconnectionInv
<1>1. Init => DisconnectionInv
  <2> SUFFICES ASSUME Init PROVE DisconnectionInv
    OBVIOUS
  <2>1. TypeOK
    BY DEF Init, TypeOK
  <2>2. HandlesInStep
    BY DEF Init, HandlesInStep, InStep, HasBarrier
  <2>3. ClosingHasCall
    BY DEF Init, ClosingHasCall
  <2>4. ThreadsInStep
    <3>1. AtBarrier = {}
      BY DEF Init, AtBarrier
    <3>2. QED
      BY <3>1, FS_EmptySet DEF ThreadsInStep
  <2>5. ClientHasOne
    BY DEF Init, ClientHasOne, HasBarrier
  <2>6. ConnectedHasBarrier
    BY DEF Init, ConnectedHasBarrier
  <2>7. QED
    BY <2>1, <2>2, <2>3, <2>4, <2>5, <2>6 DEF DisconnectionInv
<1>2. DisconnectionInv /\ [Next]_vars => DisconnectionInv'
  BY TypeStep, HandleStep, ClosingStep, ThreadsStep, ClientStep, ConnectedStep DEF DisconnectionInv
<1>3. QED
  BY <1>1, <1>2, PTL DEF Spec

\* A wait that returns has done what it is for.
THEOREM WaitIsProper == Spec => []WaitedIsDrained
<1>1. DisconnectionInv => WaitedIsDrained
  BY DEF DisconnectionInv, HandlesInStep, InStep, WaitedIsDrained
<1>2. QED
  BY <1>1, DisconnectionInvariant, PTL

\* A call with a barrier that was waited on has seen to its connection.
LEMMA WaitedCallIsOver ==
  ASSUME DisconnectionInv, NEW d \in Call, HasBarrier(d), handle[d] \in {"none", "waited"}
  PROVE  connection[target[d]] = "drained"
  BY DEF DisconnectionInv, HandlesInStep, InStep

\* A process that waits on its handles leaves nobody untold whom it was asked to
\* disconnect, but by a client that has not noticed its connection.
THEOREM EveryoneIsTold == Spec => []NobodyIsLeftUntold
<1>1. DisconnectionInv => NobodyIsLeftUntold
  <2> SUFFICES ASSUME DisconnectionInv, \A d \in Call : handle[d] \in {"none", "waited"},
                      NEW c \in Connection, AskedToClose(c),
                      connection[c] \in {"open", "closing"}
               PROVE  ~isServer /\ ~noticed /\ connection[c] = "open"
    BY DEF NobodyIsLeftUntold
  <2> USE DEF DisconnectionInv
  <2>1. \A d \in Call : target[d] # c
    <3>1. SUFFICES ASSUME NEW d \in Call, target[d] = c PROVE FALSE
      OBVIOUS
    <3>2. HasBarrier(d)
      BY <3>1 DEF HandlesInStep, InStep
    <3>3. QED
      BY <3>1, <3>2, WaitedCallIsOver
  <2>2. connection[c] = "open"
    BY <2>1 DEF ClosingHasCall
  <2>3. ~isServer /\ ~NotYetCalled
    BY <2>1 DEF AskedToClose, NotYetCalled
  <2>4. ASSUME noticed PROVE FALSE
    <3>1. PICK d \in Call : HasBarrier(d)
      BY <2>3, <2>4 DEF ConnectedHasBarrier
    <3>2. target[d] \in Connection /\ connection[target[d]] = "drained"
      BY <3>1, WaitedCallIsOver DEF HandlesInStep, InStep, TypeOK
    <3>3. target[d] = c
      BY <2>2, <2>3, <3>2 DEF ClientHasOne
    <3>4. QED
      BY <2>1, <3>3
  <2>5. QED
    BY <2>2, <2>3, <2>4
<1>2. QED
  BY <1>1, DisconnectionInvariant, PTL

\* On the way of a task that waits for the endpoint there is a step due, or a
\* connection that stays open, or every thread is held at a barrier.
LEMMA TaskCanGoOn ==
  ASSUME DisconnectionInv, ~exited, NEW d \in Call, waiter[d] = "wait_idle"
  PROVE  StepIsDue \/ Open # {} \/ ~RuntimeRuns
<1> SUFFICES ASSUME RuntimeRuns, Open = {} PROVE StepIsDue
  OBVIOUS
<1>1. CASE \E c \in Connection : connection[c] \in {"closing", "draining"}
  BY <1>1 DEF StepIsDue
<1>2. CASE ~\E c \in Connection : connection[c] \in {"closing", "draining"}
  <2>1. Idle
    BY <1>2 DEF Idle, Open, DisconnectionInv, TypeOK
  <2>2. QED
    BY <2>1 DEF StepIsDue
<1>3. QED
  BY <1>1, <1>2

\* It takes a handle that nobody waits on to hold the threads.
LEMMA AttendedIsNotFrozen ==
  ASSUME \A d \in AtBarrier : handle[d] = "waiting"
  PROVE  ~Frozen
<1>1. {d \in AtBarrier : handle[d] # "waiting"} = {}
  OBVIOUS
<1>2. QED
  BY <1>1, FS_EmptySet DEF Frozen

\* A wait is not held up by its own side.
THEOREM WaitsCanGoOn == Spec => []WaitCanGoOn
<1>1. DisconnectionInv => WaitCanGoOn
  <2> SUFFICES ASSUME DisconnectionInv, ~exited, NEW d \in Call, handle[d] = "waiting",
                      ~StepIsDue
               PROVE  isServer /\ (Open # {} \/ Frozen)
    BY DEF WaitCanGoOn
  <2> USE DEF DisconnectionInv
  <2>1. HasBarrier(d) /\ waiter[d] # "through"
    BY DEF HandlesInStep, InStep
  <2>2. waiter[d] = "wait_idle"
    BY <2>1 DEF TypeOK, HasBarrier, StepIsDue
  <2>3. CASE ~RuntimeRuns
    <3>1. AtBarrier = {e \in AtBarrier : handle[e] # "waiting"}
      BY DEF StepIsDue, AtBarrier
    <3>2. Cardinality(AtBarrier) \in Nat
      BY FS_CardinalityType DEF ThreadsInStep
    <3>3. Cardinality(AtBarrier) >= Workers
      BY <2>3, <3>2 DEF RuntimeRuns
    <3>4. Frozen
      BY <3>1, <3>3 DEF Frozen
    <3>5. AtBarrier # {}
      BY <3>3, FS_EmptySet
    <3>6. isServer
      BY <2>1, <2>2, <3>5 DEF AtBarrier, HasBarrier, ClientHasOne
    <3>7. QED
      BY <3>4, <3>6
  <2>4. CASE RuntimeRuns
    <3>1. Open # {}
      BY <2>2, <2>4, TaskCanGoOn
    <3>2. PICK c \in Connection : connection[c] = "open"
      BY <3>1 DEF Open
    <3>3. target[d] \in Connection /\ connection[target[d]] \notin {"none", "open"}
      BY <2>1 DEF HandlesInStep, InStep, TypeOK
    <3>4. isServer
      BY <3>2, <3>3 DEF ClientHasOne
    <3>5. QED
      BY <3>1, <3>4
  <2>5. QED
    BY <2>3, <2>4
<1>2. QED
  BY <1>1, DisconnectionInvariant, PTL

==============================================================================
