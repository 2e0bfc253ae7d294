----------------------------- MODULE Disconnection -----------------------------
(***************************************************************************)
(* The end of connections at one side: disconnect(), the task that it      *)
(* spawns, and the DisconnectionHandle that it returns, disconnection.rs.  *)
(*                                                                         *)
(* The task waits until the endpoint has no connection left, not only the  *)
(* one that was closed, and then meets the user's thread at a std Barrier. *)
(* That wait blocks the thread of the runtime that runs the task, and the  *)
(* runtime is also what the endpoint and its connections need to go on     *)
(* (async_runtime.rs: one thread by default).                              *)
(*                                                                         *)
(* A client has an endpoint of its own with one connection; the clients on *)
(* a server share the endpoint of the listener.                            *)
(***************************************************************************)
EXTENDS Naturals, FiniteSets

CONSTANTS
  Connection,        \* the connections that the endpoint may come to have
  NoConnection,
  Call,              \* the calls of disconnect, each with its handle
  Workers,           \* threads that run the runtime's tasks: thread_count
  UserThreads,       \* threads of the user's that may wait on handles
  ForbidHandleDrop   \* the forbid_handle_drop feature

ASSUME DisconnectionAssumption ==
  /\ NoConnection \notin Connection
  /\ Workers \in Nat \ {0}
  /\ UserThreads \in Nat \ {0}
  /\ ForbidHandleDrop \in BOOLEAN

VARIABLES
  isServer,    \* is it the server's endpoint?  Never changes
  noticed,     \* has the client object become Connected?  FALSE on a server
  connection,  \* what the endpoint knows of each connection
  target,      \* target[d]: the connection that call d has closed
  waiter,      \* waiter[d]: the task spawned by call d
  handle,      \* handle[d]: the handle that call d has returned
  exited       \* has the process ended?

vars == <<isServer, noticed, connection, target, waiter, handle, exited>>

\* "closing": close() was called, the peer has not been told; "draining": the
\* peer has been told, or was the one who left; "drained": forgotten.
TypeOK ==
  /\ isServer \in BOOLEAN
  /\ noticed \in BOOLEAN
  /\ connection \in [Connection -> {"none", "open", "closing", "draining", "drained"}]
  /\ target \in [Call -> Connection \cup {NoConnection}]
  /\ waiter \in [Call -> {"none", "wait_idle", "at_barrier", "through"}]
  /\ handle \in [Call -> {"none", "held", "waiting", "waited", "panicked"}]
  /\ exited \in BOOLEAN

Init ==
  /\ isServer \in BOOLEAN
  /\ noticed = FALSE
  /\ connection = [c \in Connection |-> "none"]
  /\ target = [d \in Call |-> NoConnection]
  /\ waiter = [d \in Call |-> "none"]
  /\ handle = [d \in Call |-> "none"]
  /\ exited = FALSE

\* A task at the barrier keeps its thread of the runtime to itself.
AtBarrier == {d \in Call : waiter[d] = "at_barrier"}
RuntimeRuns == ~exited /\ Cardinality(AtBarrier) < Workers

\* A thread that waits is blocked, one whose handle panicked is gone.
UserRuns ==
  /\ ~exited
  /\ Cardinality({d \in Call : handle[d] \in {"waiting", "panicked"}}) < UserThreads

HasBarrier(d) == waiter[d] # "none"

------------------------------------------------------------------------------
(* The user.                                                               *)

NotYetCalled == \A d \in Call : handle[d] = "none"

\* connect_if_possible: polling or sending, the client's object finds that the
\* connection was established, whatever has become of it meanwhile.
Notice ==
  /\ UserRuns
  /\ ~isServer /\ ~noticed /\ NotYetCalled
  /\ \E c \in Connection : connection[c] # "none"
  /\ noticed' = TRUE
  /\ UNCHANGED <<isServer, connection, target, waiter, handle, exited>>

\* Mutant: close() is taken to start the end of the connection all over.
DisconnectAfresh(d, c) ==
  /\ UserRuns
  /\ handle[d] = "none"
  /\ connection[c] # "none"
  /\ isServer \/ noticed
  /\ connection' = [connection EXCEPT ![c] = "closing"]
  /\ target' = [target EXCEPT ![d] = c]
  /\ waiter' = [waiter EXCEPT ![d] = "wait_idle"]
  /\ handle' = [handle EXCEPT ![d] = "held"]
  /\ UNCHANGED <<isServer, noticed, exited>>

\* disconnect() of a connected client or of a client on the server: close the
\* connection and spawn the waiting task.  On the server it may be called
\* again; the client remembers that it has disconnected.
Disconnect(d, c) ==
  /\ UserRuns
  /\ handle[d] = "none"
  /\ connection[c] # "none"
  /\ isServer \/ (noticed /\ NotYetCalled)
  /\ connection' = [connection EXCEPT ![c] = IF @ = "open" THEN "closing" ELSE @]
  /\ target' = [target EXCEPT ![d] = c]
  /\ waiter' = [waiter EXCEPT ![d] = "wait_idle"]
  /\ handle' = [handle EXCEPT ![d] = "held"]
  /\ UNCHANGED <<isServer, noticed, exited>>

\* Mutant: the Connected variant is answered like the others.
DisconnectIgnoringConnected(d) ==
  /\ UserRuns
  /\ ~isServer
  /\ handle[d] = "none"
  /\ handle' = [handle EXCEPT ![d] = "held"]
  /\ UNCHANGED <<isServer, noticed, connection, target, waiter, exited>>

\* disconnect() of a client that takes itself to be still connecting, though the
\* connection may be established, that never got connected, or that has
\* disconnected already.
DisconnectWithoutBarrier(d) ==
  /\ UserRuns
  /\ ~isServer
  /\ noticed => ~NotYetCalled
  /\ handle[d] = "none"
  /\ handle' = [handle EXCEPT ![d] = "held"]
  /\ UNCHANGED <<isServer, noticed, connection, target, waiter, exited>>

\* actually_wait_for_proper_disconnection
WaitOn(d) ==
  handle' = [handle EXCEPT ![d] = IF HasBarrier(d) THEN "waiting" ELSE "waited"]

\* wait_for_proper_disconnection, on the main thread or not: the other thread
\* only gets a warning.
Wait(d) ==
  /\ UserRuns
  /\ handle[d] = "held"
  /\ WaitOn(d)
  /\ UNCHANGED <<isServer, noticed, connection, target, waiter, exited>>

\* Dropping the handle waits too, or panics.
DropHandle(d) ==
  /\ UserRuns
  /\ handle[d] = "held"
  /\ IF ForbidHandleDrop
       THEN handle' = [handle EXCEPT ![d] = "panicked"]
       ELSE WaitOn(d)
  /\ UNCHANGED <<isServer, noticed, connection, target, waiter, exited>>

\* The main thread returns, which kills all the others.
Exit ==
  /\ UserRuns
  /\ exited' = TRUE
  /\ UNCHANGED <<isServer, noticed, connection, target, waiter, handle>>

------------------------------------------------------------------------------
(* The runtime: the spawned tasks.                                         *)

\* endpoint.wait_idle() looks at all the connections of the endpoint.
Idle == \A c \in Connection : connection[c] \in {"none", "drained"}

\* Mutant: the task goes to the barrier at once.
WaitIdleSkipped(d) ==
  /\ RuntimeRuns
  /\ waiter[d] = "wait_idle"
  /\ waiter' = [waiter EXCEPT ![d] = "at_barrier"]
  /\ UNCHANGED <<isServer, noticed, connection, target, handle, exited>>

\* Mutant: the task ends without going to the barrier.
WaitIdleWithoutBarrier(d) ==
  /\ RuntimeRuns
  /\ waiter[d] = "wait_idle"
  /\ Idle
  /\ waiter' = [waiter EXCEPT ![d] = "through"]
  /\ UNCHANGED <<isServer, noticed, connection, target, handle, exited>>

WaitIdleReturns(d) ==
  /\ RuntimeRuns
  /\ waiter[d] = "wait_idle"
  /\ Idle
  /\ waiter' = [waiter EXCEPT ![d] = "at_barrier"]
  /\ UNCHANGED <<isServer, noticed, connection, target, handle, exited>>

\* Barrier::new(2): the second to come lets both go on.
BarrierOpens(d) ==
  /\ ~exited
  /\ waiter[d] = "at_barrier"
  /\ handle[d] = "waiting"
  /\ waiter' = [waiter EXCEPT ![d] = "through"]
  /\ handle' = [handle EXCEPT ![d] = "waited"]
  /\ UNCHANGED <<isServer, noticed, connection, target, exited>>

------------------------------------------------------------------------------
(* The endpoint and its connections, driven by the runtime (external).     *)

Advance(c, from, to) ==
  /\ RuntimeRuns
  /\ connection[c] = from
  /\ connection' = [connection EXCEPT ![c] = to]
  /\ UNCHANGED <<isServer, noticed, target, waiter, handle, exited>>

\* The listener goes on accepting whatever else is being disconnected; the
\* endpoint of a client connects once.
Established(c) ==
  /\ isServer \/ \A other \in Connection : connection[other] = "none"
  /\ Advance(c, "none", "open")

\* The CONNECTION_CLOSE frame leaves.
PeerIsTold(c)  == Advance(c, "closing", "draining")

PeerLeaves(c)  == Advance(c, "open", "draining")
Drained(c)     == Advance(c, "draining", "drained")

Next ==
  \/ \E d \in Call, c \in Connection : Disconnect(d, c)
  \/ \E d \in Call :
       \/ DisconnectWithoutBarrier(d) \/ Wait(d) \/ DropHandle(d)
       \/ WaitIdleReturns(d) \/ BarrierOpens(d)
  \/ Notice \/ Exit
  \/ \E c \in Connection : Established(c) \/ PeerIsTold(c) \/ PeerLeaves(c) \/ Drained(c)

Spec == Init /\ [][Next]_vars

(***************************************************************************)
(* Fairness.  A runtime with a free thread polls its tasks, and the        *)
(* endpoint closes what it was asked to close.  The user, and the peers of *)
(* open connections, owe nothing.                                          *)
(***************************************************************************)
Fairness ==
  /\ \A d \in Call : WF_vars(WaitIdleReturns(d)) /\ WF_vars(BarrierOpens(d))
  /\ \A c \in Connection : WF_vars(PeerIsTold(c)) /\ WF_vars(Drained(c))

FairSpec == Spec /\ Fairness

------------------------------------------------------------------------------
(* Properties.                                                             *)

\* What the handle is for: when the wait on it returns, the connection that it
\* stands for has told its peer and is entirely gone.
WaitedIsDrained ==
  \A d \in Call :
    handle[d] = "waited" /\ HasBarrier(d) => connection[target[d]] = "drained"

\* What the user has asked to be closed: on a server the connection of the
\* client, on a client "the connection with the server".
AskedToClose(c) ==
  \E d \in Call : target[d] = c \/ (~isServer /\ handle[d] # "none")

\* A process that waits on all its handles before it ends leaves no peer to
\* find out by a timeout that it was disconnected, whether close() has told it
\* or it left first, but for one: disconnect() leaves a client's connection open
\* that its object has not noticed to be established, and gives no barrier.
NobodyIsLeftUntold ==
  exited /\ (\A d \in Call : handle[d] \in {"none", "waited"}) =>
    \A c \in Connection :
      AskedToClose(c) /\ connection[c] \in {"open", "closing"}
        => ~isServer /\ ~noticed /\ connection[c] = "open"

\* How a call, its task and its handle keep in step.
InStep(d) ==
  /\ HasBarrier(d) <=> target[d] # NoConnection
  /\ HasBarrier(d) => handle[d] # "none" /\ connection[target[d]] \notin {"none", "open"}
  /\ handle[d] = "waiting" => HasBarrier(d)
  /\ waiter[d] = "through" <=> handle[d] = "waited" /\ HasBarrier(d)
  /\ waiter[d] \in {"at_barrier", "through"} => connection[target[d]] = "drained"

HandlesInStep == \A d \in Call : InStep(d)

\* A connection that was closed here has the handle of a call to wait on.
ClosingHasCall ==
  \A c \in Connection : connection[c] = "closing" => \E d \in Call : target[d] = c

\* Tasks at their barriers hold a thread each, and no more than there are.
ThreadsInStep == IsFiniteSet(AtBarrier) /\ Cardinality(AtBarrier) <= Workers

\* A client's endpoint never has a second connection, nor a second task.
ClientHasOne ==
  ~isServer =>
    /\ \A b, c \in Connection : connection[b] # "none" /\ connection[c] # "none" => b = c
    /\ \A d, e \in Call : HasBarrier(d) /\ HasBarrier(e) => d = e

\* The first disconnect() of a client that got connected has a task.
ConnectedHasBarrier ==
  noticed => ~isServer /\ (NotYetCalled \/ \E d \in Call : HasBarrier(d))

\* The inductive invariant.
DisconnectionInv ==
  /\ TypeOK
  /\ HandlesInStep
  /\ ClosingHasCall
  /\ ThreadsInStep
  /\ ClientHasOne
  /\ ConnectedHasBarrier

\* Connections of which the end is up to a peer or to the user.
Open == {c \in Connection : connection[c] = "open"}

\* Every thread of the runtime waits at a barrier for a user who does not come.
Frozen == Cardinality({d \in AtBarrier : handle[d] # "waiting"}) >= Workers

\* The runtime, a barrier or the endpoint has something to do next.
StepIsDue ==
  \/ \E d \in Call : waiter[d] = "at_barrier" /\ handle[d] = "waiting"
  \/ RuntimeRuns /\ \E c \in Connection : connection[c] \in {"closing", "draining"}
  \/ RuntimeRuns /\ Idle /\ \E d \in Call : waiter[d] = "wait_idle"

\* No deadlock but by others: while the user waits on a handle there is a step
\* due that nobody has to be asked for, unless a connection stays open or
\* unattended handles hold all the threads, and neither happens to a client.
WaitCanGoOn ==
  ~exited /\ (\E d \in Call : handle[d] = "waiting")
    => StepIsDue \/ (isServer /\ (Open # {} \/ Frozen))

\* A wait that does not return has one of two reasons: connections that stay
\* open, or handles nobody waits on that hold all the threads of the runtime.
WaitHangsOnlyOnOthers ==
  \A d \in Call :
    []<>(handle[d] # "waiting") \/ <>[](Open # {} \/ Frozen \/ exited)

\* On a client, whose endpoint has no other connection, every wait returns.
ClientWaitReturns ==
  \A d \in Call :
    ~isServer /\ handle[d] = "waiting" ~> handle[d] = "waited" \/ exited

------------------------------------------------------------------------------
(* What the documentation says, and the code does not do.                  *)

\* wait_for_proper_disconnection waits for the disconnection that returned the
\* handle and should be fast: it should end when nothing is left to wait for.
WaitEndsOnceIdle ==
  \A d \in Call : handle[d] = "waiting" /\ Idle ~> handle[d] = "waited" \/ exited

==============================================================================
