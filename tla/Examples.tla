-------------------------------- MODULE Examples --------------------------------
(***************************************************************************)
(* The example server and its clients, examples/example_server.rs and      *)
(* examples/example_client.rs: how the library is meant to be used, and    *)
(* how its parts go together.  The main thread of the server adds the      *)
(* clients that the listener provides to a list, forgets those that are    *)
(* announced to be gone, and after Ctrl-C disconnects the rest one by one, *)
(* waiting for each.                                                       *)
(*                                                                         *)
(* The listener and the end of connections are ServerListener and          *)
(* Disconnection: what the listener accepts is a connection of the         *)
(* endpoint on which disconnect() waits, and the tasks of both need a      *)
(* thread of the same runtime.  The call of disconnect() for a client is   *)
(* named after the client.                                                 *)
(***************************************************************************)
EXTENDS Naturals, Sequences, FiniteSets

CONSTANTS
  Client,      \* the example clients, each of them started once
  NoClient,
  Workers      \* threads of the server's runtime

ASSUME ExamplesAssumption ==
  /\ NoClient \notin Client
  /\ Workers \in Nat \ {0}

VARIABLES
  peer, knocked, incoming, acceptTask, current, channel, listening, provided,
  isServer, noticed, connection, target, waiter, handle, exited,
  clients,   \* the list of clients, in the order of their ids
  event,     \* event[c]: what the receive tasks of c made of its loss
  halt,      \* set by the handler of Ctrl-C
  stage      \* where the main thread is: "poll_client", "poll_events" or "disconnect"

Listener == INSTANCE ServerListener
Ending == INSTANCE Disconnection
  WITH Connection <- Client, NoConnection <- NoClient, Call <- Client,
       UserThreads <- 1, ForbidHandleDrop <- FALSE

listenerVars == <<peer, knocked, incoming, acceptTask, current, channel, listening, provided>>
endingVars == <<isServer, noticed, connection, target, waiter, handle, exited>>
mainVars == <<clients, event, halt, stage>>
vars == <<listenerVars, endingVars, mainVars>>

Over(c) == connection[c] \in {"draining", "drained"}

TypeOK ==
  /\ Listener!TypeOK
  /\ Ending!TypeOK
  /\ clients \subseteq Client
  /\ event \in [Client -> {"none", "disconnected", "panicked"}]
  /\ halt \in BOOLEAN
  /\ stage \in {"poll_client", "poll_events", "disconnect"}

Init ==
  /\ Listener!Init
  /\ Ending!Init
  /\ isServer
  /\ clients = {}
  /\ event = [c \in Client |-> "none"]
  /\ halt = FALSE
  /\ stage = "poll_client"

------------------------------------------------------------------------------
(* The example clients.                                                    *)

ClientStarts(c) ==
  /\ ~exited
  /\ Listener!Knock(c)
  /\ UNCHANGED <<endingVars, mainVars>>

\* It is halted, or told that the server has disconnected, or dies.
ClientEnds(c) ==
  /\ ~exited
  /\ Listener!Leave(c)
  /\ UNCHANGED <<endingVars, mainVars>>

------------------------------------------------------------------------------
(* The accept task and the endpoint, on the server's runtime.              *)

Start ==
  /\ Ending!RuntimeRuns
  /\ Listener!Start
  /\ UNCHANGED <<endingVars, mainVars>>

\* An attempt is a connection of the endpoint from when it is accepted.
Accept ==
  /\ Listener!Accept
  /\ Ending!Established(Head(incoming))
  /\ UNCHANGED mainVars

Handshake(c) ==
  /\ Ending!RuntimeRuns
  /\ \/ connection[c] = "open" /\ Listener!HandshakeSucceeds(c)
     \/ connection[c] # "open" /\ Listener!HandshakeFails(c)
  /\ UNCHANGED <<endingVars, mainVars>>

\* Quinn notices that a client is gone.  The receive tasks, which there are
\* once the handshake is done, tell the user of it or panic.
LosesClient(c) ==
  /\ peer[c] = "gone"
  /\ Ending!PeerLeaves(c)
  /\ \/ current = <<c>> /\ UNCHANGED event
     \/ /\ current # <<c>>
        /\ \E e \in {"disconnected", "panicked"} : event' = [event EXCEPT ![c] = e]
  /\ UNCHANGED <<listenerVars, clients, halt, stage>>

Closes(c) ==
  /\ Ending!PeerIsTold(c) \/ Ending!Drained(c)
  /\ UNCHANGED <<listenerVars, mainVars>>

WaitTask(c) ==
  /\ Ending!WaitIdleReturns(c) \/ Ending!BarrierOpens(c)
  /\ UNCHANGED <<listenerVars, mainVars>>

------------------------------------------------------------------------------
(* The main thread of the server.                                          *)

\* Mutant: the new client is not put into the list.
PollClientForgets ==
  /\ stage = "poll_client"
  /\ Listener!PollClient
  /\ UNCHANGED <<endingVars, mainVars>>

\* while let Some(new_client) = server_listener.poll_client()
PollClient ==
  /\ stage = "poll_client"
  /\ Listener!PollClient
  /\ clients' = clients \cup {Head(channel)}
  /\ UNCHANGED <<endingVars, event, halt, stage>>

NoMoreClients ==
  /\ stage = "poll_client"
  /\ channel = <<>>
  /\ stage' = "poll_events"
  /\ UNCHANGED <<listenerVars, endingVars, clients, event, halt>>

\* Mutant: the clients that are gone stay in the list.
PollEventsKeeping ==
  /\ stage = "poll_events"
  /\ stage' = IF halt THEN "disconnect" ELSE "poll_client"
  /\ UNCHANGED <<listenerVars, endingVars, clients, event, halt>>

\* The events of every client are polled, those announced to be gone are
\* forgotten, and the flag of the handler of Ctrl-C is read.
PollEvents ==
  /\ stage = "poll_events"
  /\ clients' = {c \in clients : event[c] # "disconnected"}
  /\ stage' = IF halt THEN "disconnect" ELSE "poll_client"
  /\ UNCHANGED <<listenerVars, endingVars, event, halt>>

\* for (client, client_id) in clients: whoever was provided first was pushed
\* first.
First(c) ==
  /\ c \in clients
  /\ \E i \in 1 .. Len(provided) :
       provided[i] = c /\ \A j \in 1 .. i - 1 : provided[j] \notin clients

\* Mutant: everyone is disconnected first, then each is waited for.
DisconnectAllFirst(c) ==
  /\ stage = "disconnect"
  /\ c \in clients
  /\ \/ Ending!Disconnect(c, c)
     \/ (\A d \in clients : handle[d] # "none") /\ Ending!Wait(c)
  /\ UNCHANGED <<listenerVars, mainVars>>

\* client.disconnect().wait_for_proper_disconnection(), the call and the wait.
DisconnectFirst(c) ==
  /\ stage = "disconnect"
  /\ First(c)
  /\ Ending!Disconnect(c, c) \/ Ending!Wait(c)
  /\ UNCHANGED <<listenerVars, mainVars>>

\* Mutant: the client is done with as soon as it is disconnected.
DisconnectedUnwaited(c) ==
  /\ stage = "disconnect"
  /\ handle[c] # "none"
  /\ clients' = clients \ {c}
  /\ UNCHANGED <<listenerVars, endingVars, event, halt, stage>>

\* The wait has returned, the next client has its turn.
Disconnected(c) ==
  /\ stage = "disconnect"
  /\ handle[c] = "waited"
  /\ c \in clients
  /\ clients' = clients \ {c}
  /\ UNCHANGED <<listenerVars, endingVars, event, halt, stage>>

\* main returns, which drops the listener and ends the process.
Return ==
  /\ stage = "disconnect"
  /\ clients = {}
  /\ Listener!DropListener
  /\ Ending!Exit
  /\ UNCHANGED mainVars

\* The handler of Ctrl-C.
CtrlC ==
  /\ ~exited /\ ~halt
  /\ halt' = TRUE
  /\ UNCHANGED <<listenerVars, endingVars, clients, event, stage>>

MainLoop ==
  \/ PollClient \/ NoMoreClients \/ PollEvents \/ Return
  \/ \E c \in Client : DisconnectFirst(c) \/ Disconnected(c)

Next ==
  \/ MainLoop \/ CtrlC \/ Start \/ Accept
  \/ \E c \in Client :
       \/ ClientStarts(c) \/ ClientEnds(c)
       \/ Handshake(c) \/ LosesClient(c) \/ Closes(c) \/ WaitTask(c)

Spec == Init /\ [][Next]_vars

(***************************************************************************)
(* Fairness.  The main thread runs, and a runtime with a free thread polls *)
(* its tasks; a handshake ends and the loss of a client is noticed, by     *)
(* Quinn's idle timeout at the latest.  Clients, and the hand on Ctrl-C,   *)
(* owe nothing.                                                            *)
(***************************************************************************)
Fairness ==
  /\ WF_vars(MainLoop)
  /\ WF_vars(Start)
  /\ WF_vars(Accept)
  /\ \A c \in Client :
       /\ WF_vars(Handshake(c))
       /\ WF_vars(LosesClient(c))
       /\ WF_vars(Closes(c))
       /\ WF_vars(WaitTask(c))

FairSpec == Spec /\ Fairness

------------------------------------------------------------------------------
(* Properties.                                                             *)

Provided == Listener!Elements(provided)

\* A client that was provided is in the list or its connection is over: the
\* example never loses sight of one that it would have to disconnect.
ListIsCurrent == \A c \in Provided : c \in clients \/ Over(c)

\* When the server has exited, every client that it was given has been told,
\* or was the one who left.  Nothing of the kind holds of the clients in the
\* channel or at the handshake.
KnownAreTold == exited => \A c \in Provided : Over(c)

\* How the list, the events and the calls of disconnect keep in step.
MainInStep ==
  /\ clients \subseteq Provided
  /\ exited => stage = "disconnect" /\ clients = {}
  /\ \A c \in Client :
       /\ event[c] = "disconnected" => Over(c)
       /\ waiter[c] # "none" <=> handle[c] # "none"
       /\ handle[c] # "none" => target[c] = c /\ connection[c] # "none"
       /\ waiter[c] = "at_barrier" \/ handle[c] = "waited" => connection[c] = "drained"

\* The loop has one handle in hand at a time, that of the first of the list.
OneAtATime ==
  \A c \in Client : handle[c] \notin {"none", "waited"} => stage = "disconnect" /\ First(c)

\* The inductive invariant.
ExamplesInv ==
  /\ TypeOK
  /\ MainInStep
  /\ ListIsCurrent
  /\ OneAtATime

\* The waits of the shutdown do not hold each other up: while the main thread
\* is blocked there is a step due on the runtime, however few its threads,
\* unless a client stays connected.
HaltCanGoOn ==
  ~exited /\ (\E c \in Client : handle[c] = "waiting")
    => Ending!StepIsDue \/ Ending!Open # {}

\* After Ctrl-C the server ends, unless a client that is not gone stays
\* connected: the order of the waits, the clients that come meanwhile, and the
\* threads that the waiting tasks block stop nothing for ever.
HaltEnds ==
  [](halt => \/ <>exited
             \/ <>[](\E c \in Client : connection[c] = "open" /\ peer[c] # "gone"))

\* A client that is gone leaves the list, unless its receive tasks panicked.
LostIsForgotten ==
  \A c \in Client : peer[c] = "gone" ~> c \notin clients \/ event[c] = "panicked" \/ halt

------------------------------------------------------------------------------
(* What the documentation says, and the code does not do.                  *)

\* "Make sure hitting Ctrl-C lets us close the connection properly."
HaltAlwaysEnds == halt ~> exited

=================================================================================
