---------------------------- MODULE ServerListener ----------------------------
(***************************************************************************)
(* The listener of the server, server.rs: one task accepts connections and *)
(* sees each handshake to its end before it looks at the next one, makes   *)
(* the object of the client and puts it in an mpsc channel, from which the *)
(* user takes it with poll_client.  A handshake that fails, or a channel   *)
(* that nobody listens to any more, makes the task panic; the user is not  *)
(* told.  What happens on an established connection is MessageLink's.      *)
(***************************************************************************)
EXTENDS Naturals, Sequences

CONSTANT Client      \* the clients that may try to connect, each of them once

VARIABLES
  peer,        \* peer[c]: "away", "knocking", "connected" or "gone"
  knocked,     \* every client that Quinn has heard of, in order
  incoming,    \* those of them that accept() has not returned yet
  acceptTask,  \* "starting", "accepting", "handshaking" or "panicked"
  current,     \* <<c>> during the handshake with c, and after its failure
  channel,     \* the clients that wait in the mpsc channel
  listening,   \* has the user still got the listener?
  provided     \* every client that poll_client has returned

vars == <<peer, knocked, incoming, acceptTask, current, channel, listening, provided>>

TypeOK ==
  /\ peer \in [Client -> {"away", "knocking", "connected", "gone"}]
  /\ knocked \in Seq(Client)
  /\ incoming \in Seq(Client)
  /\ acceptTask \in {"starting", "accepting", "handshaking", "panicked"}
  /\ current \in {<<>>} \cup {<<c>> : c \in Client}
  /\ channel \in Seq(Client)
  /\ listening \in BOOLEAN
  /\ provided \in Seq(Client)

Elements(s) == {s[i] : i \in 1 .. Len(s)}

\* The socket is bound when `new` returns, the endpoint is left to the task.
Init ==
  /\ peer = [c \in Client |-> "away"]
  /\ knocked = <<>>
  /\ incoming = <<>>
  /\ acceptTask = "starting"
  /\ current = <<>>
  /\ channel = <<>>
  /\ listening = TRUE
  /\ provided = <<>>

------------------------------------------------------------------------------
(* The task.                                                               *)

\* Endpoint::new, unwrapped: nothing is accepted if it fails.
Start ==
  /\ acceptTask = "starting"
  /\ acceptTask' \in {"accepting", "panicked"}
  /\ UNCHANGED <<peer, knocked, incoming, current, channel, listening, provided>>

\* Mutant: the last who came is served first.
AcceptNewest ==
  /\ acceptTask = "accepting"
  /\ incoming # <<>>
  /\ acceptTask' = "handshaking"
  /\ current' = <<incoming[Len(incoming)]>>
  /\ incoming' = SubSeq(incoming, 1, Len(incoming) - 1)
  /\ UNCHANGED <<peer, knocked, channel, listening, provided>>

\* endpoint.accept().await.unwrap()
Accept ==
  /\ acceptTask = "accepting"
  /\ incoming # <<>>
  /\ acceptTask' = "handshaking"
  /\ current' = <<Head(incoming)>>
  /\ incoming' = Tail(incoming)
  /\ UNCHANGED <<peer, knocked, channel, listening, provided>>

\* Mutant: the client's object is not sent.
HandshakeSucceedsUnsent(c) ==
  /\ acceptTask = "handshaking"
  /\ current = <<c>>
  /\ peer[c] = "knocking"
  /\ peer' = [peer EXCEPT ![c] = "connected"]
  /\ acceptTask' = "accepting"
  /\ current' = <<>>
  /\ UNCHANGED <<knocked, incoming, channel, listening, provided>>

\* The handshake ends well: the client's object is made, with its own receive
\* tasks, and sent, which panics if the listener has been dropped.
HandshakeSucceeds(c) ==
  /\ acceptTask = "handshaking"
  /\ current = <<c>>
  /\ peer[c] = "knocking"
  /\ peer' = [peer EXCEPT ![c] = "connected"]
  /\ \/ /\ listening
        /\ channel' = Append(channel, c)
        /\ acceptTask' = "accepting"
        /\ current' = <<>>
     \/ /\ ~listening
        /\ acceptTask' = "panicked"
        /\ UNCHANGED <<channel, current>>
  /\ UNCHANGED <<knocked, incoming, listening, provided>>

\* Mutant: the task panics over a client that is not the one at hand.
HandshakeFailsForAnother(c) ==
  /\ acceptTask = "handshaking"
  /\ peer[c] = "gone"
  /\ acceptTask' = "panicked"
  /\ UNCHANGED <<peer, knocked, incoming, current, channel, listening, provided>>

\* The second unwrap: the client gave up, died, or could not shake hands.
HandshakeFails(c) ==
  /\ acceptTask = "handshaking"
  /\ current = <<c>>
  /\ peer[c] = "gone"
  /\ acceptTask' = "panicked"
  /\ UNCHANGED <<peer, knocked, incoming, current, channel, listening, provided>>

------------------------------------------------------------------------------
(* The user.                                                               *)

\* Mutant: the client is taken out of the channel and lost.
PollClientLoses ==
  /\ listening
  /\ channel # <<>>
  /\ channel' = Tail(channel)
  /\ UNCHANGED <<peer, knocked, incoming, acceptTask, current, listening, provided>>

\* Mutant: nothing is returned once the sender of the channel is gone.
PollClientWhileAccepting ==
  /\ listening
  /\ acceptTask # "panicked"
  /\ channel # <<>>
  /\ provided' = Append(provided, Head(channel))
  /\ channel' = Tail(channel)
  /\ UNCHANGED <<peer, knocked, incoming, acceptTask, current, listening>>

\* poll_client, when there is something to return.
PollClient ==
  /\ listening
  /\ channel # <<>>
  /\ provided' = Append(provided, Head(channel))
  /\ channel' = Tail(channel)
  /\ UNCHANGED <<peer, knocked, incoming, acceptTask, current, listening>>

\* The objects in the channel are dropped with it, their connections live on
\* in their receive tasks.
DropListener ==
  /\ listening
  /\ listening' = FALSE
  /\ channel' = <<>>
  /\ UNCHANGED <<peer, knocked, incoming, acceptTask, current, provided>>

------------------------------------------------------------------------------
(* The clients, and the queue of incoming attempts in Quinn (external).    *)

Knock(c) ==
  /\ peer[c] = "away"
  /\ peer' = [peer EXCEPT ![c] = "knocking"]
  /\ knocked' = Append(knocked, c)
  /\ incoming' = Append(incoming, c)
  /\ UNCHANGED <<acceptTask, current, channel, listening, provided>>

\* A client leaves, fails, or gives up while it waits for its turn.
Leave(c) ==
  /\ peer[c] \in {"knocking", "connected"}
  /\ peer' = [peer EXCEPT ![c] = "gone"]
  /\ UNCHANGED <<knocked, incoming, acceptTask, current, channel, listening, provided>>

Handshake(c) == HandshakeSucceeds(c) \/ HandshakeFails(c)

Next ==
  \/ Start \/ Accept \/ PollClient \/ DropListener
  \/ \E c \in Client : Handshake(c) \/ Knock(c) \/ Leave(c)

Spec == Init /\ [][Next]_vars

(***************************************************************************)
(* Fairness.  The runtime polls the task, a handshake ends one way or the  *)
(* other (Quinn's idle timeout), and the user asks for clients in a loop,  *)
(* as the documentation of poll_client shows.  The runtime does not poll   *)
(* while disconnections block it at their barriers (server.rs:430), and    *)
(* that may be for ever; then the clients in the line give up and are      *)
(* gone, and the listener owes them nothing.                               *)
(***************************************************************************)
Fairness ==
  /\ WF_vars(Start)
  /\ WF_vars(Accept)
  /\ \A c \in Client : WF_vars(Handshake(c))
  /\ WF_vars(PollClient)

FairSpec == Spec /\ Fairness

------------------------------------------------------------------------------
(* Properties.                                                             *)

\* Clients are provided in the order in which they came, none left out and
\* none twice: one handshake at a time means that nobody overtakes.
ArrivalOrderKept ==
  /\ listening => knocked = provided \o channel \o current \o incoming
  /\ Len(provided) <= Len(knocked)
  /\ \A i \in 1 .. Len(provided) : provided[i] = knocked[i]

\* While the user keeps the listener, a connected client is with the user or in
\* the channel: a connection that nobody will ever serve takes a drop.
NobodyStranded ==
  listening => \A c \in Client :
    peer[c] = "connected" => c \in Elements(provided) \cup Elements(channel)

\* How the clients, the queue of Quinn and the task keep in step.
QueuesInStep ==
  /\ \A c \in Client : peer[c] = "away" <=> c \notin Elements(knocked)
  /\ \A i, j \in 1 .. Len(knocked) : knocked[i] = knocked[j] => i = j
  /\ acceptTask \in {"starting", "accepting"} => current = <<>>
  /\ acceptTask = "starting" => knocked = incoming
  /\ acceptTask = "handshaking" => current # <<>>

\* As long as the user keeps the listener, the accept task goes on, unless it
\* never started or the client it was shaking hands with has failed: those who
\* leave later, or before their turn comes, do no harm to the others.
PanicHasCause ==
  listening /\ acceptTask = "panicked" =>
    \/ current = <<>> /\ knocked = incoming
    \/ \E c \in Client : current = <<c>> /\ peer[c] = "gone"

\* The inductive invariant.
ListenerInv ==
  /\ TypeOK
  /\ QueuesInStep
  /\ ArrivalOrderKept
  /\ NobodyStranded
  /\ PanicHasCause

\* No deadlock but by a panic: while somebody waits in the line of a listener
\* that is open, the task can go on, or the user can take a client; the client
\* at hand is never one whose handshake is over.
LineCanGoOn ==
  listening /\ acceptTask # "panicked" /\ channel \o current \o incoming # <<>>
    => \/ channel # <<>>
       \/ acceptTask = "starting"
       \/ acceptTask = "accepting" /\ incoming # <<>>
       \/ /\ acceptTask = "handshaking"
          /\ \E c \in Client : current = <<c>> /\ peer[c] \in {"knocking", "gone"}

\* The listener keeps the promise of WaitingLine: its line goes through Quinn's
\* queue, the hands of the accept task and the channel, and a drop of the
\* listener ends it.
Line == INSTANCE WaitingLine WITH
          line  <- IF listening THEN channel \o current \o incoming ELSE <<>>,
          ready <- Len(channel),
          open  <- listening

\* Every behaviour of the listener is one of the line: clients come, become
\* ready and are provided in one order, each once, whatever the accept task is
\* doing and whether or not it still runs.
ImplementsLine == Line!Spec

\* A client that comes is provided, unless it leaves, the user drops the
\* listener, or the accept task has panicked.
KnockingIsProvided ==
  \A c \in Client :
    peer[c] = "knocking" ~>
      \/ c \in Elements(provided)
      \/ peer[c] = "gone" \/ ~listening \/ acceptTask = "panicked"

\* A client that could connect is not forgotten in the channel, even when the
\* task panics over another one afterwards.
ConnectedIsProvided ==
  \A c \in Client : peer[c] = "connected" ~> c \in Elements(provided) \/ ~listening

------------------------------------------------------------------------------
(* What the documentation says, and the code does not do.                  *)

\* The listener establishes connections to new clients and provides them: no
\* word of an end of it because of what one client does.
ListenerKeepsProviding ==
  \A c \in Client :
    peer[c] = "knocking" /\ acceptTask = "accepting" ~>
      c \in Elements(provided) \/ peer[c] = "gone" \/ ~listening

==============================================================================
