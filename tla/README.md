# Formal models of warqueen

warqueen is a small Rust library for client/server message passing on top of
Quinn (QUIC) and tokio. Its users call plain, non-async functions; behind every
call there are tokio tasks, channels and connections that either end may lose
at any moment. This directory holds TLA+ models of the library, the TLC
configurations that check them on small instances, and proofs for TLAPS.

The library, `src/src/`, and its examples, `src/examples/`, are modelled from its source. Quinn, tokio and the
standard library are modelled from how the library uses them; the definitions
that stand for them are marked `(external)` in the modules.

## 1. Inventory

| Component | Source | State it keeps | Operations |
|---|---|---|---|
| Message link | `sending.rs`, `receiving.rs`, receive tasks in `client.rs`/`server.rs` | send tasks, oneshot channels, streams, accept loop, reader tasks, mpsc channel of events | send a message, ask a handle for its state, accept a stream, read and decode it, tell of a loss |
| Client object | `client.rs` | the enum `ClientNetworkingEnum`, pending messages, oneshot channel of the connecting task, `_event_already_polled` flags | `new`, `send_message_to_server`, `poll_event_from_server`, `disconnect`, drop |
| Disconnection | `disconnection.rs`, both `disconnect` functions | handle with an optional `Barrier`, task that waits for the endpoint | `disconnect`, `wait_for_proper_disconnection`, drop of a handle |
| Server listener | `server.rs` | accept task, mpsc channel of clients | `new`, `poll_client`, drop |
| Server socket | `server.rs` | iterator `SocketAddrsToTry` | `new` (bind a UDP socket) |
| Client on the server | `server.rs` | connection, channel of events | `send_message_to_client`, `poll_event_from_client`, `disconnect`, `client_address` |
| Async runtime | `async_runtime.rs` | a runtime of its own for every listener and every client, one thread by default | created by `new`, never stopped |
| Cryptography | `client.rs`, `server.rs` | a process-wide provider | installed by `new` |
| ClonelessSending | `cloneless.rs` | an `Arc` per message with a view | sending a view or owned content, `into_owned` |
| Net traits, derive macros | `net_traits.rs`, `lib.rs`, `warqueen_derive/` | none | marker traits, code generation |
| Examples | `examples/` | list of clients, flag of the Ctrl-C handler | the main loops of a server and of its clients, shutting down |

**How they interact.** The listener's accept task makes a client object per
handshake and sends it through an mpsc channel to the user, who polls. The
client's connecting task sends its answer through a oneshot channel, and it is
the *user's next call* that moves the enum on. Both objects start, per
connection, one accept loop, which starts one reader per stream; loop and
readers all write to the same mpsc channel of events. Every message sent starts
a task that reports through a oneshot channel, read by the handle. `disconnect`
closes the connection and starts a task that waits for the *endpoint* to have
no connection left and then meets the user's thread at a `std::sync::Barrier`.
All the tasks of one listener and its clients, or of one client, share the
threads of one runtime. The example server puts this together: its main thread
adds the clients that the listener provides to a list, polls their events,
forgets those that are gone, and after Ctrl-C disconnects the others one by one
and waits for each.

**What is hard.**

* *Interleaving*: one reader task per stream, the loop, and the user's polls.
* *Loss*: an end closes, dies, or times out between any two awaits, on either
  side of an acknowledgement.
* *Stale state*: the client's enum says `Connecting` until somebody looks.
* *Panics*: `unwrap` and `panic!` in a task end that task, drop its channels,
  and nobody joins it.
* *Blocking*: a barrier waits on a runtime thread; a runtime thread drives
  everything else.
* *Sharing*: a message with a view is serialized later than it is sent, and
  holds the program's `Arc` until its task ends, after its handle has been told.
* *Boundaries*: port numbers around the end of `u16`, the limit of streams.

**What makes each component correct.**

* *Link*: no message delivered twice; a handle tells the truth (who is to
  blame, and "sent" only of what the other end has); a disconnection is
  announced only if there is one, never after one's own close, and always when
  the peer closed or timed out; one bad message does not hurt the others;
  every handle resolves.
* *Client*: the outcome of the connecting is the first event and comes once;
  messages sent before and after the connection is established go to their
  tasks in the order of the calls, none lost, none twice; every handle
  resolves; `disconnect` is final.
* *Disconnection*: when a wait returns the peer has been told and the
  connection is gone; a process that waits on its handles leaves no peer in
  the dark (section 4 names one exception); waits return.
* *Listener*: clients are provided in the order of arrival, none lost, none
  twice; the accept task stands.
* *Socket*: ports are tried without gaps; the port told is that of the socket.
* *Examples*: no client drops out of the list while it is connected; a client
  that is gone is forgotten; after Ctrl-C everybody in the list is told, and the
  server ends.
* *ClonelessSending*: what is received is what the view showed when it was
  sent; the `Arc` comes back to the program.

The full list of hazards, each at its line and with the properties that would
catch it, is in `PROJECT.json`.

## 2. Modules

| Module | What it is | Source |
|---|---|---|
| `ConnectionErrors` | what a Quinn connection error becomes: sending result, event, or panic | `sending.rs`, `server.rs` (repeated in `client.rs`) |
| `Messaging` | **abstract**: what one direction of a connection promises to both users | |
| `ClientPromise` | **abstract**: what a client's object promises its user, without tasks, channels or an enum | |
| `WaitingLine` | **abstract**: what the listener promises, a line that is served in the order of arrival until it breaks | |
| `CopySending` | **abstract**: sending a copy of the data at the call, which sharing an `Arc` is to look like | |
| `MessageLink` | one direction of an established connection, both ends | `sending.rs`, `receiving.rs`, `server.rs`, `client.rs` |
| `ClientNetworking` | the client's object with its connecting task | `client.rs` |
| `Disconnection` | calls of `disconnect`, their tasks, handles, and the runtime's threads | `disconnection.rs`, `server.rs`, `client.rs`, `async_runtime.rs` |
| `ServerListener` | the accept task and its channel | `server.rs` |
| `PortProbe` | how the server's socket gets its port | `server.rs` |
| `Examples` | **composition** of `ServerListener` and `Disconnection` around the main loop of the example server | `examples/example_server.rs`, `examples/example_client.rs` |
| `ClonelessSending` | messages with views, from the call to the receiver, and the program that writes meanwhile | `cloneless.rs`, `examples/cloneless.rs`, `client.rs` |
| `MC…` | instances for TLC | |
| `…Proofs` | theorems about the module of that name | |

### From the code to the models

**MessageLink.** Every message has a send task whose program counter `task[m]`
is named after the await at which `send_message` stands (`open_uni`,
`write_all`, `stopped`). `result[m]` is the oneshot channel; `GetState`
transcribes `SendingStateHandle::get_state`, which answers `Error` for a channel
whose sender a panic has dropped. At the other end `loop` is the accept loop,
`reader[m]` the task spawned for a stream, and `events` the mpsc channel, kept
as its history: polling never holds the writers up. `conn[e]` is what the
`Connection` of end `e` would answer: open, or its error. `Disconnect`,
`LoseConnection` and `Die` may happen at any step, at either end, and Quinn's
part is three actions per message (first frame, last frame, acknowledgement or
stop), so that a message may be complete at one end and its acknowledgement
lost. An end's tasks are polled by its runtime, and only while `Runs` of that
end: once an end's connection is over, tasks of `disconnect` may hold every
thread of the runtime at their barriers and let go again (`Barrier`,
`blocked[e]`), which `Disconnection` has in detail. The ends that may come to
this are the parameter `MayBlock`. A message's contents are reduced to which
conversion of it fails (`Payload`): serialization at the sender, decoding at the
receiver, the limit of one gigabyte in `read_to_end`, or none. The two directions repeat the same
code in `client.rs` and `server.rs`; the map names the server's.

**ClientNetworking.** `networking` is the variant of the enum (with
`Disconnected` split by its `WhoClosed`), `announced` its
`_event_already_polled` flag, `pending` the vector, `slot` the oneshot channel
of the connecting task. Every call begins with `ConnectIfPossible`, as in the
code; the operators whose names end in `Now` are the values after it, so that
each call is one atomic action that does all its function does. Of the
connection the module keeps only its error and the events that come out of
it; `MessageLink` has the details.

**Disconnection.** `target`, `waiter` and `handle` are the connection, the task
and the returned handle of each call. A task at the barrier occupies one of
`Workers` threads of the runtime (`thread_count`, 1 by default), and when all
are occupied nothing else of the runtime moves, the endpoint included. A waiting
user blocks one of `UserThreads`. `isServer`, chosen in `Init`, says whether
the endpoint is the listener's, shared by all its clients, or that of a client
with its single connection. `noticed` says whether a client's enum has become
`Connected`, which takes a call (`Notice` is `connect_if_possible`): `disconnect`
of a client that has not noticed its connection closes nothing and returns a
handle without a barrier. Dropping a handle waits, or panics with the feature
`forbid_handle_drop`.

**ServerListener.** `acceptTask` and `current` are the task and the client it
shakes hands with; `incoming` is Quinn's queue, `channel` the mpsc channel,
`knocked` and `provided` the histories the properties compare. Both unwraps of
the task, of the handshake and of the send, are panics of the model.

**PortProbe.** `Following` is `wrapping_add(1)` over `PortCount` ports (65536
in the code), `BindGoesOn` the iteration inside `UdpSocket::bind`, port 0 the
system's choice from `Ephemeral`. Other programs take and release ports
between two attempts.

**Examples.** The variables of `ServerListener` and `Disconnection` under their
own names, and those of the server's main thread: `clients` is the list, in the
order of `provided` since ids are given in that order, `stage` the place in the
loop, `halt` the flag of the handler of Ctrl-C, `event[c]` what the receive tasks
made of the loss of a client. Two things couple the parts: an attempt that the
listener accepts is a connection of the endpoint (`Accept` is `Listener!Accept`
and `Ending!Established` in one step), and the tasks of both need a thread that
runs (`Ending!RuntimeRuns`). The call of `disconnect` for a client is named after
the client, since the loop makes one at most. `example_both.rs` and
`cloneless.rs` repeat the same two loops.

**ClonelessSending.** `arc` is the allocation that the program's `Arc` points to
and `content` the version of the data in each; `hold[m]` is the allocation that
a message with a view keeps alive, from the call until its task ends or the
vector of pending messages is dropped. `Write` is what Rust allows
(`Arc::make_mut`): in place if nobody shares the `Arc`, in a copy otherwise;
`WriteInside`, with interior mutability only, is in place whoever shares.
`stage[m]` follows the message; "resolved" lies between the report to the handle
and the end of the task, when the message is dropped.

### Where the models abstract

* A call by the user and one poll of a task are atomic: they share state only
  through channels and through Quinn's connection, which has a lock of its own.
* Reading and writing are split at the first and the last byte; how many bytes
  lie between makes no difference to the code.
* If an end closes a connection that is already lost, which of the two errors
  later awaits see is left open.
* `WhoClosed::ThePeer` is never constructed in the code and left out.
* `TransportError` stands also for `VersionMismatch` and `CidsExhausted`, which
  the code never tells apart.

## 3. Runs

`PROJECT.json` lists the runs; each is
`tlc -workers 2 -config <run>.cfg <module>`. Deadlock is not checked: a
connection that is over, a user who has left, a process that has exited are
states in which nothing has to happen any more.

| Run | Instance | Checks |
|---|---|---|
| `link` | a fine message, one that cannot be serialized, one that cannot be decoded; 2 streams; the receiver's runtime may be blocked | `SentWasReceived`, `BlameIsFounded`, `NewsCanGoOn`, `LinkInv`, `QuietAfterOurClose`, refinement `ImplementsMessaging` |
| `link_live` | a fine message, one that is too long; 1 stream; the sender's runtime may be blocked | `SendCanGoOn`, `SendResolves`, `SentIsDelivered`, `LossIsReported` |
| `client` | 2 messages each way | `ClientCanGoOn`, `LeftOpenIsUnused`, `ClientInv`, refinement `ImplementsPromise`, `DisconnectIsFinal`, `ConnectingIsTold`, `HandlesResolve` |
| `disconnect` | 3 connections, 3 calls, 1 runtime thread, 2 user threads, both sides, handles that may not be dropped | `WaitedIsDrained`, `NobodyIsLeftUntold`, `WaitCanGoOn`, `DisconnectionInv`, `WaitHangsOnlyOnOthers`, `ClientWaitReturns` |
| `listener` | 3 clients | `NobodyStranded`, `ListenerInv`, refinement `ImplementsLine`, `KnockingIsProvided`, `ConnectedIsProvided` |
| `port` | 5 ports, one of them ephemeral | `ProbeInv`, `ProbeComesNearer`, `ProbeEnds` |
| `example` | 3 clients, 1 runtime thread | `KnownAreTold`, `HaltCanGoOn`, `ExamplesInv`, `HaltEnds`, `LostIsForgotten` |
| `cloneless` | 2 messages, 3 allocations, 3 writes | `ClonelessInv`, refinement `SharingIsCopying`, `ArcComesBack` |

The inductive invariants (`LinkInv`, `ClientInv`, `DisconnectionInv`,
`ListenerInv`, `ProbeInv`, `ExamplesInv`, `ClonelessInv`) contain the type
invariant of their module, and the properties that are inductive only together
with them: `DeliveredOnce` and `DisconnectionIsReal` in `LinkInv`,
`EventProtocol`, `CallOrderKept` and `NoOrphanHandle` in `ClientInv`,
`ArrivalOrderKept` and `PanicHasCause` in `ListenerInv`, `NoneSkipped` and
`PortIsReal` in `ProbeInv`. Of `ClonelessInv`, `ReceivedIsFaithful` is a
consequence.

**Why the bounds are enough.** Messages of a link touch each other only through
the stream limit, the loop and the channel: a pair shows every such meeting. In
`link` two streams can be open at once, so two readers and the loop meet the
same loss; in `link_live` there are fewer streams than messages, so that one
waits for the other's reader. A blocked runtime only takes steps from the tasks
of its own end, and what its end shares with the other is fixed by then, the
connection being over; so each run blocks one of them, `link` the one whose
loop and readers meet a loss, `link_live` the one whose handles wait. The
theorems cover both at once. Order needs two messages in `client`: two sent
before the connection, one before and one after, and both after all occur. In
`disconnect` three calls are two more than there are threads of the runtime,
and the third connection stays or comes while others are being closed. In
`listener` the client at hand fails with one behind it and one before it. In
`port` the desired port, port 0 and the end of the range are distinct from each
other and from the ephemeral port. In `example` three clients make a first, one
that is disconnected after it, and one that comes, leaves or is still in the
channel meanwhile; one thread is what the code defaults to and the worst case,
as every waiting task stops it. In `cloneless` there is an allocation for the
program and one for each message, so that a write always finds one, and enough
writes for one before the first call, between and after the two. The modules' parameters are otherwise free,
and the theorems of section 5 hold for all their values.

The cfg of every liveness run has no symmetry set.

**Fairness.** Weak fairness throughout, and only of what the program or its
libraries drive by themselves:

* tasks of the runtime are polled when they are ready (tokio) as long as a
  thread of it is free. `MessageLink`, `Disconnection` and `Examples` have this
  as a guard of every task. In `ServerListener` a runtime that is blocked shows
  as what becomes of the clients meanwhile: they give up, as any client may. A
  client's runtime is blocked only by the one task of its own `disconnect`,
  after which it starts no task, so `ClientNetworking` does not need the guard;
* Quinn retransmits while both ends stand, and notices within its idle timeout
  when the peer is gone; connecting and handshakes end by the same timeout.
  `Fairness` of the link therefore has no fairness of a *loss* while the other
  end is open;
* the endpoint sends the close of a connection it was told to close, and
  forgets drained connections;
* in `Examples` the main thread goes on whenever it is not blocked by a wait;
  clients, and the hand on Ctrl-C, owe nothing;
* in `ClonelessSending` a send task comes to its end, which `SendResolves` shows
  of the link. Its exception, a blocked runtime, does not concern a client: the
  tasks that are left at its `disconnect` see the error before its endpoint is
  idle. The program calls the client again and again, as the example does;
* a user polls in a loop, where a property is about what the user is told, as
  the documentation of `poll_event_from_server` and `poll_client` shows.

Nothing is assumed of users otherwise: none has to send, disconnect, or wait on
a handle, and peers of open connections owe nothing.

## 4. Where documentation and code part

Four runs end in a counterexample. Each states what the documentation says and
shows the steps by which the code does otherwise; `findings` in `PROJECT.json`
quotes both.

* `client_doc_told`, `ConnectingIsAlwaysTold`: any failure to connect other than
  a timeout panics the connecting task, and `try_recv().ok()` takes the closed
  channel for an empty one. The client stays `Connecting` for ever.
* `disconnect_doc_order`, `WaitEndsOnceIdle`: with one runtime thread and two
  handles, the task that reaches its barrier first blocks the thread. Waiting
  on the other handle first never returns.
* `listener_doc_provides`, `ListenerKeepsProviding`: one failed handshake
  panics the only accept task, and no client is provided from then on.
* `example_doc_halt`, `HaltAlwaysEnds`: `wait_idle` waits for the whole endpoint.
  After Ctrl-C the example server disconnects its first client and waits, and
  that wait lasts as long as the second client, whom nobody has told anything,
  stays connected.

The other properties are weakened by exactly these cases and no more:
`ConnectingIsTold`, `HandlesResolve` and `ArcComesBack` except for a panicked
connecting task, `WaitHangsOnlyOnOthers` and `HaltEnds` except for open
connections (and unattended handles), `KnockingIsProvided` except for a panicked
accept task, `SendResolves`, `SentIsDelivered` and `LossIsReported` except for
an end whose runtime is blocked at barriers.

Some smaller disagreements have no run of their own; a property says how far
each goes:

* A message may have arrived although its handle says `WeClosed` or
  `PeerClosedOrDied`, which the documentation explains with "before the message
  was entirely received": the acknowledgement was lost with the connection.
  `BlameIsFounded`: the blame is right, and an acknowledged message never fails.
* `disconnect` of a client looks at the enum without looking at the channel
  first, so a connection that is established but not noticed yet, or still
  being established, stays open, although the documentation of `disconnect` and
  of its handle has the other side informed. The handle has no barrier, so a
  client that waits on it and exits leaves the server to find out by a timeout.
  `LeftOpenIsUnused`: no message ever went over it, and no event of it was told.
  `NobodyIsLeftUntold` has this connection as its only exception.
* `send_message_to_client` may be called after `disconnect`. On a server with
  one thread, while a handle is neither waited on nor dropped, the task of such
  a message is never polled, and its handle stays at `StillBeingSent`
  (`SendResolves`); otherwise it says `WeClosed`.
* A message that the receiver refuses for its length is reported as `Sent`,
  since the value of `stopped()` is not looked at. `SentWasReceived` counts it
  as received.
* A connection lost by a reset or a transport error panics the loop or a reader,
  where the changelog speaks of a disconnection event. `LossIsReported` leaves
  these errors out, and in the example such a client stays in the list
  (`LostIsForgotten`).
* Readers may outlive the loop: a message can follow the disconnection event,
  and the event can come twice. The example forgets a client at the first.

## 5. Proofs

`tlapm <module>Proofs.tla` checks them. They hold for any sets of messages,
clients, connections and calls, finite or not, any stream limit and any numbers
of threads, under the assumptions named in the modules, which only give the
constants their types.

| Module | Theorems |
|---|---|
| `MessageLinkProofs` | `TypeCorrect`, `LinkInvariant`, `NoDuplicate`, `SentIsTrue`, `BlameIsTrue`, `DisconnectionIsTrue`, `LoopSurvives`, `ClosedIsQuiet`, `LinkImplementsMessaging`, `SendsCanGoOn`, `NewsGoesOn` |
| `ClientNetworkingProofs` | `ClientInvariant`, `ProtocolIsKept`, `OrderIsKept`, `HandlesAreHeld`, `BlameIsTrue`, `LeftOpenWasUnused`, `DisconnectEnds`, `ClientImplementsPromise`, `ClientsCanGoOn` |
| `DisconnectionProofs` | `DisconnectionInvariant`, `WaitIsProper`, `EveryoneIsTold`, `WaitsCanGoOn` |
| `ServerListenerProofs` | `ListenerInvariant`, `ArrivalOrderIsKept`, `NobodyIsStranded`, `PanicsHaveCauses`, `ListenerImplementsLine`, `LinesCanGoOn` |
| `PortProbeProofs` | `ProbeInvariant`, `NoPortIsSkipped`, `PortToldIsReal`, `ProbingComesNearer` |
| `ExamplesProofs` | `PartsKeepInvariants`, `ExamplesInvariant`, `EveryoneKnownIsTold`, `ServerKeepsTheLine`, `HaltsCanGoOn` |
| `ClonelessSendingProofs` | `ClonelessInvariant`, `FaithfullyReceived`, `SharingImplementsCopying`, `ArcsCanComeBack` |

All follow the same argument: an inductive invariant, one step per action, and
the properties as its consequences. The strengthenings are what the argument
is really about:

* `LinkInv` adds `StreamsInStep` and `EventsInStep` to the properties.
  `DeliveredOnce` is not inductive alone: that a reader does not deliver again
  takes the fact that an event's reader is done (`EventsInStep`). That
  `SentWasReceived` survives an end's close takes the chain task, send stream,
  receive stream, feedback (`StreamsInStep`): an acknowledgement exists only of
  a complete message. `BlockedIsOver`, that the connection of a blocked end is
  over, is what `SendsCanGoOn` needs to know of runtimes: an end that
  still stands polls its tasks.
* The refinement `LinkImplementsMessaging` maps `handle` to `GetState`,
  `arrived` to the complete or refused messages and `delivered` to the events.
  Initial states map to initial states and each step to a step or a stutter;
  the death of the sender is `SenderExits`, which ends all handles at once.
* `ClientInv` adds `EnumInStep`. `EventProtocol` needs that
  `_event_already_polled` and the history agree, and that a client that
  announced a connection can no longer fail to connect.
* `LeftOpenWasUnused` needs to know that the handles of a client that is still
  connecting have not been told anything (`ConnectingKeepsHandles`).
* `DisconnectionInv` adds `HandlesInStep` (a handle waits only if it has a
  barrier, a task is past `wait_idle` only if its connection is drained) and
  `ClosingHasCall`, without which `NobodyIsLeftUntold` says nothing about a
  connection whose handle nobody ever got. `ConnectedHasBarrier` says that a
  handle has its barrier whenever the endpoint is a server's or the enum was
  `Connected` at the call: with it `EveryoneIsTold` is about every connection
  the process was asked to close, those its client did not know of apart.
* `ListenerInv` adds `QueuesInStep`; `ArrivalOrderKept` is an equation between
  the history of arrivals and the concatenation of everyone's whereabouts.
* `NoneSkipped` is inductive with the types; its step is arithmetic around the
  end of the range.
* `ExamplesProofs` first shows that each step of the example is a step of the
  listener or leaves it alone, and likewise of the end of connections. The
  theorems of `ServerListenerProofs` and `DisconnectionProofs`, instantiated
  there, then hold of the whole (`PartsKeepInvariants`), and the invariant of
  the loop rests on them: the list is never short of a client because it
  forgets one only after an event or a wait, and both come of a connection that
  is over, for good.
* Three more refinements say what a component is for without its machinery.
  Each maps the machinery away, and each step to a step or a stutter:
  * `ListenerImplementsLine`: Quinn's queue, the client whose handshake is under
    way and the mpsc channel, one behind the other, are a single line
    (`WaitingLine`); a handshake that ends, or fails, moves the mark up to which
    the line is ready, or nothing. `ServerKeepsTheLine` composes it with
    the lemma that each step of the example is a step of the listener or leaves
    it alone: the example server keeps the same promise although its listener
    shares its threads with blocked waits.
  * `ClientImplementsPromise`: the connecting task, its oneshot channel, the
    pending messages and the receive tasks disappear; what is left is what a
    call finds, hands over and tells (`ClientPromise`). What the tasks do
    between two calls is a stutter there, a loss and an answer to a handle
    apart. It needs `EventsInStep`: a message that waits in the channel came of
    its one reader and was not told before, a disconnection of a loss.
  * `SharingImplementsCopying`: the allocations and the vector of pending
    messages disappear; `copy[m]` is the version in the allocation that the
    message holds, or the one already serialized. That a write to the program's
    allocation is the abstract `Write`, which leaves all copies alone, is where
    the invariant is used: no message under way shares an allocation that
    `Arc::make_mut` writes in place.
* Freedom from deadlock is the safety half of the liveness properties, and the
  half that can be proved. `SendsCanGoOn`, `NewsGoesOn`, `ClientsCanGoOn`,
  `WaitsCanGoOn`, `LinesCanGoOn`, `HaltsCanGoOn` and `ArcsCanComeBack` say of
  every reachable state in which somebody waits that some step is due which
  nobody outside has to be asked for. What is due is written
  out as the guards of the actions that have fairness (`StreamIsDue`,
  `StepIsDue`), since ENABLED itself is beyond the prover. Most took a
  strengthening of an invariant: a stream that is open has a task that writes
  to it (`OpenIsWritten`); what has arrived is with the loop, with its reader or
  in the channel, and the loop ends only with the event that tells of the loss
  (`NewsIsKept`); messages are pending only while the client is connecting
  (`PendingInStep`); the answer of the connecting task is still in its
  channel as long as the client is connecting (`AnswerIsKept`); tasks at their
  barriers are never more than there are threads, so that one thread is free or
  all are at a barrier (`ThreadsInStep`); a client never has a second task
  (`ClientHasOne`); the loop of the example has one handle at a time, so that
  its user always attends to the only barrier there is (`OneAtATime`). The
  exceptions in the conclusions are those of the liveness properties: a
  connecting or accept task that panicked, connections that stay open, and, for
  a server with several handles, unattended ones. Of the probing the theorem is
  stronger: `ProbingComesNearer` gives the measure that every refusal lowers.
* `ClonelessInv`: what a message holds is never older than the call, because a
  shared allocation is not written to, nor newer than the program's, because
  versions only grow. `FaithfullyReceived` follows, as serialization reads what
  is held.

**Only model-checked**: all liveness properties (`SendResolves`,
`SentIsDelivered`, `LossIsReported`, `ConnectingIsTold`, `HandlesResolve`,
`WaitHangsOnlyOnOthers`, `ClientWaitReturns`, `KnockingIsProvided`,
`ConnectedIsProvided`, `ProbeEnds`, `HaltEnds`, `LostIsForgotten`,
`ArcComesBack`), which depend on fairness and ENABLED, out
of reach of the prover. The deadlock-freedom theorems say that the waits they
are about never get stuck; that they end is what TLC shows. No induction over data is needed anywhere: histories
are compared as whole sequences, and no module uses a recursive operator.

## 6. Not modelled

* *Cryptography*: certificates, verifiers and cipher suites are configuration.
  The process-wide provider is listed among the hazards.
* *Net traits*, *derive macros*: code generation without state of its own.
* *Contents of messages*, beyond which conversion fails.
* *The runtime's creation*: every `new` builds a runtime and a thread that
  blocks on it for ever; nothing ever stops either before the process ends.
* *The examples' periodic messages and their printing*: `MessageLink` has the
  sending.
* *A client and a server in one process*, as `example_both.rs` can be started:
  one process is one of the two there, and they would share the crypto provider
  only.
* *Logging*, the warning of a wait on another than the main thread among it.
* *Order of arrival of messages*: independent tasks on independent streams, and
  the library promises none; `Messaging` allows any.

## 7. Plan

Written in this order: the link, on which the rest leans; the client's object,
the disconnection, the listener and the socket; then `Examples`, which composes
two of them, and `ClonelessSending`. What is left, by what it would add:

1. Both directions of a connection as two instances of `MessageLink` that share
   their ends. To check: what an end is told by its handles and by its events
   does not contradict. To prove: each direction keeps `Messaging`.
2. The example client, composed of `ClientNetworking` and `Disconnection`, as
   `Examples` composes the server; with it the theorem that it keeps
   `ClientPromise`.
3. The loss of a client in `Examples` taken from `MessageLink` rather than as an
   event or a panic.
