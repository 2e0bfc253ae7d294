------------------------------- MODULE PortProbe -------------------------------
(***************************************************************************)
(* How ServerListenerNetworking::new gets its UDP socket, server.rs: the   *)
(* desired port, then the ports that follow it, as the endless iterator    *)
(* SocketAddrsToTry feeds them to UdpSocket::bind until one can be had;    *)
(* or, without a desired port, whichever the system gives for port 0.      *)
(* Other programs take and release ports meanwhile.                        *)
(***************************************************************************)
EXTENDS Naturals

CONSTANTS
  PortCount,      \* the range of u16, 65536
  Ephemeral,      \* the ports the system picks from when asked for port 0
  AddressIsOurs   \* can sockets be bound to the given IP address at all?

Port == 0 .. PortCount - 1

ASSUME PortAssumption ==
  /\ PortCount \in Nat \ {0, 1}
  /\ Ephemeral \subseteq 1 .. PortCount - 1
  /\ AddressIsOurs \in BOOLEAN

VARIABLES
  desired,   \* the desired port, 0 if there is none
  asked,     \* was a port desired?
  nextPort,  \* SocketAddrsToTry::next_port
  refused,   \* the ports that bind has been refused so far
  outcome,   \* "probing", "bound" or "panicked"
  bound,     \* the port of the socket, 0 before
  busy       \* the ports that others have

vars == <<desired, asked, nextPort, refused, outcome, bound, busy>>

TypeOK ==
  /\ desired \in Port
  /\ asked \in BOOLEAN
  /\ nextPort \in Port
  /\ refused \subseteq Port
  /\ outcome \in {"probing", "bound", "panicked"}
  /\ bound \in Port
  /\ busy \subseteq 1 .. PortCount - 1

Init ==
  /\ desired \in Port
  /\ asked \in BOOLEAN
  /\ asked \/ desired = 0
  /\ nextPort = desired
  /\ refused = {}
  /\ outcome = "probing"
  /\ bound = 0
  /\ busy \in SUBSET (1 .. PortCount - 1)

------------------------------------------------------------------------------

\* The ports that bind may give when asked for port p (external).
Obtainable(p) ==
  IF ~AddressIsOurs THEN {}
  ELSE (IF p = 0 THEN Ephemeral ELSE {p}) \ busy

\* Mutants: the addition saturates, or wraps to the first real port.
FollowingSaturates(p) == IF p = PortCount - 1 THEN p ELSE p + 1
FollowingSkipsZero(p) == IF p = PortCount - 1 THEN 1 ELSE p + 1

\* next_port.wrapping_add(1)
Following(p) == (p + 1) % PortCount

\* bind succeeds with the address at hand.
BindSucceeds ==
  /\ outcome = "probing"
  /\ bound' \in Obtainable(nextPort)
  /\ outcome' = "bound"
  /\ UNCHANGED <<desired, asked, nextPort, refused, busy>>

\* bind fails with it and goes on with the next: the iterator has no end.
BindGoesOn ==
  /\ outcome = "probing"
  /\ asked
  /\ Obtainable(nextPort) = {}
  /\ refused' = refused \cup {nextPort}
  /\ nextPort' = Following(nextPort)
  /\ UNCHANGED <<desired, asked, outcome, bound, busy>>

\* With one address only, the error gets to the unwrap.
BindPanics ==
  /\ outcome = "probing"
  /\ ~asked
  /\ Obtainable(nextPort) = {}
  /\ outcome' = "panicked"
  /\ UNCHANGED <<desired, asked, nextPort, refused, bound, busy>>

\* Another program opens or closes its socket (external).
OthersMove ==
  /\ outcome = "probing"
  /\ \E p \in 1 .. PortCount - 1 :
       busy' = IF p \in busy THEN busy \ {p} ELSE busy \cup {p}
  /\ UNCHANGED <<desired, asked, nextPort, refused, outcome, bound>>

Probe == BindSucceeds \/ BindGoesOn \/ BindPanics

Next == Probe \/ OthersMove

Spec == Init /\ [][Next]_vars

\* bind loops by itself.
FairSpec == Spec /\ WF_vars(Probe)

------------------------------------------------------------------------------
(* Properties.                                                             *)

\* From port a up to, and without, port b, around the end of the range.
PortsBetween(a, b) == IF a <= b THEN a .. b - 1 ELSE (a .. PortCount - 1) \cup (0 .. b - 1)

\* "Ports that follow will be tried": every port between the desired one and
\* the one at hand has been refused, none is skipped at the end of the range.
NoneSkipped == PortsBetween(desired, nextPort) \subseteq refused

\* The port that server_port tells is the one that was asked for last, or one
\* of the system's choice: clients can be told of it.
PortIsReal ==
  outcome = "bound" =>
    /\ bound # 0
    /\ bound # nextPort => nextPort = 0 /\ bound \in Ephemeral

\* How many ports lie before port p, from port a on, around the end.
Distance(a, p) == IF a <= p THEN p - a ELSE PortCount - a + p

\* Every refusal brings the probe nearer to any port that is free then: it
\* cannot pass one over, nor go on for ever while a port stays free, however
\* the others change.
ProbeComesNearer ==
  [][\A p \in 1 .. PortCount - 1 :
       BindGoesOn /\ AddressIsOurs /\ p \notin busy
         => Distance(nextPort', p) < Distance(nextPort, p)]_vars

\* The inductive invariant.
ProbeInv == TypeOK /\ NoneSkipped /\ PortIsReal

\* `new` returns, or panics, if only one port stays free: the iterator wraps
\* around, so it gets to the ports before the desired one as well.
ProbeEnds ==
  AddressIsOurs /\ (\E p \in 1 .. PortCount - 1 : <>[](p \notin busy))
    => <>(outcome # "probing")

==============================================================================
