------------------------------ MODULE WaitingLine ------------------------------
(***************************************************************************)
(* What a listener promises to its user, whatever Quinn, the accept task   *)
(* and the channel do underneath: there is one line; a client joins it at  *)
(* its end, once; those in front are ready first, and are provided first,  *)
(* each of them once.  Nobody leaves the line otherwise until the user     *)
(* closes the listener, which ends it.  Nothing is promised about a client *)
(* that is still there when it is provided, nor that those who are not     *)
(* ready will ever be.                                                     *)
(***************************************************************************)
EXTENDS Naturals, Sequences

CONSTANT Client      \* the clients that may come, each of them once

VARIABLES
  line,      \* the clients that have come and wait to be provided, in order
  ready,     \* how many of them, in front, could be provided at once
  provided,  \* the clients that the user has got, in order
  open       \* has the user still got the listener?

vars == <<line, ready, provided, open>>

Elements(s) == {s[i] : i \in 1 .. Len(s)}

Init ==
  /\ line = <<>>
  /\ ready = 0
  /\ provided = <<>>
  /\ open = TRUE

Arrive(c) ==
  /\ open
  /\ c \notin Elements(line) \cup Elements(provided)
  /\ line' = Append(line, c)
  /\ UNCHANGED <<ready, provided, open>>

NextIsReady ==
  /\ ready < Len(line)
  /\ ready' = ready + 1
  /\ UNCHANGED <<line, provided, open>>

Provide ==
  /\ open
  /\ ready > 0
  /\ provided' = Append(provided, Head(line))
  /\ line' = Tail(line)
  /\ ready' = ready - 1
  /\ UNCHANGED open

Close ==
  /\ open
  /\ open' = FALSE
  /\ line' = <<>>
  /\ ready' = 0
  /\ UNCHANGED provided

Next == (\E c \in Client : Arrive(c)) \/ NextIsReady \/ Provide \/ Close

Spec == Init /\ [][Next]_vars

==============================================================================
