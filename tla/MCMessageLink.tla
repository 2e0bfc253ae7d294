---------------------------- MODULE MCMessageLink ----------------------------
(* Small instances of MessageLink for TLC. *)
EXTENDS MessageLink

CONSTANTS m1, m2, m3, m4

\* One message of every kind that does not get to the other user as sent, and
\* one that is fine; an instance takes those that its Message names.
MixedPayload ==
  [m \in Message |-> CASE m = m1 -> "undecodable"
                       [] m = m2 -> "unserializable"
                       [] m = m3 -> "oversized"
                       [] OTHER  -> "fine"]

==============================================================================
