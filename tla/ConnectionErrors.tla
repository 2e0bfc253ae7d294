--------------------------- MODULE ConnectionErrors ---------------------------
(***************************************************************************)
(* What the errors of a Quinn connection become on their way to the users: *)
(* the result of a message being sent, and the event of a receive task.    *)
(* client.rs and server.rs convert in the same way.                        *)
(***************************************************************************)

\* quinn::ConnectionError; "TransportError" stands for it and for
\* VersionMismatch and CidsExhausted, which the code never tells apart.
ConnectionError == {"LocallyClosed", "ApplicationClosed", "ConnectionClosed",
                    "TimedOut", "Reset", "TransportError"}

SendingResult == {"Sent", "WeClosed", "PeerClosedOrDied", "Error"}

FromConnectionError(e) ==
  CASE e = "LocallyClosed" -> "WeClosed"
    [] e \in {"ApplicationClosed", "ConnectionClosed", "Reset", "TimedOut"}
         -> "PeerClosedOrDied"
    [] OTHER -> "Error"

\* The outcome of send_message: "Ok", the connection error it met at one of
\* its three awaits, or anything else ("Stopped", on write_all).
FromResult(outcome) ==
  CASE outcome = "Ok" -> "Sent"
    [] outcome \in ConnectionError -> FromConnectionError(outcome)
    [] OTHER -> "Error"

MessageEvent(m)      == [kind |-> "Message", value |-> m]
DisconnectedEvent(d) == [kind |-> "Disconnected", value |-> d]
NoEvent              == [kind |-> "NoEvent", value |-> "None"]

\* Mutant: our own disconnect is announced to us like the peer's.
ToEventOfOurClose(error) ==
  IF error = "TimedOut" THEN DisconnectedEvent("Timeout") ELSE DisconnectedEvent("None")

\* Mutant: a timeout is not worth an event.
ToEventWithoutTimeout(error) ==
  IF error \in {"ApplicationClosed", "ConnectionClosed"} THEN DisconnectedEvent("None") ELSE NoEvent

ToEvent(error) ==
  CASE error \in {"ApplicationClosed", "ConnectionClosed"} -> DisconnectedEvent("None")
    [] error = "TimedOut" -> DisconnectedEvent("Timeout")
    [] OTHER -> NoEvent                     \* LocallyClosed: nothing to tell

\* Connection errors on which the task that meets them panics instead.
PanicsOn(error) == error \in {"Reset", "TransportError"}

==============================================================================
