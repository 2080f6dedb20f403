----------------------------- MODULE Transport -----------------------------
(***************************************************************************)
(* What TrueNASClient relies on in one connection of the JSON-RPC library: *)
(* how a call on it can end.  Its actions are the connection's part of     *)
(* ClosesDown, RawSend, RawSendFails, Receive, Dropped, JobCrashes,        *)
(* PingTimeout and Serve there.                                            *)
(***************************************************************************)
CONSTANTS
  Calls,
  JobCalls,  \* the calls made with job=True
  Timed      \* the calls that do not wait for ever

VARIABLES
  link,      \* "open", then "closing" once a close frame has come, or at once
             \* "shut" for ever
  status,    \* "idle", "active", "sent", or how the call ended
  verdict    \* what the server has made of the request of each call

transportVars == <<link, status, verdict>>

Verdict == {"none", "ran", "failed", "unauth"}

TransportInit ==
  /\ link = "open"
  /\ status = [c \in Calls |-> "idle"]
  /\ verdict = [c \in Calls |-> "none"]

End(c, o) ==
  /\ status' = [status EXCEPT ![c] = o]
  /\ UNCHANGED <<link, verdict>>

\* The server's close frame comes: calls may be ended from now on, while others
\* still go out.
Closing ==
  /\ link = "open"
  /\ link' = "closing"
  /\ UNCHANGED <<status, verdict>>

Shut ==
  /\ link # "shut"
  /\ link' = "shut"
  /\ UNCHANGED <<status, verdict>>

Start(c) == status[c] = "idle" /\ End(c, "active")

\* Only a connection that is not shut carries a request to the server.
Send(c) == status[c] = "active" /\ link # "shut" /\ End(c, "sent")

SendFails(c) ==
  /\ status[c] = "active"
  /\ \E o \in {"error", "unauth"} : End(c, o) /\ (o = "unauth" => c \in JobCalls)

Serve(c) ==
  /\ status[c] \notin {"idle", "active"}
  /\ verdict[c] = "none"
  /\ \E v \in Verdict \ {"none"} : verdict' = [verdict EXCEPT ![c] = v]
  /\ UNCHANGED <<link, status>>

\* A result comes from a server that carried the request out; every other
\* ending says what happened to the request, to the connection or to the clock.
\* An answer that came before the close may be returned after it.
Return(c) ==
  /\ status[c] = "sent"
  /\ \/ verdict[c] = "ran" /\ End(c, "result")
     \/ verdict[c] = "unauth" /\ End(c, "unauth")
     \/ (verdict[c] = "failed" \/ link # "open" \/ c \in Timed) /\ End(c, "error")
     \/ c \in JobCalls /\ (verdict[c] = "failed" \/ link # "open") /\ End(c, "crash")

TransportNext ==
  \/ Closing \/ Shut
  \/ \E c \in Calls : Start(c) \/ Send(c) \/ SendFails(c) \/ Serve(c) \/ Return(c)

TransportSpec == TransportInit /\ [][TransportNext]_transportVars
=============================================================================
