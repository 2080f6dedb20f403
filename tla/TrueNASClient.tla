--------------------------- MODULE TrueNASClient ---------------------------
(***************************************************************************)
(* client.py: TrueNASClient, the lock-guarded wrapper that every           *)
(* coordinator, button, switch, update and repair flow of a config entry   *)
(* shares.  Each use of it is one executor job that runs one public method *)
(* (connect, call, ping or close) and ends; jobs run on different threads. *)
(*                                                                         *)
(* call() and ping() run under self._lock, connect() and close() do not.   *)
(* A step of a job is a piece of the method between two points where       *)
(* another thread or the server can act: the three steps of close() are    *)
(* its read of self._client, its reset of self._client, and the close of   *)
(* the connection it read.                                                 *)
(*                                                                         *)
(* A connection is one truenas_api_client Client, numbered in the order of *)
(* construction.  The login (several requests, each with the library's own *)
(* timeout) is one step with all its outcomes.  A request is tracked on    *)
(* the server: it may be handled late, after its caller has given up.      *)
(***************************************************************************)
EXTENDS Naturals, Sequences

CONSTANTS
  Openers,   \* jobs running connect(): the first step of setup and of the config flow
  Calls,     \* jobs running call()
  JobCalls,  \* the calls made with job=True, which wait for a server-side job
  Pings,     \* jobs running ping()
  Closers,   \* jobs running close(): a failed setup, unload, the end of a config flow
  NoJob      \* the lock is free

Jobs == Openers \cup Calls \cup Pings \cup Closers

ASSUME JobsAssumption ==
  /\ JobCalls \subseteq Calls
  /\ Openers \cap (Calls \cup Pings \cup Closers) = {}
  /\ Calls \cap (Pings \cup Closers) = {}
  /\ Pings \cap Closers = {}
  /\ NoJob \notin Jobs

ASSUME OneOpener == \A i, j \in Openers : i = j

VARIABLES
  lock,      \* self._lock: its holder, or NoJob
  client,    \* self._client: the number of a connection, or None
  conns,     \* the state of each connection constructed so far
  pc,        \* where each job is
  held,      \* the connection in a job's local variable, or None
  via,       \* the connections of each job's raw calls so far
  req,       \* what the server has made of the request of each raw call
  outcome    \* how each job ended, or is about to end

vars == <<lock, client, conns, pc, held, via, req, outcome>>

None == 0

\* "closing": the server's close frame has come, so that calls are ended with
\* an error while new ones can still be sent; "lost": the transport is gone;
\* "closed": Client.close() has been called.
ConnState == {"open", "closing", "lost", "closed"}

\* "unsent": it never went out; "failed": an error answer;
\* "unauth": an error answer with errno ENOTAUTHENTICATED.
ReqState == {"unsent", "sent", "ran", "failed", "unauth"}

\* "auth" is TrueNASAuthError, "connection" TrueNASConnectionError, "crash"
\* any exception that _map_errors lets through.
Outcome == {"none", "connected", "result", "auth", "connection", "crash", "closed"}

PC == {"new", "acquire", "check", "construct", "login", "abandon", "raw",
       "wait", "read", "drop", "socket", "done"}

Init ==
  /\ lock = NoJob
  /\ client = None
  /\ conns = <<>>
  /\ pc = [j \in Jobs |-> "new"]
  /\ held = [j \in Jobs |-> None]
  /\ via = [j \in Jobs |-> <<>>]
  /\ req = [j \in Jobs |-> <<>>]
  /\ outcome = [j \in Jobs |-> "none"]

-----------------------------------------------------------------------------
(* Helpers *)

Goto(j, l) == pc' = [pc EXCEPT ![j] = l]

\* Mutant of Finish: an exception leaves the lock held.
FinishKeepsLock(j, o) ==
  /\ Goto(j, "done")
  /\ outcome' = [outcome EXCEPT ![j] = o]
  /\ held' = [held EXCEPT ![j] = None]
  /\ lock' = IF lock = j /\ o # "crash" THEN NoJob ELSE lock

\* The job returns or raises; leaving `with self._lock` releases the lock.
Finish(j, o) ==
  /\ Goto(j, "done")
  /\ outcome' = [outcome EXCEPT ![j] = o]
  /\ held' = [held EXCEPT ![j] = None]
  /\ lock' = IF lock = j THEN NoJob ELSE lock

\* Mutant of RawConnectionError: the retry reuses self._client.
RetryWithoutClose(j, n) ==
  IF j \in Calls /\ n = 1
  THEN Goto(j, "raw") /\ UNCHANGED <<lock, held, outcome>>
  ELSE Finish(j, "connection")

\* Mutant of RawConnectionError: a second retry.
RetryTwice(j, n) ==
  IF j \in Calls /\ n <= 2
  THEN /\ Goto(j, "read")
       /\ held' = [held EXCEPT ![j] = None]
       /\ UNCHANGED <<lock, outcome>>
  ELSE Finish(j, "connection")

\* The n-th raw call of a job raised TrueNASConnectionError: call(), and only
\* once, goes on to self.close(), connect() and a second raw call.
RawConnectionError(j, n) ==
  IF j \in Calls /\ n = 1
  THEN /\ Goto(j, "read")
       /\ held' = [held EXCEPT ![j] = None]
       /\ UNCHANGED <<lock, outcome>>
  ELSE Finish(j, "connection")

-----------------------------------------------------------------------------
(* Starting a job.  A client is shared only once the opener has connected  *)
(* it; when the opener fails only close() is still called on it.           *)

MayBegin(j) ==
  \/ j \in Openers
  \/ j \in Closers /\ \A o \in Openers : pc[o] = "done"
  \/ j \in Calls \cup Pings /\ \A o \in Openers : outcome[o] = "connected"

Begin(j) ==
  /\ pc[j] = "new"
  /\ MayBegin(j)
  /\ Goto(j, IF j \in Openers THEN "construct"
             ELSE IF j \in Closers THEN "read" ELSE "acquire")
  /\ UNCHANGED <<lock, client, conns, held, via, req, outcome>>

\* Mutant of Acquire: no lock.
AcquireUnlocked(j) ==
  /\ pc[j] = "acquire"
  /\ lock' = j
  /\ Goto(j, "check")
  /\ UNCHANGED <<client, conns, held, via, req, outcome>>

\* with self._lock:
Acquire(j) ==
  /\ pc[j] = "acquire"
  /\ lock = NoJob
  /\ lock' = j
  /\ Goto(j, "check")
  /\ UNCHANGED <<client, conns, held, via, req, outcome>>

\* Mutant of Check: connect() whether or not there is a client.
CheckAlwaysConnects(j) ==
  /\ pc[j] = "check"
  /\ Goto(j, "construct")
  /\ UNCHANGED <<lock, client, conns, held, via, req, outcome>>

\* if self._client is None: self.connect()
Check(j) ==
  /\ pc[j] = "check"
  /\ Goto(j, IF client = None THEN "construct" ELSE "raw")
  /\ UNCHANGED <<lock, client, conns, held, via, req, outcome>>

-----------------------------------------------------------------------------
(* connect() *)

\* client = Client(self.uri, ...)
Construct(j) ==
  /\ pc[j] = "construct"
  /\ conns' = Append(conns, "open")
  /\ held' = [held EXCEPT ![j] = Len(conns')]
  /\ Goto(j, "login")
  /\ UNCHANGED <<lock, client, via, req, outcome>>

\* The constructor raises: the socket could not be connected, or (leaving the
\* socket and its thread alive) the handshake got no answer in 30 seconds.
ConstructFails(j) ==
  /\ pc[j] = "construct"
  /\ \/ UNCHANGED conns
     \/ conns' = Append(conns, "open")
  /\ Finish(j, "connection")
  /\ UNCHANGED <<client, via, req>>

\* login_with_api_key succeeds; self._client = client
LoginOk(j) ==
  /\ pc[j] = "login"
  /\ conns[held[j]] = "open"
  /\ client' = held[j]
  /\ IF j \in Openers
     THEN Finish(j, "connected")
     ELSE /\ Goto(j, "raw")
          /\ held' = [held EXCEPT ![j] = None]
          /\ UNCHANGED <<lock, outcome>>
  /\ UNCHANGED <<conns, via, req>>

\* Mutant of LoginFails: the ValueError of a refused key is not mapped.
LoginFailsUnmapped(j) ==
  /\ pc[j] = "login"
  /\ \E o \in {"ValueError", "connection"} : outcome' = [outcome EXCEPT ![j] = o]
  /\ Goto(j, "abandon")
  /\ UNCHANGED <<lock, client, conns, held, via, req>>

\* The key is refused (ValueError, ENOTAUTHENTICATED) or the login's transport
\* fails: connect() closes the new client before it raises.
LoginFails(j) ==
  /\ pc[j] = "login"
  /\ \E o \in {"auth", "connection"} : outcome' = [outcome EXCEPT ![j] = o]
  /\ Goto(j, "abandon")
  /\ UNCHANGED <<lock, client, conns, held, via, req>>

\* Mutant of Abandon: connect() raises without closing the new client.
AbandonOpen(j) ==
  /\ pc[j] = "abandon"
  /\ Finish(j, outcome[j])
  /\ UNCHANGED <<client, conns, via, req>>

Abandon(j) ==
  /\ pc[j] = "abandon"
  /\ conns' = [conns EXCEPT ![held[j]] = "closed"]
  /\ Finish(j, outcome[j])
  /\ UNCHANGED <<client, via, req>>

\* Any other exception of the login (a ScramError, a TypeError, a KeyError)
\* passes both except clauses: the new client is neither kept nor closed.
LoginCrashes(j) ==
  /\ pc[j] = "login"
  /\ Finish(j, "crash")
  /\ UNCHANGED <<client, conns, via, req>>

-----------------------------------------------------------------------------
(* _raw_call() and ping(): self._client is read again, then used           *)

\* self._client is None: AttributeError
RawNoClient(j) ==
  /\ pc[j] = "raw"
  /\ client = None
  /\ Finish(j, "crash")
  /\ UNCHANGED <<client, conns, via, req>>

RawSend(j) ==
  /\ pc[j] = "raw"
  /\ client # None
  /\ conns[client] \in {"open", "closing"}
  /\ via' = [via EXCEPT ![j] = Append(@, client)]
  /\ req' = [req EXCEPT ![j] = Append(@, "sent")]
  /\ held' = [held EXCEPT ![j] = client]
  /\ Goto(j, "wait")
  /\ UNCHANGED <<lock, client, conns, outcome>>

\* The request is never sent: the send raises ("Unexpected closure of remote
\* connection"), or the subscription to job events that precedes the first
\* request on a connection fails or gets no answer in 10 seconds.  A refused
\* subscription raises ENOTAUTHENTICATED to a job=True call only.
RawSendFails(j) ==
  /\ pc[j] = "raw"
  /\ client # None
  /\ via' = [via EXCEPT ![j] = Append(@, client)]
  /\ req' = [req EXCEPT ![j] = Append(@, "unsent")]
  /\ \/ RawConnectionError(j, Len(via[j]) + 1)
     \/ j \in JobCalls /\ Finish(j, "auth")
  /\ UNCHANGED <<client, conns>>

\* The answer of the last request arrives.
Receive(j) ==
  /\ pc[j] = "wait"
  /\ conns[held[j]] = "open"
  /\ \/ req[j][Len(req[j])] = "ran" /\ Finish(j, "result")
     \/ req[j][Len(req[j])] = "unauth" /\ Finish(j, "auth")
     \/ req[j][Len(req[j])] = "failed" /\ RawConnectionError(j, Len(via[j]))
  /\ UNCHANGED <<client, conns, via, req>>

\* on_close() of the connection wakes the waiter with a ClientException.
Dropped(j) ==
  /\ pc[j] = "wait"
  /\ conns[held[j]] # "open"
  /\ RawConnectionError(j, Len(via[j]))
  /\ UNCHANGED <<client, conns, via, req>>

\* Job.result() reads job['state'] or job['exc_info']['type'] of a job whose
\* connection dropped before any event, or that was aborted.
JobCrashes(j) ==
  /\ pc[j] = "wait"
  /\ j \in JobCalls
  /\ conns[held[j]] # "open" \/ req[j][Len(req[j])] = "failed"
  /\ Finish(j, "crash")
  /\ UNCHANGED <<client, conns, via, req>>

\* The library's ping() waits 10 seconds; call() passes timeout=None down,
\* which waits for ever.
PingTimeout(j) ==
  /\ pc[j] = "wait"
  /\ j \in Pings
  /\ RawConnectionError(j, Len(via[j]))
  /\ UNCHANGED <<client, conns, via, req>>

-----------------------------------------------------------------------------
(* close(), also called by call() between its two attempts *)

\* client = self._client
CloseRead(j) ==
  /\ pc[j] = "read"
  /\ held' = [held EXCEPT ![j] = client]
  /\ Goto(j, "drop")
  /\ UNCHANGED <<lock, client, conns, via, req, outcome>>

\* self._client = None
CloseDrop(j) ==
  /\ pc[j] = "drop"
  /\ client' = None
  /\ Goto(j, "socket")
  /\ UNCHANGED <<lock, conns, held, via, req, outcome>>

\* if client is not None: client.close()
CloseSocket(j) ==
  /\ pc[j] = "socket"
  /\ conns' = IF held[j] = None THEN conns ELSE [conns EXCEPT ![held[j]] = "closed"]
  /\ IF j \in Closers
     THEN Finish(j, "closed")
     ELSE /\ Goto(j, "construct")
          /\ held' = [held EXCEPT ![j] = None]
          /\ UNCHANGED <<lock, outcome>>
  /\ UNCHANGED <<client, via, req>>

-----------------------------------------------------------------------------
(* The network and the server *)

\* The server's close frame is read on the connection's own thread.
ClosesDown(c) ==
  /\ conns[c] = "open"
  /\ conns' = [conns EXCEPT ![c] = "closing"]
  /\ UNCHANGED <<lock, client, pc, held, via, req, outcome>>

ConnectionLost(c) ==
  /\ conns[c] \in {"open", "closing"}
  /\ conns' = [conns EXCEPT ![c] = "lost"]
  /\ UNCHANGED <<lock, client, pc, held, via, req, outcome>>

\* The server handles a request, at any time after it was sent.
Serve(j) ==
  /\ \E k \in DOMAIN req[j] :
       /\ req[j][k] = "sent"
       /\ \E s \in {"ran", "failed", "unauth"} : req' = [req EXCEPT ![j][k] = s]
  /\ UNCHANGED <<lock, client, conns, pc, held, via, outcome>>

\* The steps a job takes on its own, whatever the server does: the constructor
\* and every request of the login have timeouts.
LocalStep(j) ==
  \/ Acquire(j)
  \/ Check(j)
  \/ Construct(j)
  \/ ConstructFails(j)
  \/ LoginOk(j)
  \/ LoginFails(j)
  \/ LoginCrashes(j)
  \/ Abandon(j)
  \/ RawNoClient(j)
  \/ RawSend(j)
  \/ RawSendFails(j)
  \/ PingTimeout(j)
  \/ CloseRead(j)
  \/ CloseDrop(j)
  \/ CloseSocket(j)

\* No job is running: the owner of the client may never start another one.
Quiescent == \A j \in Jobs : pc[j] \in {"new", "done"}

Rest == Quiescent /\ UNCHANGED vars

Next ==
  \/ \E j \in Jobs :
       Begin(j) \/ LocalStep(j) \/ Receive(j) \/ Dropped(j) \/ JobCrashes(j) \/ Serve(j)
  \/ \E c \in DOMAIN conns : ClosesDown(c) \/ ConnectionLost(c)
  \/ Rest

Spec == Init /\ [][Next]_vars

\* A thread that can run does run.
LocalFairness == \A j \in Jobs : WF_vars(LocalStep(j))

\* The server answers what it was sent, the socket thread delivers the answer
\* or the drop.  A job=True call may miss the drop: its Job object can be made
\* after on_close() has woken the jobs.
PeerFairness ==
  \A j \in Jobs :
    /\ WF_vars(Serve(j))
    /\ WF_vars(Receive(j))
    /\ j \notin JobCalls => WF_vars(Dropped(j))

FairSpec == Spec /\ LocalFairness /\ PeerFairness

\* What the client's own code guarantees, with a server that may stay silent
\* on a connection that stays up.
ClientFairSpec ==
  /\ Spec
  /\ LocalFairness
  /\ \A j \in Jobs : WF_vars(Receive(j)) /\ WF_vars(Dropped(j))

-----------------------------------------------------------------------------
(* Properties *)

\* The shape of the state; a connection number is 0 or that of a connection
\* constructed so far (self._client and the local variables of client.py 94-147).
TypeOK ==
  /\ lock \in Jobs \cup {NoJob}
  /\ conns \in Seq(ConnState)
  /\ client \in 0..Len(conns)
  /\ pc \in [Jobs -> PC]
  /\ held \in [Jobs -> 0..Len(conns)]
  /\ via \in [Jobs -> Seq(Nat)]
  /\ \A j \in Jobs : \A k \in 1..Len(via[j]) : via[j][k] \in 1..Len(conns)
  /\ req \in [Jobs -> Seq(ReqState)]
  /\ outcome \in [Jobs -> Outcome]

Locked == {"check", "construct", "login", "abandon", "raw", "wait", "read", "drop", "socket"}

\* The lock is held by exactly the call or ping that is between entering and
\* leaving `with self._lock`: no exception path keeps it (client.py 131-147).
LockDiscipline ==
  \A j \in Calls \cup Pings : lock = j <=> pc[j] \in Locked

\* The threads of all the entities never have two requests on the wire at
\* once, although close() and connect() change self._client without the lock.
OneRequestAtATime ==
  \A i, j \in Jobs : pc[i] = "wait" /\ pc[j] = "wait" => i = j

\* connect() never replaces a live connection: while any job is about to
\* construct and install one, self._client is None (client.py 110, 132, 137).
InstallNeverOverwrites ==
  \A j \in Jobs : pc[j] \in {"construct", "login"} => client = None

\* The second attempt of a call goes out on a connection made after the first
\* attempt failed, and the one that failed is never self._client again.
RetryLeavesFailedConnection ==
  \A j \in Calls :
    Len(via[j]) = 2 => via[j][1] < via[j][2] /\ client # via[j][1]

-----------------------------------------------------------------------------
(* The inductive invariant behind the four invariants above *)

\* Which steps a job of each kind can be at.
RoleInv ==
  /\ lock \notin Openers \cup Closers
  /\ \A j \in Openers : pc[j] \in {"new", "construct", "login", "abandon", "done"}
  /\ \A j \in Closers : pc[j] \in {"new", "read", "drop", "socket", "done"}
  /\ \A j \in Pings : pc[j] \notin {"read", "drop", "socket"}

\* Until an opener has connected nothing else uses the client.
OpenerFirst ==
  \A o \in Openers :
    /\ pc[o] # "done" => outcome[o] # "connected" /\ \A k \in Closers : pc[k] = "new"
    /\ outcome[o] # "connected" =>
         client = None /\ \A j \in Calls \cup Pings : pc[j] = "new"

\* How many raw calls a job has made, at each step.
AttemptsOf(j) ==
  /\ Len(req[j]) = Len(via[j])
  /\ pc[j] \in {"new", "acquire", "check"} => Len(via[j]) = 0
  /\ Len(via[j]) <= IF j \in Calls THEN 2 ELSE IF j \in Pings THEN 1 ELSE 0
  /\ j \in Calls /\ pc[j] \in {"read", "drop", "socket"} => Len(via[j]) = 1
  /\ j \in Calls /\ pc[j] \in {"construct", "login", "abandon", "raw"} => Len(via[j]) <= 1
  /\ j \in Pings /\ pc[j] \in {"construct", "login", "abandon", "raw"} => Len(via[j]) = 0
  /\ pc[j] = "wait" => Len(via[j]) >= 1 /\ held[j] = via[j][Len(via[j])]
  /\ pc[j] \in {"login", "abandon"} => held[j] # None

AttemptInv == \A j \in Jobs : AttemptsOf(j)

\* A connection that is logging in has served no raw call; after a failed
\* first attempt self._client is empty or newer than the connection it used.
FreshInv ==
  /\ \A i, j \in Jobs : pc[i] = "login" =>
       \A k \in 1..Len(via[j]) : via[j][k] # held[i]
  /\ \A j \in Calls : Len(via[j]) = 1 =>
       /\ pc[j] = "socket" => client = None
       /\ pc[j] = "login" => held[j] > via[j][1]
       /\ pc[j] = "raw" => client = None \/ client > via[j][1]

IInv ==
  /\ TypeOK
  /\ RoleInv
  /\ OpenerFirst
  /\ LockDiscipline
  /\ AttemptInv
  /\ InstallNeverOverwrites
  /\ FreshInv
  /\ RetryLeavesFailedConnection

-----------------------------------------------------------------------------
\* An open connection that nothing will ever close: it is not self._client,
\* and no job has it in a local variable that it is going to close.
Leaked ==
  {c \in DOMAIN conns :
     /\ conns[c] = "open"
     /\ c # client
     /\ \A j \in Jobs : held[j] = c => pc[j] \notin {"login", "abandon", "drop", "socket"}}

\* A connection is leaked in three ways only: a handshake timeout in the
\* constructor, an exception of the login that is neither a ValueError nor a
\* client error, and a close() that resets a newer connection than it read.
LeaksOnlyByKnownPaths ==
  [][\A c \in Leaked' \ Leaked : \E j \in Jobs :
        \/ pc[j] = "construct" /\ outcome'[j] = "connection"
        \/ pc[j] = "login" /\ outcome'[j] = "crash"
        \/ pc[j] = "drop" /\ held[j] # c /\ client = c]_vars

\* call() is the at-most-twice, one-at-a-time remote call of SharedRpc.
Rpc == INSTANCE SharedRpc WITH
  status <- [c \in Calls |-> CASE pc[c] = "new"     -> "idle"
                               [] pc[c] = "acquire" -> "waiting"
                               [] pc[c] = "done"    -> outcome[c]
                               [] OTHER             -> "active"],
  ran <- [c \in Calls |-> {k \in DOMAIN req[c] : req[c][k] = "ran"}]

ImplementsSharedRpc == Rpc!RpcSpec

\* A job=True call on a connection that is gone, and that nothing woke.
Stranded(j) == j \in JobCalls /\ pc[j] = "wait" /\ conns[held[j]] # "open"

\* Every job that was started ends, whatever drops, refusals, crashes and
\* closes happen to the others, unless a job=True call is stranded for ever
\* with the lock in its hands.
EveryJobEnds ==
  \/ \A j \in Jobs : pc[j] # "new" ~> pc[j] = "done"
  \/ <>[](\E j \in JobCalls : Stranded(j))

-----------------------------------------------------------------------------
(* What the documentation says and the code does not do *)

\* tests/test_init.py:75: unloading "closes the client".  A closed client has
\* no connection once the jobs that were running have ended.
ClosedClientStaysClosed ==
  Quiescent /\ (\E k \in Closers : pc[k] = "done") => client = None

\* client.py:130: call() is "reconnecting once on transport failure".
RetryOnlyOnTransportFailure ==
  [][\A j \in Calls :
        pc[j] = "wait" /\ pc'[j] = "read" => conns[held[j]] # "open"]_vars

\* truenas_api_client/config.py:4: an API call times out, by default.
CallsEnd == \A j \in Calls : pc[j] = "wait" ~> pc[j] # "wait"
=============================================================================
