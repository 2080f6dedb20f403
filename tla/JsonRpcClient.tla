--------------------------- MODULE JsonRpcClient ---------------------------
(***************************************************************************)
(* truenas_api_client/__init__.py: one JSONRPCClient and its websocket     *)
(* thread.  The caller threads, the websocket thread and the threads in    *)
(* close() share the tables _calls and _jobs; only _jobs has a lock, and   *)
(* on_close() does not take it.                                            *)
(*                                                                         *)
(* The wrapper's lock lets one call run at a time (OneRequestAtATime of    *)
(* TrueNASClient); close() can come at any time.  A call makes up to two   *)
(* requests: core.subscribe for the job events, the first time, and its    *)
(* own method.  With new-style jobs the answer of a method that is a job   *)
(* is only sent when the job has ended, and the job's "added" event gives  *)
(* the caller its id.                                                      *)
(***************************************************************************)
EXTENDS Naturals, FiniteSets

CONSTANTS
  Calls,     \* the calls made on this client, in any order
  JobCalls,  \* those with job=True
  Timed,     \* those with a timeout: the calls of the login, and pings
  Pings,     \* the timed calls made by ping(), which sends in the background
  Closers,   \* the threads that run close()
  WS         \* the websocket thread

ASSUME ThreadsAssumption ==
  /\ JobCalls \subseteq Calls
  /\ Timed \subseteq Calls \ JobCalls
  /\ Pings \subseteq Timed
  /\ WS \notin Closers
  /\ "none" \notin Calls \cup Closers \cup {WS}

Stages == {"subscribe", "method"}

\* A call's requests; the id of a request is fresh, so it names the request.
Requests == Calls \X Stages

\* What the server sends: the answer of a request, and the two events of the
\* job that a call started.  Job and call have the same name.
Messages == {"answer"} \X Requests \cup {"added", "ended"} \X Calls

Threads == Closers \cup {WS}

VARIABLES
  sock,       \* "connecting", "up", "down": app.sock as _send() finds it
  connected,  \* self._connected
  ctor,       \* the constructor: "waiting" for the handshake, "ok" or "raised"
  newStyle,   \* self._new_style_jobs
  watching,   \* self._jobs_watching, and _jobs_callback in self._event_callbacks
  calls,      \* the keys of self._calls
  answer,     \* a request's Call: its result or error once it has returned
  table,      \* the keys of self._jobs
  ready,      \* '__ready' of a job: its Event, named by its maker, or "none"
  held,       \* the Event that a caller waits for, self.event of its Job
  fired,      \* the Events that are set
  state,      \* 'state' of a job as the client knows it
  closed,     \* self._closed
  pc,         \* where each call is
  stage,      \* which of its requests a call is making
  outcome,    \* how each call ended
  tpc,        \* where the websocket thread and the closing threads are
  frame,      \* a close frame of the server: "none", "read" by the websocket
              \* thread, whose _on_error() calls on_close(), or "over" with that
  todo,       \* the calls a thread in _broadcast_error has listed
  seen,       \* the jobs its loop has visited
  found,      \* the job its loop is at, and the Event it found there
  size,       \* the number of jobs when that loop began
  event,      \* the job event whose callback the websocket thread is to run
  verdict,    \* the server: what it made of each request
  job,        \* the server: the state of the job each call started
  taken       \* the messages that arrived

jobVars == <<table, ready, held, fired, state>>
clientVars == <<connected, newStyle, watching, calls, answer, jobVars, closed>>
callVars == <<pc, stage, outcome>>
threadVars == <<tpc, frame, todo, seen, found, size, event>>
serverVars == <<verdict, job, taken>>
vars == <<sock, ctor, clientVars, callVars, threadVars, serverVars>>

Ended == {"success", "failed", "aborted"}

Idle == {"new", "done"}

Current(c) == <<c, stage[c]>>

\* A thread makes at most one Event for a job.
Makers == Calls \cup Threads

Events == Makers \X Calls

Init ==
  /\ sock = "connecting"
  /\ connected = FALSE
  /\ ctor = "waiting"
  /\ newStyle = FALSE
  /\ watching = FALSE
  /\ calls = {}
  /\ answer = [r \in Requests |-> "none"]
  /\ table = {}
  /\ ready = [c \in Calls |-> "none"]
  /\ held = [c \in Calls |-> "none"]
  /\ fired = {}
  /\ state = [c \in Calls |-> "none"]
  /\ closed = FALSE
  /\ pc = [c \in Calls |-> "new"]
  /\ stage = [c \in Calls |-> "method"]
  /\ outcome = [c \in Calls |-> "none"]
  /\ tpc = [t \in Threads |-> "idle"]
  /\ frame = "none"
  /\ todo = [t \in Threads |-> {}]
  /\ seen = [t \in Threads |-> {}]
  /\ found = [t \in Threads |-> <<>>]
  /\ size = [t \in Threads |-> 0]
  /\ event = <<>>
  /\ verdict = [r \in Requests |-> "none"]
  /\ job = [c \in Calls |-> "none"]
  /\ taken = {}

-----------------------------------------------------------------------------
(* The constructor *)

\* on_open() sends core.set_options, whose answer chooses the style of jobs
\* and sets self._connected.
Handshake ==
  /\ sock = "connecting"
  /\ tpc[WS] = "idle"
  /\ sock' = "up"
  /\ connected' = TRUE
  /\ newStyle' \in BOOLEAN
  /\ UNCHANGED <<ctor, watching, calls, answer, jobVars, closed,
                 callVars, threadVars, serverVars>>

\* self._connected is set, by the handshake or by on_close(), which leaves an
\* error first, as _on_error() may have done.
Constructed ==
  /\ ctor = "waiting"
  /\ connected
  /\ ctor' \in IF frame = "over" \/ tpc[WS] \in {"calls", "jobs", "wake", "done"} THEN {"raised"}
               ELSE IF sock = "down" THEN {"ok", "raised"} ELSE {"ok"}
  /\ UNCHANGED <<sock, clientVars, callVars, threadVars, serverVars>>

\* self._connected.wait(30) ends without an answer: the thread and its socket
\* live on.
HandshakeTimeout ==
  /\ ctor = "waiting"
  /\ ~connected
  /\ ctor' = "raised"
  /\ UNCHANGED <<sock, clientVars, callVars, threadVars, serverVars>>

-----------------------------------------------------------------------------
(* call() and wait() *)

\* _jobs_subscribe(): _jobs_callback is added before core.subscribe is called.
Start(c) ==
  /\ pc[c] = "new"
  /\ ctor = "ok"
  /\ \A d \in Calls : pc[d] \in Idle
  /\ pc' = [pc EXCEPT ![c] = "register"]
  /\ LET subscribe == ~watching /\ (newStyle \/ c \in JobCalls)
     IN  /\ stage' = [stage EXCEPT ![c] = IF subscribe THEN "subscribe" ELSE "method"]
         /\ watching' = (watching \/ subscribe)
  /\ UNCHANGED <<sock, ctor, connected, newStyle, calls, answer, jobVars, closed, outcome,
                 threadVars, serverVars>>

Register(c) ==
  /\ pc[c] = "register"
  /\ calls' = calls \cup {Current(c)}
  /\ pc' = [pc EXCEPT ![c] = "send"]
  /\ UNCHANGED <<sock, ctor, connected, newStyle, watching, answer, jobVars, closed,
                 stage, outcome, threadVars, serverVars>>

\* The call raises, or returns; an exception of core.subscribe takes the
\* callback out again.
Finish(c, o) ==
  /\ pc' = [pc EXCEPT ![c] = "done"]
  /\ outcome' = [outcome EXCEPT ![c] = o]
  /\ watching' = (watching /\ stage[c] = "method")
  /\ UNCHANGED stage

Send(c) ==
  /\ pc[c] = "send"
  /\ sock = "up"
  /\ verdict' = [verdict EXCEPT ![Current(c)] = "sent"]
  /\ pc' = [pc EXCEPT ![c] = "wait"]
  /\ UNCHANGED <<sock, ctor, clientVars, stage, outcome, threadVars, job, taken>>

\* "Unexpected closure of remote connection".  A background call is not taken
\* out of self._calls when its send fails.
SendFails(c) ==
  /\ pc[c] = "send"
  /\ sock = "down"
  /\ calls' = IF c \in Pings /\ stage[c] = "method" THEN calls ELSE calls \ {Current(c)}
  /\ Finish(c, "error")
  /\ UNCHANGED <<sock, ctor, connected, newStyle, answer, jobVars, closed, threadVars, serverVars>>

\* c.returned is set.  A refused subscription is passed over with new-style jobs.
Returned(c) ==
  /\ pc[c] = "wait"
  /\ answer[Current(c)] # "none"
  /\ calls' = calls \ {Current(c)}
  /\ LET a == answer[Current(c)]
     IN  \/ /\ stage[c] = "subscribe"
            /\ a = "result" \/ (a = "unauth" /\ newStyle)
            /\ pc' = [pc EXCEPT ![c] = "register"]
            /\ stage' = [stage EXCEPT ![c] = "method"]
            /\ watching' = (a = "result")
            /\ UNCHANGED outcome
         \/ /\ stage[c] = "method" /\ c \in JobCalls
            /\ a \in {"result", "jobid"}
            /\ pc' = [pc EXCEPT ![c] = "job"]
            /\ UNCHANGED <<stage, watching, outcome>>
         \/ /\ stage[c] = "method" /\ c \notin JobCalls
            /\ a \in {"result", "jobid"}
            /\ Finish(c, "result")
         \/ /\ a = "unauth" /\ (stage[c] = "method" \/ ~newStyle)
            /\ Finish(c, "unauth")
         \/ a \in {"error", "closed"} /\ Finish(c, "error")
  /\ UNCHANGED <<sock, ctor, connected, newStyle, answer, jobVars, closed, threadVars, serverVars>>

\* Mutant of CallTimeout: the call stays registered.
CallTimeoutKeepsCall(c) ==
  /\ pc[c] = "wait"
  /\ c \in Timed \/ stage[c] = "subscribe"
  /\ answer[Current(c)] = "none"
  /\ Finish(c, "error")
  /\ UNCHANGED <<sock, ctor, connected, newStyle, calls, answer, jobVars, closed, threadVars, serverVars>>

\* CallTimeout; core.subscribe is always called with a timeout.
CallTimeout(c) ==
  /\ pc[c] = "wait"
  /\ c \in Timed \/ stage[c] = "subscribe"
  /\ answer[Current(c)] = "none"
  /\ calls' = calls \ {Current(c)}
  /\ Finish(c, "error")
  /\ UNCHANGED <<sock, ctor, connected, newStyle, answer, jobVars, closed, threadVars, serverVars>>

-----------------------------------------------------------------------------
(* Job *)

\* Job.__init__(), with _jobs_lock: self._jobs[job_id] is made if no event has
\* made it, and its '__ready' read.
FindJob(c) ==
  /\ pc[c] = "job"
  /\ table' = table \cup {c}
  /\ held' = [held EXCEPT ![c] = ready[c]]
  /\ pc' = [pc EXCEPT ![c] = "making"]
  /\ UNCHANGED <<sock, ctor, connected, newStyle, watching, calls, answer, ready, fired, state, closed,
                 stage, outcome, threadVars, serverVars>>

\* An Event of its own if there was none; _broadcast_error() may have put one
\* there in the meantime, for it does not take the lock.
MakeJob(c) ==
  /\ pc[c] = "making"
  /\ IF held[c] = "none"
     THEN /\ held' = [held EXCEPT ![c] = c]
          /\ ready' = [ready EXCEPT ![c] = c]
     ELSE UNCHANGED <<held, ready>>
  /\ pc' = [pc EXCEPT ![c] = "jobwait"]
  /\ UNCHANGED <<sock, ctor, connected, newStyle, watching, calls, answer, table, fired, state, closed,
                 stage, outcome, threadVars, serverVars>>

\* Mutant of JobResult: it returns the state of the job.
JobResultIsState(c) ==
  /\ pc[c] = "jobwait"
  /\ <<held[c], c>> \in fired
  /\ table' = table \ {c}
  /\ ready' = [ready EXCEPT ![c] = "none"]
  /\ state' = [state EXCEPT ![c] = "none"]
  /\ Finish(c, state[c])
  /\ UNCHANGED <<sock, ctor, connected, newStyle, calls, answer, held, fired, closed, threadVars, serverVars>>

\* Job.result() wakes and takes the job out of the table.  A job without an
\* event has no 'state' (KeyError); an aborted one may have no 'exc_info'
\* (TypeError); the others that did not succeed raise a ClientException.
JobResult(c) ==
  /\ pc[c] = "jobwait"
  /\ <<held[c], c>> \in fired
  /\ table' = table \ {c}
  /\ ready' = [ready EXCEPT ![c] = "none"]
  /\ state' = [state EXCEPT ![c] = "none"]
  /\ \/ state[c] = "none" /\ Finish(c, "crash")
     \/ state[c] = "success" /\ Finish(c, "result")
     \/ state[c] = "aborted" /\ Finish(c, "crash")
     \/ state[c] \in {"running", "failed", "aborted"} /\ Finish(c, "error")
  /\ UNCHANGED <<sock, ctor, connected, newStyle, calls, answer, held, fired, closed, threadVars, serverVars>>

-----------------------------------------------------------------------------
(* The websocket thread: _recv() *)

\* Mutant of AnswerOf: an error that cannot be parsed leaves the result None.
AnswerOfUnparsed(r) ==
  CASE verdict[r] = "job" /\ ~newStyle -> "jobid"
    [] verdict[r] = "unauth"           -> "unauth"
    [] OTHER                           -> "result"

\* The answer of a job is its id, and with new-style jobs its result.
AnswerOf(r) ==
  CASE verdict[r] = "job" /\ ~newStyle -> "jobid"
    [] verdict[r] = "job" /\ newStyle  -> IF job[r[1]] = "success" THEN "result" ELSE "error"
    [] verdict[r] = "ran"              -> "result"
    [] verdict[r] = "failed"           -> "error"
    [] OTHER                           -> "unauth"

Resolve(r, a) ==
  IF r \in calls
  THEN /\ answer' = [answer EXCEPT ![r] = a]
       /\ calls' = calls \ {r}
  ELSE UNCHANGED <<answer, calls>>

\* A server sends a job's events to subscribers, in order, before the answer.
Sent(m) ==
  \/ /\ m[1] = "answer"
     /\ verdict[m[2]] \notin {"none", "sent"}
     /\ verdict[m[2]] = "job" /\ newStyle => <<"ended", m[2][1]>> \in taken
  \/ /\ m[1] = "added"
     /\ job[m[2]] # "none"
     /\ \E d \in Calls : verdict[<<d, "subscribe">>] = "ran"
  \/ /\ m[1] = "ended"
     /\ job[m[2]] \in Ended
     /\ <<"added", m[2]>> \in taken

Receivable(m) ==
  /\ sock = "up"
  /\ tpc[WS] = "idle"
  /\ m \notin taken
  /\ Sent(m)

TakeAnswer(r) ==
  /\ Receivable(<<"answer", r>>)
  /\ taken' = taken \cup {<<"answer", r>>}
  /\ Resolve(r, AnswerOf(r))
  /\ UNCHANGED <<sock, ctor, connected, newStyle, watching, jobVars, closed,
                 callVars, threadVars, verdict, job>>

\* Mutant of TakeEvent: message_ids are not looked at.
TakeEventOnly(kind, c) ==
  /\ Receivable(<<kind, c>>)
  /\ taken' = taken \cup {<<kind, c>>}
  /\ IF watching
     THEN event' = <<kind, c>> /\ tpc' = [tpc EXCEPT ![WS] = "event"]
     ELSE UNCHANGED <<event, tpc>>
  /\ UNCHANGED <<sock, ctor, clientVars, callVars, frame, todo, seen, found, size, verdict, job>>

\* A core.get_jobs event: with new-style jobs the calls in its message_ids
\* return the id of the job; then the callbacks run.
TakeEvent(kind, c) ==
  /\ Receivable(<<kind, c>>)
  /\ taken' = taken \cup {<<kind, c>>}
  /\ IF newStyle THEN Resolve(<<c, "method">>, "jobid") ELSE UNCHANGED <<answer, calls>>
  /\ IF watching
     THEN event' = <<kind, c>> /\ tpc' = [tpc EXCEPT ![WS] = "event"]
     ELSE UNCHANGED <<event, tpc>>
  /\ UNCHANGED <<sock, ctor, connected, newStyle, watching, jobVars, closed,
                 callVars, frame, todo, seen, found, size, verdict, job>>

\* Mutant of JobsCallback: no Event is made for a job nobody waits for yet.
JobsCallbackNoEvent ==
  /\ tpc[WS] = "event"
  /\ \A c \in Calls : pc[c] # "making"
  /\ LET c == event[2]
         over == event[1] = "ended"
     IN  /\ table' = table \cup {c}
         /\ state' = [state EXCEPT ![c] = IF over THEN job[c] ELSE "running"]
         /\ fired' = IF over /\ ready[c] # "none" THEN fired \cup {<<ready[c], c>>} ELSE fired
  /\ event' = <<>>
  /\ tpc' = [tpc EXCEPT ![WS] = "idle"]
  /\ UNCHANGED <<sock, ctor, connected, newStyle, watching, calls, answer, ready, held, closed,
                 callVars, frame, todo, seen, found, size, serverVars>>

\* Mutant of JobsCallback: an aborted job is not taken for ended.
JobsCallbackMissesAborted ==
  /\ tpc[WS] = "event"
  /\ \A c \in Calls : pc[c] # "making"
  /\ LET c == event[2]
         over == event[1] = "ended"
         e == IF ready[c] = "none" THEN WS ELSE ready[c]
     IN  /\ table' = table \cup {c}
         /\ state' = [state EXCEPT ![c] = IF over THEN job[c] ELSE "running"]
         /\ ready' = [ready EXCEPT ![c] = IF over /\ job[c] # "aborted" THEN e ELSE @]
         /\ fired' = IF over /\ job[c] # "aborted" THEN fired \cup {<<e, c>>} ELSE fired
  /\ event' = <<>>
  /\ tpc' = [tpc EXCEPT ![WS] = "idle"]
  /\ UNCHANGED <<sock, ctor, connected, newStyle, watching, calls, answer, held, closed,
                 callVars, frame, todo, seen, found, size, serverVars>>

\* _jobs_callback(), with _jobs_lock; the end of the job sets its Event, made
\* for the purpose if the caller has not come so far.
JobsCallback ==
  /\ tpc[WS] = "event"
  /\ \A c \in Calls : pc[c] # "making"
  /\ LET c == event[2]
         over == event[1] = "ended"
         e == IF ready[c] = "none" THEN WS ELSE ready[c]
     IN  /\ table' = table \cup {c}
         /\ state' = [state EXCEPT ![c] = IF over THEN job[c] ELSE "running"]
         /\ ready' = [ready EXCEPT ![c] = IF over THEN e ELSE @]
         /\ fired' = IF over THEN fired \cup {<<e, c>>} ELSE fired
  /\ event' = <<>>
  /\ tpc' = [tpc EXCEPT ![WS] = "idle"]
  /\ UNCHANGED <<sock, ctor, connected, newStyle, watching, calls, answer, held, closed,
                 callVars, frame, todo, seen, found, size, serverVars>>

-----------------------------------------------------------------------------
(* on_close(): run by the websocket thread for a close frame and when the  *)
(* socket is gone, and by close() in its caller's thread                   *)

\* _on_error() gets the close frame of the server, the last message, and calls
\* on_close() while app.sock is still there: a call may be sent all along.
CloseFrame ==
  /\ sock # "down"
  /\ tpc[WS] = "idle"
  /\ frame' = "read"
  /\ tpc' = [tpc EXCEPT ![WS] = "notice"]
  /\ UNCHANGED <<sock, ctor, clientVars, callVars, todo, seen, found, size, event, serverVars>>

\* Mutant of Teardown: on_close() is not called a second time.
TeardownOnly ==
  /\ frame = "read"
  /\ tpc[WS] = "done"
  /\ sock' = "down"
  /\ frame' = "over"
  /\ UNCHANGED <<ctor, clientVars, callVars, tpc, todo, seen, found, size, event, serverVars>>

\* run_forever() goes on to the teardown and then to _on_close(), also when the
\* first on_close() has raised.
Teardown ==
  /\ frame = "read"
  /\ tpc[WS] = "done"
  /\ sock' = "down"
  /\ frame' = "over"
  /\ tpc' = [tpc EXCEPT ![WS] = "notice"]
  /\ UNCHANGED <<ctor, clientVars, callVars, todo, seen, found, size, event, serverVars>>

\* The connection drops without a close frame, or before it was read.
Drop ==
  /\ sock # "down"
  /\ sock' = "down"
  /\ UNCHANGED <<ctor, clientVars, callVars, threadVars, serverVars>>

\* close(): self.app.close()
CloseSocket(k) ==
  /\ tpc[k] = "idle"
  /\ ctor = "ok"
  /\ sock' = "down"
  /\ tpc' = [tpc EXCEPT ![k] = "notice"]
  /\ UNCHANGED <<ctor, clientVars, callVars, frame, todo, seen, found, size, event, serverVars>>

\* run_forever() ends once the message in hand is dealt with.
Notice ==
  /\ sock = "down"
  /\ tpc[WS] = "idle"
  /\ tpc' = [tpc EXCEPT ![WS] = "notice"]
  /\ UNCHANGED <<sock, ctor, clientVars, callVars, frame, todo, seen, found, size, event, serverVars>>

\* for call in list(self._calls.values())
ListCalls(t) ==
  /\ tpc[t] = "notice"
  /\ connected' = TRUE
  /\ todo' = [todo EXCEPT ![t] = calls]
  /\ tpc' = [tpc EXCEPT ![t] = "calls"]
  /\ UNCHANGED <<sock, ctor, newStyle, watching, calls, answer, jobVars, closed,
                 callVars, frame, seen, found, size, event, serverVars>>

\* Mutant of WakeCalls: the calls are unregistered without returned.set().
WakeCallsSilently(t) ==
  /\ tpc[t] = "calls"
  /\ calls' = calls \ {r \in todo[t] : answer[r] = "none"}
  /\ todo' = [todo EXCEPT ![t] = {}]
  /\ size' = [size EXCEPT ![t] = Cardinality(table)]
  /\ tpc' = [tpc EXCEPT ![t] = "jobs"]
  /\ UNCHANGED <<sock, ctor, connected, newStyle, watching, answer, jobVars, closed,
                 callVars, frame, seen, found, event, serverVars>>

WakeCalls(t) ==
  /\ tpc[t] = "calls"
  /\ answer' = [r \in Requests |->
                  IF r \in todo[t] /\ answer[r] = "none" THEN "closed" ELSE answer[r]]
  /\ calls' = calls \ {r \in todo[t] : answer[r] = "none"}
  /\ todo' = [todo EXCEPT ![t] = {}]
  /\ size' = [size EXCEPT ![t] = Cardinality(table)]
  /\ tpc' = [tpc EXCEPT ![t] = "jobs"]
  /\ UNCHANGED <<sock, ctor, connected, newStyle, watching, jobVars, closed,
                 callVars, frame, seen, found, event, serverVars>>

\* for job in self._jobs.values(), one job: its '__ready' is read,
WakeFinds(t) ==
  /\ tpc[t] = "jobs"
  /\ Cardinality(table) = size[t]
  /\ \E c \in table \ seen[t] :
       /\ found' = [found EXCEPT ![t] = <<ready[c], c>>]
       /\ seen' = [seen EXCEPT ![t] = @ \cup {c}]
  /\ tpc' = [tpc EXCEPT ![t] = "wake"]
  /\ UNCHANGED <<sock, ctor, clientVars, callVars, frame, todo, size, event, serverVars>>

\* and the Event set, a new one if there was none, with an error in the job if
\* it was not set yet.  The job may have left the table in the meantime.
WakeJob(t) ==
  /\ tpc[t] = "wake"
  /\ LET c == found[t][2]
     IN  IF found[t][1] = "none"
         THEN /\ ready' = [ready EXCEPT ![c] = IF c \in table THEN t ELSE @]
              /\ fired' = fired \cup {<<t, c>>}
         ELSE /\ fired' = fired \cup {found[t]}
              /\ UNCHANGED ready
  /\ found' = [found EXCEPT ![t] = <<>>]
  /\ tpc' = [tpc EXCEPT ![t] = "jobs"]
  /\ UNCHANGED <<sock, ctor, connected, newStyle, watching, calls, answer, table, held, state, closed,
                 callVars, frame, todo, seen, size, event, serverVars>>

\* The loop is over, and what it knew forgotten.
LeaveLoop(t) ==
  /\ tpc' = [tpc EXCEPT ![t] = "done"]
  /\ seen' = [seen EXCEPT ![t] = {}]
  /\ size' = [size EXCEPT ![t] = 0]

\* self._closed.set()
Closed(t) ==
  /\ tpc[t] = "jobs"
  /\ Cardinality(table) = size[t]
  /\ table \subseteq seen[t]
  /\ closed' = TRUE
  /\ LeaveLoop(t)
  /\ UNCHANGED <<sock, ctor, connected, newStyle, watching, calls, answer, jobVars,
                 callVars, frame, todo, found, event, serverVars>>

\* "dictionary changed size during iteration": on_close() raises.
LoopBreaks(t) ==
  /\ tpc[t] = "jobs"
  /\ Cardinality(table) # size[t]
  /\ LeaveLoop(t)
  /\ UNCHANGED <<sock, ctor, clientVars, callVars, frame, todo, found, event, serverVars>>

-----------------------------------------------------------------------------
(* The server *)

\* A session that may not subscribe, before the login, may not start a job.
Answers(r) ==
  LET denied == verdict[<<r[1], "subscribe">>] = "unauth"
  IN  {"failed", "unauth"}
        \cup (IF r[2] = "method" /\ ~denied THEN {"job"} ELSE {})
        \cup (IF r[2] = "method" /\ r[1] \in JobCalls THEN {} ELSE {"ran"})

Serve(r) ==
  /\ verdict[r] = "sent"
  /\ \E v \in Answers(r) :
       /\ verdict' = [verdict EXCEPT ![r] = v]
       /\ job' = [job EXCEPT ![r[1]] = IF v = "job" THEN "running" ELSE @]
  /\ UNCHANGED <<sock, ctor, clientVars, callVars, threadVars, taken>>

JobEnds(c) ==
  /\ job[c] = "running"
  /\ \E s \in Ended : job' = [job EXCEPT ![c] = s]
  /\ UNCHANGED <<sock, ctor, clientVars, callVars, threadVars, verdict, taken>>

-----------------------------------------------------------------------------
\* The steps of a call once it has started.
CallStep(c) ==
  \/ Register(c)
  \/ Send(c)
  \/ SendFails(c)
  \/ Returned(c)
  \/ CallTimeout(c)
  \/ FindJob(c)
  \/ MakeJob(c)
  \/ JobResult(c)

OnClose(t) ==
  \/ ListCalls(t)
  \/ WakeCalls(t)
  \/ WakeFinds(t)
  \/ WakeJob(t)
  \/ Closed(t)
  \/ LoopBreaks(t)

Receive ==
  \/ \E r \in Requests : TakeAnswer(r)
  \/ \E c \in Calls, kind \in {"added", "ended"} : TakeEvent(kind, c)

Next ==
  \/ Handshake \/ Constructed \/ HandshakeTimeout
  \/ \E c \in Calls : Start(c) \/ CallStep(c)
  \/ Receive
  \/ JobsCallback
  \/ CloseFrame \/ Teardown
  \/ Drop
  \/ Notice
  \/ \E k \in Closers : CloseSocket(k)
  \/ \E t \in Threads : OnClose(t)
  \/ \E r \in Requests : Serve(r)
  \/ \E c \in Calls : JobEnds(c)

Spec == Init /\ [][Next]_vars

\* Threads that can run do run, and a server that was asked answers, or else
\* the connection drops.
FairSpec ==
  /\ Spec
  /\ \A c \in Calls : WF_vars(CallStep(c)) /\ WF_vars(JobEnds(c))
  /\ \A r \in Requests : WF_vars(Serve(r))
  /\ WF_vars(Receive) /\ WF_vars(JobsCallback)
  /\ WF_vars(Notice) /\ WF_vars(Teardown)
  /\ \A t \in Threads : WF_vars(OnClose(t))

-----------------------------------------------------------------------------
(* Properties *)

TypeOK ==
  /\ sock \in {"connecting", "up", "down"}
  /\ ctor \in {"waiting", "ok", "raised"}
  /\ {connected, newStyle, watching, closed} \subseteq BOOLEAN
  /\ calls \subseteq Requests
  /\ answer \in [Requests -> {"none", "result", "jobid", "unauth", "error", "closed"}]
  /\ table \subseteq Calls
  /\ {ready[c] : c \in Calls} \cup {held[c] : c \in Calls} \subseteq {"none"} \cup Makers
  /\ fired \subseteq Events
  /\ state \in [Calls -> {"none", "running"} \cup Ended]
  /\ pc \in [Calls -> {"new", "register", "send", "wait", "job", "making", "jobwait", "done"}]
  /\ stage \in [Calls -> Stages]
  /\ outcome \in [Calls -> {"none", "result", "unauth", "error", "crash"}]
  /\ tpc \in [Threads -> {"idle", "event", "notice", "calls", "jobs", "wake", "done"}]
  /\ frame \in {"none", "read", "over"}
  /\ todo \in [Threads -> SUBSET Requests]
  /\ seen \in [Threads -> SUBSET Calls]
  /\ \A t \in Threads : found[t] # <<>> => found[t] \in ({"none"} \cup Makers) \X Calls
  /\ size \in [Threads -> Nat]
  /\ verdict \in [Requests -> {"none", "sent", "ran", "job", "failed", "unauth"}]
  /\ job \in [Calls -> {"none", "running"} \cup Ended]
  /\ taken \subseteq Messages

\* An on_close() that a thread calls once the socket is gone.  The one for a close
\* frame is called before, and calls may still be sent behind its back.
AfterTheSocket(t) == t = WS => frame # "read"

\* Once any thread's on_close() that came after the socket has gone through the
\* calls, nobody waits for an answer that cannot come: not a call that registered
\* while the list was taken, nor one that was sent just before the drop, nor one
\* sent after a close frame had ended the others (__init__.py 260-282, 675-680, 809-823).
NoLostWakeup ==
  \A t \in Threads : tpc[t] \in {"jobs", "wake", "done"} /\ AfterTheSocket(t) =>
    \A c \in Calls : pc[c] = "wait" => answer[Current(c)] # "none"

\* A job=True call makes its Job from the id of its job, never from the job's
\* result: the events announce the id first, and they are subscribed to
\* (__init__.py 516-527, 799-808, 876-880).
JobIsNamedByItsId ==
  \A c \in JobCalls :
    pc[c] \in {"job", "making", "jobwait"} => answer[<<c, "method">>] = "jobid"

\* self._calls holds the request in progress, and otherwise only pings whose
\* send failed, which nothing takes out again (__init__.py 829-831).
CallsAreInProgress ==
  \A r \in calls :
    \/ pc[r[1]] \in {"send", "wait"} /\ r = Current(r[1])
    \/ r[1] \in Pings /\ outcome[r[1]] = "error"

\* A job that ended before its caller made the Event, or while it did, does not
\* leave the caller waiting, "to prevent a race-condition of job finishing
\* before the client can create the Event", and neither thread can overwrite
\* the other's, as long as the connection is up (__init__.py 317-325, 721-734).
EndedJobIsReady ==
  \A c \in JobCalls :
    pc[c] = "jobwait" /\ state[c] \in Ended /\ sock = "up" => <<held[c], c>> \in fired

\* A call that waits for an answer gets one, or the drop.
CallsReturn == \A c \in Calls : pc[c] = "wait" ~> pc[c] # "wait"

\* A call that waits for its job gets its end, or the connection drops.
JobsReturn == \A c \in JobCalls : pc[c] = "jobwait" ~> pc[c] = "done" \/ sock = "down"

\* What has come of a job: nothing, as long as it runs.
JobVerdict(s) ==
  CASE s = "success"               -> "ran"
    [] s \in {"failed", "aborted"} -> "failed"
    [] OTHER                       -> "none"

\* What the server made of call c, seen from the call: a job=True call has no
\* verdict until its job has ended.
VerdictOf(c, v, s) ==
  CASE v = "sent" -> "none"
    [] v = "job"  -> IF c \in JobCalls THEN JobVerdict(s) ELSE "ran"
    [] OTHER      -> v

\* The client is the connection that TrueNASClient assumes.
Conn == INSTANCE Transport WITH
  link <- IF sock = "down" THEN "shut" ELSE IF frame = "read" THEN "closing" ELSE "open",
  status <- [c \in Calls |->
               CASE pc[c] = "new"  -> "idle"
                 [] pc[c] = "done" -> outcome[c]
                 [] stage[c] = "method" /\ pc[c] \in {"wait", "job", "making", "jobwait"} -> "sent"
                 [] OTHER -> "active"],
  verdict <- [c \in Calls |-> VerdictOf(c, verdict[<<c, "method">>], job[c])]

ImplementsTransport == Conn!TransportSpec

-----------------------------------------------------------------------------
(* What the documentation says and the code does not do *)

\* on_close() is over in every thread that runs it.
Settled == tpc[WS] = "done" /\ frame # "read" /\ \A k \in Closers : tpc[k] \in {"idle", "done"}

\* __init__.py:659, on_close(): "End all unanswered calls and unreturned jobs
\* with an error."
OnCloseEndsAllJobs ==
  Settled => \A c \in JobCalls : pc[c] = "jobwait" => <<held[c], c>> \in fired
=============================================================================
