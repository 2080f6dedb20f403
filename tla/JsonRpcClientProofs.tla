------------------------- MODULE JsonRpcClientProofs -------------------------
(***************************************************************************)
(* Proofs about JsonRpcClient, for any calls and any number of threads in  *)
(* close(): nobody is left waiting for an answer, a Job is made from its   *)
(* id, and the end of a job is not missed.  The last part is the           *)
(* refinement of Transport.                                                *)
(***************************************************************************)
EXTENDS JsonRpcClient, FiniteSetTheorems, TLAPS

USE DEF LeaveLoop

(* The inductive invariant.                                                *)

AnswerTypes == {"none", "result", "jobid", "unauth", "error", "closed"}

CallSteps == {"new", "register", "send", "wait", "job", "making", "jobwait", "done"}

ClosingSteps == {"notice", "calls", "jobs", "wake", "done"}

ThreadSteps == {"idle", "event"} \cup ClosingSteps

JobStates == {"none", "running"} \cup Ended

MakersOrNone == {"none"} \cup Makers

\* Every variable is a function or set of its type, with the domain that TypeOK
\* leaves out for some; the table stays finite, so that it has a size.
Types ==
  /\ sock \in {"connecting", "up", "down"}
  /\ ctor \in {"waiting", "ok", "raised"}
  /\ connected \in BOOLEAN /\ newStyle \in BOOLEAN
  /\ watching \in BOOLEAN /\ closed \in BOOLEAN
  /\ calls \subseteq Requests
  /\ answer \in [Requests -> AnswerTypes]
  /\ table \subseteq Calls /\ IsFiniteSet(table)
  /\ ready \in [Calls -> MakersOrNone]
  /\ held \in [Calls -> MakersOrNone]
  /\ fired \subseteq Events
  /\ state \in [Calls -> JobStates]
  /\ pc \in [Calls -> CallSteps]
  /\ stage \in [Calls -> Stages]
  /\ outcome \in [Calls -> {"none", "result", "unauth", "error", "crash"}]
  /\ tpc \in [Threads -> ThreadSteps]
  /\ frame \in {"none", "read", "over"}
  /\ todo \in [Threads -> SUBSET Requests]
  /\ seen \in [Threads -> SUBSET Calls]
  /\ found \in [Threads -> {<<>>} \cup (MakersOrNone \X Calls)]
  /\ \A t \in Threads : tpc[t] = "wake" => found[t] \in MakersOrNone \X Calls
  /\ size \in [Threads -> Nat]
  /\ event \in {<<>>} \cup ({"added", "ended"} \X Calls)
  /\ tpc[WS] = "event" => event \in {"added", "ended"} \X Calls
  /\ \A k \in Closers : tpc[k] # "event"
  /\ verdict \in [Requests -> {"none", "sent", "ran", "job", "failed", "unauth"}]
  /\ job \in [Calls -> JobStates]
  /\ taken \subseteq Messages

\* A request that its call has not registered yet.
Unasked(c, s) ==
  \/ pc[c] = "new"
  \/ pc[c] = "register" /\ stage[c] = s
  \/ stage[c] = "subscribe" /\ s = "method"

\* Nobody has heard of the request.
Unknown(r) ==
  /\ r \notin calls
  /\ \A t \in Threads : r \notin todo[t]
  /\ answer[r] = "none"
  /\ verdict[r] = "none"

RequestsFit ==
  /\ \A c \in Calls, s \in Stages : Unasked(c, s) => Unknown(<<c, s>>)
  /\ \A c \in Calls : pc[c] = "send" => verdict[Current(c)] = "none"
  /\ \A c \in Calls : job[c] # "none" => verdict[<<c, "method">>] = "job"
  /\ \A c \in Calls : pc[c] # "done" => outcome[c] = "none"

\* A call that has no answer is registered; what is registered has no answer.
WaitsFit ==
  /\ \A c \in Calls :
       pc[c] \in {"send", "wait"} /\ answer[Current(c)] = "none" => Current(c) \in calls
  /\ \A r \in calls : answer[r] = "none"

\* on_close() comes after the socket, or for a close frame; one that comes after the
\* socket knows, between its two passes over the calls, of every call that waits.
ClosesFit ==
  /\ frame = "over" => sock = "down"
  /\ frame = "read" => tpc[WS] \in ClosingSteps
  /\ \A t \in Threads :
       /\ tpc[t] \in ClosingSteps => sock = "down" \/ (t = WS /\ frame = "read")
       /\ tpc[t] = "calls" /\ AfterTheSocket(t) => \A c \in Calls :
            pc[c] = "wait" /\ answer[Current(c)] = "none" => Current(c) \in todo[t]

\* An event is only taken of a job; with new-style jobs it has taken its call out.
\* No job=True call gets a result as its answer.
EventsFit ==
  /\ sock = "connecting" => taken = {}
  /\ \A c \in Calls, kind \in {"added", "ended"} :
       <<kind, c>> \in taken =>
         /\ job[c] # "none"
         /\ newStyle => <<c, "method">> \notin calls
  /\ \A c \in JobCalls :
       /\ verdict[<<c, "method">>] # "ran"
       /\ answer[<<c, "method">>] # "result"

\* The Event of a job that ended is set, and its caller's is; until a close frame,
\* the two are one.
JobFits(c) ==
  /\ state[c] \in Ended =>
       /\ ready[c] # "none" /\ <<ready[c], c>> \in fired
       /\ pc[c] \in {"making", "jobwait"} => held[c] # "none" /\ <<held[c], c>> \in fired
  /\ frame # "read" /\ pc[c] \in {"making", "jobwait"} => held[c] = ready[c]
  /\ frame # "read" /\ pc[c] = "jobwait" => held[c] # "none"

\* The loop of on_close() makes no second Event for a job that ended.
LoopFits ==
  frame = "read" /\ tpc[WS] = "wake" /\ found[WS][1] = "none" => state[found[WS][2]] \notin Ended

JobsFit == sock # "down" => LoopFits /\ \A c \in Calls : JobFits(c)

RInv ==
  /\ Types /\ RequestsFit /\ WaitsFit /\ ClosesFit /\ EventsFit /\ JobsFit
  /\ CallsAreInProgress /\ NoLostWakeup /\ JobIsNamedByItsId

-----------------------------------------------------------------------------
(* Types                                                                   *)

\* The request that a call is making is a request.
LEMMA CurrentType ==
  ASSUME Types, NEW c \in Calls
  PROVE  /\ Current(c) \in Requests
         /\ <<c, "method">> \in Requests /\ <<c, "subscribe">> \in Requests
  BY DEF Types, Current, Requests, Stages

\* What the client makes of an answer is not nothing.
LEMMA AnswerOfType ==
  ASSUME Types, NEW r \in Requests, Sent(<<"answer", r>>)
  PROVE  AnswerOf(r) \in AnswerTypes \ {"none", "closed"}
<1>1. verdict[r] \in {"ran", "job", "failed", "unauth"}
  BY DEF Types, Sent
<1> QED
  BY <1>1 DEF AnswerOf, AnswerTypes

\* Taking an answer keeps the types of what it changes.
LEMMA ResolveType ==
  ASSUME Types, NEW r \in Requests, NEW a \in AnswerTypes, Resolve(r, a)
  PROVE  answer' \in [Requests -> AnswerTypes] /\ calls' \subseteq Requests
  BY DEF Types, Resolve

\* The end of a call keeps the types of what it changes.
LEMMA FinishType ==
  ASSUME Types, NEW c \in Calls, NEW o \in {"result", "unauth", "error", "crash"},
         Finish(c, o)
  PROVE  /\ pc' \in [Calls -> CallSteps]
         /\ outcome' \in [Calls -> {"none", "result", "unauth", "error", "crash"}]
         /\ watching' \in BOOLEAN
         /\ stage' = stage
<1>1. watching' \in BOOLEAN
  BY Zenon DEF Types, Finish
<1> QED
  BY <1>1 DEF Types, Finish, CallSteps

\* A step of one thread changes its place only, and to another one than "event",
\* "wake" and what these ask for.
LEMMA MoveType ==
  ASSUME Types, NEW t \in Threads, NEW s \in ThreadSteps \ {"event", "wake"},
         tpc' = [tpc EXCEPT ![t] = s], UNCHANGED event, found' = found
  PROVE  /\ tpc' \in [Threads -> ThreadSteps]
         /\ \A u \in Threads : tpc'[u] = "wake" => found'[u] \in MakersOrNone \X Calls
         /\ tpc'[WS] = "event" => event' \in {"added", "ended"} \X Calls
         /\ \A k \in Closers : tpc'[k] # "event"
  BY DEF Types, Threads

\* The table of jobs stays finite.
LEMMA TableType ==
  ASSUME Types, NEW c \in Calls
  PROVE  /\ table \cup {c} \subseteq Calls /\ IsFiniteSet(table \cup {c})
         /\ table \ {c} \subseteq Calls /\ IsFiniteSet(table \ {c})
         /\ Cardinality(table) \in Nat
  BY FS_AddElement, FS_RemoveElement, FS_CardinalityType, ZenonT(60) DEF Types

\* The client as it is made.
LEMMA InitTypes == Init => Types
<1> SUFFICES ASSUME Init  PROVE Types
  OBVIOUS
<1> USE DEF Init
<1>1. /\ answer \in [Requests -> AnswerTypes]
      /\ verdict \in [Requests -> {"none", "sent", "ran", "job", "failed", "unauth"}]
  BY DEF AnswerTypes
<1>2. /\ pc \in [Calls -> CallSteps] /\ stage \in [Calls -> Stages]
      /\ state \in [Calls -> JobStates] /\ job \in [Calls -> JobStates]
      /\ ready \in [Calls -> MakersOrNone] /\ held \in [Calls -> MakersOrNone]
      /\ outcome \in [Calls -> {"none", "result", "unauth", "error", "crash"}]
  BY DEF CallSteps, Stages, JobStates, MakersOrNone
<1>3. /\ tpc \in [Threads -> ThreadSteps]
      /\ todo \in [Threads -> SUBSET Requests]
      /\ seen \in [Threads -> SUBSET Calls]
      /\ found \in [Threads -> {<<>>} \cup (MakersOrNone \X Calls)]
      /\ size \in [Threads -> Nat]
  BY DEF ThreadSteps
<1>4. IsFiniteSet(table) /\ table \subseteq Calls
  BY FS_EmptySet
<1>5. /\ \A t \in Threads : tpc[t] = "idle"
      /\ WS \in Threads /\ Closers \subseteq Threads
  BY DEF Threads
<1> QED
  BY <1>1, <1>2, <1>3, <1>4, <1>5 DEF Types

\* No step changes the type of a variable.
LEMMA TypesStep == Types /\ [Next]_vars => Types'
<1> SUFFICES ASSUME Types, [Next]_vars  PROVE Types'
  OBVIOUS
<1> USE DEF clientVars, jobVars, callVars, threadVars, serverVars
<1>0. WS \in Threads /\ Closers \subseteq Threads
  BY DEF Threads
<1>1. CASE UNCHANGED vars
  BY <1>1 DEF vars, Types
<1>2. CASE Handshake \/ Constructed \/ HandshakeTimeout \/ Drop
  BY <1>2, ZenonT(60) DEF Handshake, Constructed, HandshakeTimeout, Drop, Types
<1>3. ASSUME NEW c \in Calls, Start(c)  PROVE Types'
  <2>1. PICK p \in CallSteps : pc' = [pc EXCEPT ![c] = p]
    BY <1>3 DEF Start, CallSteps
  <2>3. pc' \in [Calls -> CallSteps]
    BY <2>1 DEF Types
  <2>4. stage' \in [Calls -> Stages]
    BY <1>3 DEF Start, Types, Stages
  <2>2. watching' \in BOOLEAN
    BY <1>3, Zenon DEF Start, Types
  <2> QED
    BY <1>3, <2>2, <2>3, <2>4 DEF Start, Types
<1>4. ASSUME NEW c \in Calls, Register(c) \/ Send(c)  PROVE Types'
  <2>0. PICK p \in CallSteps : pc' = [pc EXCEPT ![c] = p]
    BY <1>4 DEF Register, Send, CallSteps
  <2>1. pc' \in [Calls -> CallSteps]
    BY <2>0 DEF Types
  <2>3. calls' \subseteq Requests
    <3>1. Current(c) \in Requests
      BY CurrentType
    <3>2. calls' = calls \cup {Current(c)} \/ calls' = calls
      BY <1>4 DEF Register, Send
    <3> QED
      BY <3>1, <3>2 DEF Types
  <2>2. verdict' \in [Requests -> {"none", "sent", "ran", "job", "failed", "unauth"}]
    BY <1>4, CurrentType DEF Register, Send, Types
  <2> QED
    BY <1>4, <2>1, <2>2, <2>3 DEF Register, Send, Types
<1>5. ASSUME NEW c \in Calls, SendFails(c) \/ CallTimeout(c)  PROVE Types'
  <2>1. Finish(c, "error") /\ calls' \subseteq Requests
    BY <1>5 DEF SendFails, CallTimeout, Types
  <2> QED
    BY <1>5, <2>1, FinishType DEF SendFails, CallTimeout, Types
<1>6. ASSUME NEW c \in Calls, Returned(c)  PROVE Types'
  <2>1. /\ pc' \in [Calls -> CallSteps]
        /\ stage' \in [Calls -> Stages]
        /\ watching' \in BOOLEAN
        /\ outcome' \in [Calls -> {"none", "result", "unauth", "error", "crash"}]
    <3>1. CASE \E o \in {"result", "unauth", "error", "crash"} : Finish(c, o)
      BY <3>1, FinishType DEF Types
    <3>2. CASE ~\E o \in {"result", "unauth", "error", "crash"} : Finish(c, o)
      <4>1. \/ /\ pc' = [pc EXCEPT ![c] = "register"]
               /\ stage' = [stage EXCEPT ![c] = "method"]
               /\ watching' = (answer[Current(c)] = "result")
               /\ UNCHANGED outcome
            \/ /\ pc' = [pc EXCEPT ![c] = "job"]
               /\ UNCHANGED <<stage, watching, outcome>>
        BY <1>6, <3>2 DEF Returned
      <4>2. watching' \in BOOLEAN
        BY <4>1, Zenon DEF Types
      <4> QED
        BY <4>1, <4>2, ZenonT(60) DEF Types, CallSteps, Stages
    <3> QED
      BY <3>1, <3>2
  <2>2. calls' \subseteq Requests
    BY <1>6 DEF Returned, Types
  <2> QED
    BY <1>6, <2>1, <2>2 DEF Returned, Types
<1>7. ASSUME NEW c \in Calls, FindJob(c)  PROVE Types'
  <2>1. pc' \in [Calls -> CallSteps] /\ held' \in [Calls -> MakersOrNone]
    BY <1>7 DEF FindJob, Types, CallSteps
  <2> QED
    BY <1>7, <2>1, TableType, ZenonT(60) DEF FindJob, Types
<1>8. ASSUME NEW c \in Calls, MakeJob(c)  PROVE Types'
  <2>1. c \in MakersOrNone
    BY DEF MakersOrNone, Makers
  <2>2. /\ pc' \in [Calls -> CallSteps]
        /\ held' \in [Calls -> MakersOrNone]
        /\ ready' \in [Calls -> MakersOrNone]
    BY <1>8, <2>1 DEF MakeJob, Types, CallSteps
  <2> QED
    BY <1>8, <2>2 DEF MakeJob, Types
<1>9. ASSUME NEW c \in Calls, JobResult(c)  PROVE Types'
  <2>1. \E o \in {"result", "unauth", "error", "crash"} : Finish(c, o)
    BY <1>9 DEF JobResult
  <2>2. ready' \in [Calls -> MakersOrNone] /\ state' \in [Calls -> JobStates]
    BY <1>9 DEF JobResult, Types, MakersOrNone, JobStates
  <2> QED
    BY <1>9, <2>1, <2>2, FinishType, TableType, ZenonT(60) DEF JobResult, Types
<1>10. ASSUME NEW r \in Requests, TakeAnswer(r)  PROVE Types'
  <2>1. taken' \subseteq Messages
    BY <1>10 DEF TakeAnswer, Types, Messages
  <2>2. AnswerOf(r) \in AnswerTypes
    BY <1>10, AnswerOfType DEF TakeAnswer, Receivable
  <2>3. answer' \in [Requests -> AnswerTypes] /\ calls' \subseteq Requests
    BY <1>10, <2>2, ResolveType DEF TakeAnswer
  <2> QED
    BY <1>10, <2>1, <2>3 DEF TakeAnswer, Types
<1>11. ASSUME NEW c \in Calls, NEW kind \in {"added", "ended"}, TakeEvent(kind, c)  PROVE Types'
  <2>1. taken' \subseteq Messages
    BY <1>11 DEF TakeEvent, Types, Messages
  <2>2. answer' \in [Requests -> AnswerTypes] /\ calls' \subseteq Requests
    BY <1>11, ResolveType, CurrentType DEF TakeEvent, AnswerTypes, Types
  <2>3. /\ tpc' \in [Threads -> ThreadSteps]
        /\ \A t \in Threads : tpc'[t] = "wake" => found[t] \in MakersOrNone \X Calls
        /\ event' \in {<<>>} \cup ({"added", "ended"} \X Calls)
        /\ tpc'[WS] = "event" => event' \in {"added", "ended"} \X Calls
        /\ \A k \in Closers : tpc'[k] # "event"
    <3>1. CASE UNCHANGED <<event, tpc>>
      BY <3>1 DEF Types
    <3>2. CASE event' = <<kind, c>> /\ tpc' = [tpc EXCEPT ![WS] = "event"]
      BY <1>0, <3>2, ThreadsAssumption DEF Types, ThreadSteps
    <3> QED
      BY <1>11, <3>1, <3>2 DEF TakeEvent
  <2> QED
    BY <1>11, <2>1, <2>2, <2>3 DEF TakeEvent, Types
<1>12. CASE JobsCallback
  <2> DEFINE c == event[2]
             e == IF ready[c] = "none" THEN WS ELSE ready[c]
  <2>1. c \in Calls
    BY <1>12 DEF JobsCallback, Types
  <2>2. e \in MakersOrNone /\ e \in Makers
    BY <1>0, <2>1 DEF Types, MakersOrNone, Makers
  <2>3. table' = table \cup {c}
    BY <1>12 DEF JobsCallback
  <2>4. state' \in [Calls -> JobStates]
    BY <1>12, <2>1 DEF JobsCallback, Types, JobStates
  <2>5. ready' \in [Calls -> MakersOrNone]
    BY <1>12, <2>1, <2>2 DEF JobsCallback, Types
  <2>6. fired' \subseteq Events
    BY <1>12, <2>1, <2>2 DEF JobsCallback, Types, Events
  <2>7. /\ tpc' \in [Threads -> ThreadSteps]
        /\ \A t \in Threads : tpc'[t] = "wake" => found[t] \in MakersOrNone \X Calls
        /\ tpc'[WS] # "event"
        /\ \A k \in Closers : tpc'[k] # "event"
    BY <1>12, <1>0 DEF JobsCallback, Types, ThreadSteps
  <2>8. /\ event' = <<>>
        /\ UNCHANGED <<sock, ctor, connected, newStyle, watching, calls, answer, held, closed,
                       pc, stage, outcome, frame, todo, seen, found, size, verdict, job, taken>>
    BY <1>12 DEF JobsCallback
  <2>9. table' \subseteq Calls /\ IsFiniteSet(table')
    BY <2>1, <2>3, TableType
  <2> HIDE DEF c, e
  <2> QED
    BY <2>4, <2>5, <2>6, <2>7, <2>8, <2>9 DEF Types
<1>13. ASSUME NEW t \in Threads,
              \/ Notice \/ CloseFrame \/ Teardown \/ CloseSocket(t)
              \/ ListCalls(t) \/ Closed(t) \/ LoopBreaks(t)
       PROVE  Types'
  <2>1. PICK u \in Threads, s \in ThreadSteps \ {"event", "wake"} : tpc' = [tpc EXCEPT ![u] = s]
    BY <1>13, <1>0 DEF Notice, CloseFrame, Teardown, CloseSocket, ListCalls, Closed, LoopBreaks,
       ThreadSteps, ClosingSteps
  <2>2. UNCHANGED event /\ found' = found
    BY <1>13 DEF Notice, CloseFrame, Teardown, CloseSocket, ListCalls, Closed, LoopBreaks
  <2>3. todo' \in [Threads -> SUBSET Requests] /\ sock' \in {"connecting", "up", "down"}
    BY <1>13 DEF Notice, CloseFrame, Teardown, CloseSocket, ListCalls, Closed, LoopBreaks, Types
  <2>4. tpc' \in [Threads -> ThreadSteps] /\ frame' \in {"none", "read", "over"}
    BY <1>13, <2>1 DEF Notice, CloseFrame, Teardown, CloseSocket, ListCalls, Closed, LoopBreaks,
       ThreadSteps, Types
  <2>5. /\ \A v \in Threads : tpc'[v] = "wake" => found'[v] \in MakersOrNone \X Calls
        /\ tpc'[WS] = "event" => event' \in {"added", "ended"} \X Calls
        /\ \A k \in Closers : tpc'[k] # "event"
    BY <2>1, <2>2, MoveType
  <2>6. UNCHANGED <<ctor, newStyle, watching, calls, answer, jobVars, callVars, event, found,
                    serverVars>>
    BY <1>13 DEF Notice, CloseFrame, Teardown, CloseSocket, ListCalls, Closed, LoopBreaks,
       clientVars, callVars, serverVars, jobVars
  <2>7. connected' \in {connected, TRUE} /\ closed' \in {closed, TRUE}
    BY <1>13 DEF Notice, CloseFrame, Teardown, CloseSocket, ListCalls, Closed, LoopBreaks, clientVars
  <2>8. \/ seen' = seen /\ size' = size
        \/ seen' = [seen EXCEPT ![t] = {}] /\ size' = [size EXCEPT ![t] = 0]
    BY <1>13 DEF Notice, CloseFrame, Teardown, CloseSocket, ListCalls, Closed, LoopBreaks, LeaveLoop
  <2>a. seen' \in [Threads -> SUBSET Calls]
    BY <2>8, Zenon DEF Types
  <2>b. size' \in [Threads -> Nat]
    <3>1. size \in [Threads -> Nat] /\ 0 \in Nat
      BY DEF Types
    <3> QED
      BY <2>8, <3>1, Zenon
  <2>9. seen' \in [Threads -> SUBSET Calls] /\ size' \in [Threads -> Nat]
    BY <2>a, <2>b
  <2> QED
    BY <2>3, <2>4, <2>5, <2>6, <2>7, <2>9 DEF Types, jobVars, callVars, serverVars
<1>14. ASSUME NEW t \in Threads, WakeCalls(t)  PROVE Types'
  <2>1. answer' \in [Requests -> AnswerTypes] /\ calls' \subseteq Requests
    BY <1>14 DEF WakeCalls, Types, AnswerTypes
  <2>2. PICK c : c = Cardinality(table)
    OBVIOUS
  <2>3. todo' \in [Threads -> SUBSET Requests] /\ size' \in [Threads -> Nat]
    BY <1>14, <2>2, FS_CardinalityType DEF WakeCalls, Types
  <2>4. "jobs" \in ThreadSteps \ {"event", "wake"}
    BY DEF ThreadSteps, ClosingSteps
  <2> QED
    BY <1>14, <2>1, <2>3, <2>4, MoveType DEF WakeCalls, Types
<1>15. ASSUME NEW t \in Threads, WakeFinds(t)  PROVE Types'
  <2>1. PICK c \in table \ seen[t] : /\ found' = [found EXCEPT ![t] = <<ready[c], c>>]
                                     /\ seen' = [seen EXCEPT ![t] = @ \cup {c}]
    BY <1>15 DEF WakeFinds
  <2>2. c \in Calls /\ <<ready[c], c>> \in MakersOrNone \X Calls
    BY DEF Types
  <2>3. seen' \in [Threads -> SUBSET Calls]
    BY <2>1, <2>2 DEF Types
  <2>4. found' \in [Threads -> {<<>>} \cup (MakersOrNone \X Calls)]
    BY <2>1, <2>2 DEF Types
  <2>5. tpc' = [tpc EXCEPT ![t] = "wake"] /\ "wake" \in ThreadSteps
    BY <1>15 DEF WakeFinds, ThreadSteps, ClosingSteps
  <2>6. \A u \in Threads : tpc'[u] = "wake" => found'[u] \in MakersOrNone \X Calls
    BY <2>1, <2>2, <2>5 DEF Types
  <2>7. tpc' \in [Threads -> ThreadSteps] /\ \A u \in Threads : tpc'[u] = "event" => tpc[u] = "event"
    BY <2>5 DEF Types
  <2> QED
    BY <1>15, <1>0, <2>3, <2>4, <2>6, <2>7 DEF WakeFinds, Types
<1>16. ASSUME NEW t \in Threads, WakeJob(t)  PROVE Types'
  <2>1. found[t] \in MakersOrNone \X Calls
    BY <1>16 DEF WakeJob, Types
  <2>2. PICK m \in MakersOrNone, c \in Calls : found[t] = <<m, c>>
    BY <2>1
  <2>3. t \in Makers /\ t \in MakersOrNone
    BY DEF Makers, MakersOrNone
  <2>4. ready' \in [Calls -> MakersOrNone]
    <3>1. ready' = ready \/ ready' = [ready EXCEPT ![c] = t] \/ ready' = [ready EXCEPT ![c] = @]
      BY <1>16, <2>2 DEF WakeJob
    <3> QED
      BY <2>3, <3>1, ZenonT(60) DEF Types
  <2>5. fired' \subseteq Events
    BY <1>16, <2>2, <2>3 DEF WakeJob, Types, Events, MakersOrNone
  <2>6. found' \in [Threads -> {<<>>} \cup (MakersOrNone \X Calls)]
    BY <1>16 DEF WakeJob, Types
  <2>7. tpc' = [tpc EXCEPT ![t] = "jobs"] /\ "jobs" \in ThreadSteps
    BY <1>16 DEF WakeJob, ThreadSteps, ClosingSteps
  <2>8. \A u \in Threads : tpc'[u] = "wake" => found'[u] \in MakersOrNone \X Calls
    BY <1>16, <2>7 DEF WakeJob, Types
  <2>9. tpc' \in [Threads -> ThreadSteps] /\ \A u \in Threads : tpc'[u] = "event" => tpc[u] = "event"
    BY <2>7 DEF Types
  <2> QED
    BY <1>16, <1>0, <2>4, <2>5, <2>6, <2>8, <2>9 DEF WakeJob, Types
<1>17. ASSUME NEW r \in Requests, Serve(r)  PROVE Types'
  <2>1. PICK v \in Answers(r) : /\ verdict' = [verdict EXCEPT ![r] = v]
                                /\ job' = [job EXCEPT ![r[1]] = IF v = "job" THEN "running" ELSE @]
    BY <1>17 DEF Serve
  <2>2. v \in {"ran", "job", "failed", "unauth"}
    BY DEF Answers
  <2>3. verdict' \in [Requests -> {"none", "sent", "ran", "job", "failed", "unauth"}]
    BY <2>1, <2>2 DEF Types
  <2>4. job' \in [Calls -> JobStates]
    BY <2>1 DEF Types, JobStates
  <2> QED
    BY <1>17, <2>3, <2>4 DEF Serve, Types
<1>18. ASSUME NEW c \in Calls, JobEnds(c)  PROVE Types'
  BY <1>18 DEF JobEnds, Types, JobStates
<1> QED
  BY <1>0, <1>1, <1>2, <1>3, <1>4, <1>5, <1>6, <1>7, <1>8, <1>9, <1>10, <1>11, <1>12,
     <1>13, <1>14, <1>15, <1>16, <1>17, <1>18 DEF Next, CallStep, Receive, OnClose

-----------------------------------------------------------------------------
(* Calls and their requests                                                *)

\* How a call moves on: what one step does to its place and stage.
Moves(c, p, s) ==
  /\ pc' = [pc EXCEPT ![c] = p]
  /\ stage' = [stage EXCEPT ![c] = s]

\* A step moves one call on, if any.
LEMMA Progress ==
  ASSUME Types, [Next]_vars
  PROVE  \/ UNCHANGED <<pc, stage>>
         \/ \E c \in Calls :
              \/ pc[c] = "new" /\ \E s \in Stages : Moves(c, "register", s)
              \/ pc[c] = "register" /\ Register(c) /\ Moves(c, "send", stage[c])
              \/ pc[c] = "send" /\ Send(c) /\ Moves(c, "wait", stage[c])
              \/ /\ pc[c] = "wait" /\ stage[c] = "subscribe"
                 /\ Moves(c, "register", "method")
              \/ /\ pc[c] \notin {"new", "register", "done"}
                 /\ \E p \in {"job", "making", "jobwait", "done"} : Moves(c, p, stage[c])
<1> USE DEF callVars, vars, Moves
<1>1. ASSUME NEW c \in Calls, Start(c)
      PROVE  pc[c] = "new" /\ \E s \in Stages : Moves(c, "register", s)
  BY <1>1 DEF Start, Stages
<1>2. ASSUME NEW c \in Calls, Register(c)
      PROVE  pc[c] = "register" /\ Moves(c, "send", stage[c])
  BY <1>2 DEF Register, Types
<1>3. ASSUME NEW c \in Calls, Send(c)
      PROVE  pc[c] = "send" /\ Moves(c, "wait", stage[c])
  BY <1>3 DEF Send, Types
<1>4. ASSUME NEW c \in Calls, NEW o, Finish(c, o)
      PROVE  Moves(c, "done", stage[c])
  BY <1>4 DEF Finish, Types
<1>5. ASSUME NEW c \in Calls, SendFails(c) \/ CallTimeout(c) \/ JobResult(c)
      PROVE  /\ pc[c] \notin {"new", "register", "done"}
             /\ Moves(c, "done", stage[c])
  BY <1>4, <1>5 DEF SendFails, CallTimeout, JobResult
<1>6. ASSUME NEW c \in Calls, Returned(c)
      PROVE  /\ pc[c] = "wait"
             /\ \/ stage[c] = "subscribe" /\ Moves(c, "register", "method")
                \/ \E p \in {"job", "done"} : Moves(c, p, stage[c])
  <2>1. CASE \E o : Finish(c, o)
    BY <1>4, <1>6, <2>1 DEF Returned
  <2>2. CASE ~\E o : Finish(c, o)
    BY <1>6, <2>2 DEF Returned, Types
  <2> QED
    BY <2>1, <2>2
<1>7. ASSUME NEW c \in Calls, FindJob(c) \/ MakeJob(c)
      PROVE  /\ pc[c] \notin {"new", "register", "done"}
             /\ \E p \in {"making", "jobwait"} : Moves(c, p, stage[c])
  BY <1>7 DEF FindJob, MakeJob, Types
<1>8. ASSUME NEW r \in Requests, TakeAnswer(r) \/ Serve(r)
      PROVE  UNCHANGED <<pc, stage>>
  BY <1>8 DEF TakeAnswer, Serve
<1>9. ASSUME NEW c \in Calls, NEW kind, TakeEvent(kind, c) \/ JobEnds(c)
      PROVE  UNCHANGED <<pc, stage>>
  BY <1>9 DEF TakeEvent, JobEnds
<1>10. ASSUME NEW t \in Threads, CloseSocket(t) \/ OnClose(t)
       PROVE  UNCHANGED <<pc, stage>>
  BY <1>10 DEF CloseSocket, OnClose, ListCalls, WakeCalls, WakeFinds, WakeJob, Closed, LoopBreaks
<1>11. CASE \/ Handshake \/ Constructed \/ HandshakeTimeout \/ JobsCallback \/ Drop \/ Notice
            \/ CloseFrame \/ Teardown
            \/ UNCHANGED vars
  BY <1>11 DEF Handshake, Constructed, HandshakeTimeout, JobsCallback, Drop, Notice, CloseFrame,
     Teardown
<1>12. \A k \in Closers : k \in Threads
  BY DEF Threads
<1> QED
  BY <1>1, <1>2, <1>3, <1>5, <1>6, <1>7, <1>8, <1>9, <1>10, <1>11, <1>12
     DEF Next, CallStep, Receive

\* What is not registered was not before, and is not being registered.
LEMMA UnaskedBefore ==
  ASSUME Types, [Next]_vars, NEW c \in Calls, NEW s \in Stages, Unasked(c, s)'
  PROVE  Unasked(c, s) /\ ~(Register(c) /\ stage[c] = s)
<1>1. CASE UNCHANGED <<pc, stage>>
  BY <1>1 DEF Unasked, Register, Types
<1>2. ASSUME NEW d \in Calls,
             \/ pc[d] = "new" /\ \E x \in Stages : Moves(d, "register", x)
             \/ pc[d] = "register" /\ Register(d) /\ Moves(d, "send", stage[d])
             \/ pc[d] = "send" /\ Moves(d, "wait", stage[d])
             \/ /\ pc[d] = "wait" /\ stage[d] = "subscribe"
                /\ Moves(d, "register", "method")
             \/ /\ pc[d] \notin {"new", "register", "done"}
                /\ \E p \in {"job", "making", "jobwait", "done"} : Moves(d, p, stage[d])
      PROVE  Unasked(c, s) /\ ~(Register(c) /\ stage[c] = s)
  <2>1. Register(c) => pc[c] = "register" /\ pc'[c] = "send" /\ stage'[c] = stage[c]
    BY DEF Register, Types
  <2>2. Unasked(c, s)
    BY <1>2 DEF Moves, Unasked, Types, Stages
  <2>3. ~(Register(c) /\ stage[c] = s)
    BY <2>1 DEF Unasked, Stages
  <2> QED
    BY <2>2, <2>3
<1> QED
  BY <1>1, <1>2, Progress

\* Taking an answer changes nothing of other requests, or of one not registered.
LEMMA ResolveOnly ==
  ASSUME Types, NEW r \in Requests, NEW a, Resolve(r, a)
  PROVE  /\ \A q \in Requests : q # r => answer'[q] = answer[q]
         /\ r \notin calls => answer' = answer /\ calls' = calls
         /\ r \in calls => answer'[r] = a /\ calls' = calls \ {r}
         /\ calls' \subseteq calls
  BY DEF Resolve, Types

\* What becomes of the client's requests in a step: one is registered, or nothing new.
LEMMA CallsGrow ==
  ASSUME Types, [Next]_vars, NEW q \in Requests, q \in calls'
  PROVE  q \in calls \/ \E c \in Calls : (Register(c) /\ q = Current(c))
<1> USE DEF vars, clientVars
<1>1. ASSUME NEW c \in Calls, Start(c) \/ CallStep(c)  PROVE q \in calls \/ (Register(c) /\ q = Current(c))
  <2>1. CASE Register(c)
    <3>1. calls' = calls \cup {Current(c)}
      BY <2>1 DEF Register
    <3> QED
      BY <2>1, <3>1
  <2>2. CASE ~Register(c)
    BY <1>1, <2>2 DEF Start, CallStep, Send, SendFails, Returned, CallTimeout, FindJob,
       MakeJob, JobResult
  <2> QED
    BY <2>1, <2>2
<1>2. CASE Receive
  <2>1. ASSUME NEW r \in Requests, TakeAnswer(r)  PROVE q \in calls
    BY <2>1, ResolveOnly DEF TakeAnswer
  <2>2. ASSUME NEW c \in Calls, NEW kind, TakeEvent(kind, c)  PROVE q \in calls
    BY <2>2, CurrentType, ResolveOnly DEF TakeEvent
  <2> QED
    BY <1>2, <2>1, <2>2 DEF Receive
<1>3. ASSUME NEW t \in Threads, CloseSocket(t) \/ OnClose(t)  PROVE q \in calls
  BY <1>3 DEF CloseSocket, OnClose, ListCalls, WakeCalls, WakeFinds, WakeJob, Closed, LoopBreaks
<1>4. CASE \/ Handshake \/ Constructed \/ HandshakeTimeout \/ JobsCallback \/ Drop \/ Notice
           \/ CloseFrame \/ Teardown
           \/ (\E r \in Requests : Serve(r)) \/ (\E c \in Calls : JobEnds(c)) \/ UNCHANGED vars
  BY <1>4 DEF Handshake, Constructed, HandshakeTimeout, JobsCallback, Drop, Notice, CloseFrame,
     Teardown, Serve, JobEnds
<1> QED
  BY <1>1, <1>2, <1>3, <1>4 DEF Next, Threads

\* A request that is on no list is put on one only when it is registered.
LEMMA ListsGrow ==
  ASSUME Types, [Next]_vars, NEW q \in Requests, NEW t \in Threads, q \in todo'[t]
  PROVE  q \in calls \/ q \in todo[t]
<1> USE DEF vars, threadVars
<1>1. ASSUME NEW c \in Calls, Start(c) \/ CallStep(c)  PROVE UNCHANGED todo
  BY <1>1 DEF Start, CallStep, Register, Send, SendFails, Returned, CallTimeout, FindJob,
     MakeJob, JobResult
<1>2. CASE Receive
  BY <1>2 DEF Receive, TakeAnswer, TakeEvent
<1>3. ASSUME NEW u \in Threads, CloseSocket(u) \/ OnClose(u)
      PROVE  q \in calls \/ q \in todo[t]
  <2>1. PICK s \in {{}, calls} : todo' = todo \/ todo' = [todo EXCEPT ![u] = s]
    BY <1>3 DEF CloseSocket, OnClose, ListCalls, WakeCalls, WakeFinds, WakeJob, Closed, LoopBreaks
  <2> QED
    BY <2>1, ZenonT(60) DEF Types
<1>4. CASE \/ Handshake \/ Constructed \/ HandshakeTimeout \/ JobsCallback \/ Drop \/ Notice
           \/ CloseFrame \/ Teardown
           \/ (\E r \in Requests : Serve(r)) \/ (\E c \in Calls : JobEnds(c)) \/ UNCHANGED vars
  BY <1>4 DEF Handshake, Constructed, HandshakeTimeout, JobsCallback, Drop, Notice, CloseFrame,
     Teardown, Serve, JobEnds
<1> QED
  BY <1>1, <1>2, <1>3, <1>4 DEF Next, Threads

\* An answer comes from the server, for a request that it has handled, or for one on
\* the list of on_close(); and an event, for the request of its job.
LEMMA AnswersCome ==
  ASSUME Types, [Next]_vars, NEW q \in Requests, answer'[q] # answer[q]
  PROVE  \/ q \in calls /\ TakeAnswer(q) /\ answer'[q] = AnswerOf(q) /\ calls' = calls \ {q}
         \/ \E c \in Calls, kind \in {"added", "ended"} :
              /\ TakeEvent(kind, c) /\ newStyle /\ q = <<c, "method">>
              /\ q \in calls /\ answer'[q] = "jobid" /\ calls' = calls \ {q}
         \/ \E t \in Threads :
              /\ WakeCalls(t) /\ q \in todo[t] /\ answer[q] = "none"
              /\ answer'[q] = "closed" /\ q \notin calls'
<1> USE DEF vars, clientVars
<1>1. ASSUME NEW c \in Calls, Start(c) \/ CallStep(c)  PROVE UNCHANGED answer
  BY <1>1 DEF Start, CallStep, Register, Send, SendFails, Returned, CallTimeout, FindJob,
     MakeJob, JobResult
<1>2. ASSUME NEW r \in Requests, TakeAnswer(r)
      PROVE  q = r /\ q \in calls /\ answer'[q] = AnswerOf(q) /\ calls' = calls \ {q}
  BY <1>2, ResolveOnly DEF TakeAnswer
<1>3. ASSUME NEW c \in Calls, NEW kind \in {"added", "ended"}, TakeEvent(kind, c)
      PROVE  /\ newStyle /\ q = <<c, "method">>
             /\ q \in calls /\ answer'[q] = "jobid" /\ calls' = calls \ {q}
  <2>1. newStyle /\ Resolve(<<c, "method">>, "jobid")
    BY <1>3 DEF TakeEvent
  <2> QED
    BY <2>1, CurrentType, ResolveOnly
<1>4. ASSUME NEW t \in Threads, WakeCalls(t)
      PROVE  q \in todo[t] /\ answer[q] = "none" /\ answer'[q] = "closed" /\ q \notin calls'
  BY <1>4 DEF WakeCalls
<1>5. ASSUME NEW t \in Threads,
             CloseSocket(t) \/ ListCalls(t) \/ WakeFinds(t) \/ WakeJob(t) \/ Closed(t) \/ LoopBreaks(t)
      PROVE  UNCHANGED answer
  BY <1>5 DEF CloseSocket, ListCalls, WakeFinds, WakeJob, Closed, LoopBreaks
<1>6. CASE \/ Handshake \/ Constructed \/ HandshakeTimeout \/ JobsCallback \/ Drop \/ Notice
           \/ CloseFrame \/ Teardown
           \/ (\E r \in Requests : Serve(r)) \/ (\E c \in Calls : JobEnds(c)) \/ UNCHANGED vars
  BY <1>6 DEF Handshake, Constructed, HandshakeTimeout, JobsCallback, Drop, Notice, CloseFrame,
     Teardown, Serve, JobEnds
<1> QED
  BY <1>1, <1>2, <1>3, <1>4, <1>5, <1>6 DEF Next, Threads, Receive, OnClose

\* The server has something of a request once it was sent, and decides it once.
LEMMA VerdictsCome ==
  ASSUME Types, [Next]_vars, NEW q \in Requests, verdict'[q] # verdict[q]
  PROVE  \/ \E c \in Calls : Send(c) /\ q = Current(c) /\ verdict'[q] = "sent"
         \/ verdict[q] = "sent" /\ Serve(q) /\ verdict'[q] \in Answers(q)
<1> USE DEF vars, serverVars
<1>1. ASSUME NEW c \in Calls, Start(c) \/ CallStep(c)
      PROVE  Send(c) /\ q = Current(c) /\ verdict'[q] = "sent"
  <2>1. CASE Send(c)
    BY <2>1 DEF Send, Types
  <2>2. CASE ~Send(c)
    BY <1>1, <2>2 DEF Start, CallStep, Register, SendFails, Returned, CallTimeout, FindJob,
       MakeJob, JobResult
  <2> QED
    BY <2>1, <2>2
<1>2. CASE Receive
  BY <1>2 DEF Receive, TakeAnswer, TakeEvent
<1>3. ASSUME NEW u \in Threads, CloseSocket(u) \/ OnClose(u)  PROVE FALSE
  BY <1>3 DEF CloseSocket, OnClose, ListCalls, WakeCalls, WakeFinds, WakeJob, Closed, LoopBreaks
<1>4. CASE \/ Handshake \/ Constructed \/ HandshakeTimeout \/ JobsCallback \/ Drop \/ Notice
           \/ CloseFrame \/ Teardown
           \/ (\E c \in Calls : JobEnds(c)) \/ UNCHANGED vars
  BY <1>4 DEF Handshake, Constructed, HandshakeTimeout, JobsCallback, Drop, Notice, CloseFrame,
     Teardown, JobEnds
<1>5. ASSUME NEW r \in Requests, Serve(r)
      PROVE  q = r /\ verdict[q] = "sent" /\ verdict'[q] \in Answers(q)
  <2>1. PICK v \in Answers(r) : verdict' = [verdict EXCEPT ![r] = v]
    BY <1>5 DEF Serve
  <2> QED
    BY <1>5, <2>1 DEF Serve, Types
<1> QED
  BY <1>1, <1>2, <1>3, <1>4, <1>5 DEF Next, Threads

\* A request that its call has not registered stays unknown.
LEMMA UnknownStep ==
  ASSUME Types, RequestsFit, [Next]_vars, NEW c \in Calls, NEW s \in Stages, Unasked(c, s)'
  PROVE  Unknown(<<c, s>>)'
<1>0. PICK q \in Requests : q = <<c, s>>
  BY DEF Requests
<1>1. Unasked(c, s) /\ ~(Register(c) /\ stage[c] = s)
  BY UnaskedBefore
<1>2. Unknown(q)
  BY <1>0, <1>1 DEF RequestsFit
<1>3. q \notin calls'
  <2> SUFFICES ASSUME q \in calls'  PROVE FALSE
    OBVIOUS
  <2>1. q \notin calls
    BY <1>0, <1>2 DEF Unknown
  <2>2. PICK d \in Calls : Register(d) /\ q = Current(d)
    BY <1>0, <2>1, CallsGrow
  <2> QED
    BY <1>0, <1>1, <2>2 DEF Current
<1>4. \A t \in Threads : q \notin todo'[t]
  BY <1>0, <1>2, ListsGrow DEF Unknown
<1>5. answer'[q] = "none"
  BY <1>0, <1>2, AnswersCome DEF Unknown
<1>6. verdict'[q] = "none"
  <2>1. ASSUME NEW d \in Calls, Send(d), q = Current(d)  PROVE FALSE
    <3>1. c = d /\ s = stage[c]
      BY <1>0, <2>1 DEF Current
    <3>2. pc[c] = "send"
      BY <2>1, <3>1 DEF Send
    <3> QED
      BY <1>1, <3>1, <3>2 DEF Unasked
  <2>2. verdict[q] # "sent"
    BY <1>2 DEF Unknown
  <2> QED
    BY <1>0, <1>2, <2>1, <2>2, VerdictsCome DEF Unknown
<1> QED
  BY <1>0, <1>3, <1>4, <1>5, <1>6 DEF Unknown

\* What the server makes of a job is decided with the request, and then only ends.
LEMMA JobsCome ==
  ASSUME Types, [Next]_vars, NEW c \in Calls, job'[c] # job[c]
  PROVE  \/ /\ Serve(<<c, "method">>) /\ verdict[<<c, "method">>] = "sent"
            /\ verdict'[<<c, "method">>] = "job"
         \/ job[c] = "running" /\ verdict' = verdict
<1> USE DEF vars, serverVars
<1>1. ASSUME NEW d \in Calls, Start(d) \/ CallStep(d)  PROVE UNCHANGED job
  BY <1>1 DEF Start, CallStep, Register, Send, SendFails, Returned, CallTimeout, FindJob,
     MakeJob, JobResult
<1>2. CASE Receive
  BY <1>2 DEF Receive, TakeAnswer, TakeEvent
<1>3. ASSUME NEW u \in Threads, CloseSocket(u) \/ OnClose(u)  PROVE FALSE
  BY <1>3 DEF CloseSocket, OnClose, ListCalls, WakeCalls, WakeFinds, WakeJob, Closed, LoopBreaks
<1>4. CASE \/ Handshake \/ Constructed \/ HandshakeTimeout \/ JobsCallback \/ Drop \/ Notice
           \/ CloseFrame \/ Teardown
           \/ UNCHANGED vars
  BY <1>4 DEF Handshake, Constructed, HandshakeTimeout, JobsCallback, Drop, Notice, CloseFrame,
     Teardown
<1>5. ASSUME NEW r \in Requests, Serve(r)
      PROVE  /\ Serve(<<c, "method">>) /\ verdict[<<c, "method">>] = "sent"
             /\ verdict'[<<c, "method">>] = "job"
  <2>1. PICK v \in Answers(r) : /\ verdict' = [verdict EXCEPT ![r] = v]
                                /\ job' = [job EXCEPT ![r[1]] = IF v = "job" THEN "running" ELSE @]
    BY <1>5 DEF Serve
  <2>2. v = "job" /\ r[1] = c
    <3>1. r[1] \in Calls
      BY DEF Requests
    <3>2. r[1] = c
      BY <2>1, <3>1 DEF Types
    <3>3. v = "job"
      BY <2>1, <3>1 DEF Types
    <3> QED
      BY <3>2, <3>3
  <2>3. r[2] = "method"
    BY <2>2 DEF Answers
  <2>4. r = <<c, "method">>
    BY <2>2, <2>3 DEF Requests
  <2>5. verdict[r] = "sent" /\ verdict'[r] = "job"
    BY <1>5, <2>1, <2>2 DEF Serve, Types
  <2> QED
    BY <1>5, <2>4, <2>5
<1>6. ASSUME NEW d \in Calls, JobEnds(d)  PROVE job[c] = "running" /\ verdict' = verdict
  BY <1>6 DEF JobEnds, Types
<1> QED
  BY <1>1, <1>2, <1>3, <1>4, <1>5, <1>6 DEF Next, Threads

\* A call has no outcome before it is over.
LEMMA OutcomesCome ==
  ASSUME Types, [Next]_vars, NEW c \in Calls
  PROVE  /\ outcome'[c] # outcome[c] => pc'[c] = "done" /\ pc[c] # "done"
         /\ pc[c] = "done" => pc'[c] = "done"
<1> USE DEF vars, callVars
<1>1. ASSUME NEW d \in Calls, NEW o, Finish(d, o), pc[d] # "done"
      PROVE  /\ outcome'[c] # outcome[c] => pc'[c] = "done" /\ pc[c] # "done"
             /\ pc[c] = "done" => pc'[c] = "done"
  BY <1>1 DEF Finish, Types
<1>2. ASSUME NEW d \in Calls, Start(d) \/ CallStep(d), ~\E o : Finish(d, o)
      PROVE  UNCHANGED outcome
  BY <1>2 DEF Start, CallStep, Register, Send, SendFails, Returned, CallTimeout, FindJob,
     MakeJob, JobResult
<1>3. ASSUME NEW d \in Calls, Start(d) \/ CallStep(d)  PROVE pc[d] # "done"
  BY <1>3 DEF Start, CallStep, Register, Send, SendFails, Returned, CallTimeout, FindJob,
     MakeJob, JobResult
<1>4. CASE Receive
  BY <1>4 DEF Receive, TakeAnswer, TakeEvent
<1>5. ASSUME NEW u \in Threads, CloseSocket(u) \/ OnClose(u)  PROVE UNCHANGED <<pc, outcome>>
  BY <1>5 DEF CloseSocket, OnClose, ListCalls, WakeCalls, WakeFinds, WakeJob, Closed, LoopBreaks
<1>6. CASE \/ Handshake \/ Constructed \/ HandshakeTimeout \/ JobsCallback \/ Drop \/ Notice
           \/ CloseFrame \/ Teardown
           \/ (\E r \in Requests : Serve(r)) \/ (\E d \in Calls : JobEnds(d)) \/ UNCHANGED vars
  BY <1>6 DEF Handshake, Constructed, HandshakeTimeout, JobsCallback, Drop, Notice, CloseFrame,
     Teardown, Serve, JobEnds
<1>7. pc[c] = "done" => pc'[c] = "done"
  BY Progress DEF Moves, Types
<1> QED
  BY <1>1, <1>2, <1>3, <1>4, <1>5, <1>6, <1>7 DEF Next, Threads

\* What a call has not registered stays unknown, and what the server decides fits.
LEMMA RequestsStep == Types /\ RequestsFit /\ [Next]_vars => RequestsFit'
<1> SUFFICES ASSUME Types, RequestsFit, [Next]_vars  PROVE RequestsFit'
  OBVIOUS
<1>1. ASSUME NEW c \in Calls, NEW s \in Stages, Unasked(c, s)'  PROVE Unknown(<<c, s>>)'
  BY <1>1, UnknownStep
<1>2. ASSUME NEW c \in Calls, pc'[c] = "send"  PROVE verdict'[Current(c)'] = "none"
  <2>1. Current(c)' = Current(c) /\ Current(c) \in Requests
    <3>1. CASE UNCHANGED <<pc, stage>>
      BY <3>1, CurrentType DEF Current
    <3>2. ASSUME NEW d \in Calls, NEW p, NEW s, Moves(d, p, s),
                 p # "send" \/ s = stage[d]
          PROVE  stage'[c] = stage[c]
      BY <1>2, <3>2 DEF Moves, Types
    <3>3. stage'[c] = stage[c]
      <4> HIDE DEF Moves
      <4> QED
        BY <3>1, <3>2, Progress
    <3> QED
      BY <3>3, CurrentType DEF Current
  <2>2. CASE pc[c] = "send"
    <3>1. verdict[Current(c)] = "none"
      BY <2>2 DEF RequestsFit
    <3>2. ASSUME NEW d \in Calls, Send(d), Current(c) = Current(d)  PROVE FALSE
      <4>1. c = d
        BY <3>2 DEF Current
      <4> QED
        BY <1>2, <3>2, <4>1 DEF Send, Types
    <3> QED
      BY <2>1, <3>1, <3>2, VerdictsCome
  <2>3. CASE pc[c] # "send"
    <3>1. Register(c) /\ pc[c] = "register"
      BY <1>2, <2>3, Progress DEF Moves, Types
    <3>2. verdict[Current(c)] = "none"
      BY <3>1 DEF RequestsFit, Unasked, Unknown, Current, Types
    <3> QED
      BY <2>1, <3>1, <3>2 DEF Register, serverVars
  <2> QED
    BY <2>2, <2>3
<1>3. ASSUME NEW c \in Calls, job'[c] # "none"  PROVE verdict'[<<c, "method">>] = "job"
  <2>1. <<c, "method">> \in Requests
    BY CurrentType
  <2>2. CASE job'[c] # job[c]
    <3>1. CASE job[c] = "running" /\ verdict' = verdict
      BY <3>1 DEF RequestsFit
    <3> QED
      BY <2>2, <3>1, JobsCome
  <2>3. CASE job'[c] = job[c]
    <3>1. verdict[<<c, "method">>] = "job"
      BY <1>3, <2>3 DEF RequestsFit
    <3>2. ASSUME NEW d \in Calls, Send(d), <<c, "method">> = Current(d)  PROVE FALSE
      BY <3>1, <3>2 DEF RequestsFit, Send
    <3> QED
      BY <2>1, <3>1, <3>2, VerdictsCome
  <2> QED
    BY <2>2, <2>3
<1>4. ASSUME NEW c \in Calls, pc'[c] # "done"  PROVE outcome'[c] = "none"
  BY <1>4, OutcomesCome DEF RequestsFit
<1> QED
  BY <1>1, <1>2, <1>3, <1>4 DEF RequestsFit

\* Calls are taken off the register by their callers, with an answer, or with on_close().
LEMMA CallsShrink ==
  ASSUME Types, [Next]_vars, NEW q \in Requests, q \in calls, q \notin calls'
  PROVE  \/ answer'[q] # "none"
         \/ \E c \in Calls :
              /\ q = Current(c) /\ pc[c] \in {"send", "wait"}
              /\ SendFails(c) \/ Returned(c) \/ CallTimeout(c)
<1> USE DEF vars, clientVars
<1>1. ASSUME NEW c \in Calls, Start(c) \/ CallStep(c)
      PROVE  /\ q = Current(c) /\ pc[c] \in {"send", "wait"}
             /\ SendFails(c) \/ Returned(c) \/ CallTimeout(c)
  <2>1. ~(Start(c) \/ Register(c) \/ Send(c) \/ FindJob(c) \/ MakeJob(c) \/ JobResult(c))
    BY DEF Start, Register, Send, FindJob, MakeJob, JobResult
  <2>2. SendFails(c) \/ Returned(c) \/ CallTimeout(c)
    BY <1>1, <2>1 DEF CallStep
  <2>3. q = Current(c) /\ pc[c] \in {"send", "wait"}
    BY <2>2 DEF SendFails, Returned, CallTimeout
  <2> QED
    BY <2>2, <2>3
<1>2. ASSUME NEW r \in Requests, TakeAnswer(r)  PROVE answer'[q] # "none"
  <2>1. AnswerOf(r) # "none"
    BY <1>2, AnswerOfType DEF TakeAnswer, Receivable
  <2> QED
    BY <1>2, <2>1, ResolveOnly DEF TakeAnswer
<1>3. ASSUME NEW c \in Calls, NEW kind, TakeEvent(kind, c)  PROVE answer'[q] # "none"
  <2>1. PICK r \in Requests : r = <<c, "method">>
    BY CurrentType
  <2>2. Resolve(r, "jobid")
    BY <1>3, <2>1 DEF TakeEvent
  <2>3. r \in calls /\ calls' = calls \ {r} /\ answer'[r] = "jobid"
    BY <2>2, ResolveOnly
  <2> QED
    BY <2>3
<1>4. ASSUME NEW t \in Threads, WakeCalls(t)  PROVE answer'[q] # "none"
  BY <1>4 DEF WakeCalls
<1>5. ASSUME NEW t \in Threads,
             CloseSocket(t) \/ ListCalls(t) \/ WakeFinds(t) \/ WakeJob(t) \/ Closed(t) \/ LoopBreaks(t)
      PROVE  FALSE
  BY <1>5 DEF CloseSocket, ListCalls, WakeFinds, WakeJob, Closed, LoopBreaks
<1>6. CASE \/ Handshake \/ Constructed \/ HandshakeTimeout \/ JobsCallback \/ Drop \/ Notice
           \/ CloseFrame \/ Teardown
           \/ (\E r \in Requests : Serve(r)) \/ (\E c \in Calls : JobEnds(c)) \/ UNCHANGED vars
  BY <1>6 DEF Handshake, Constructed, HandshakeTimeout, JobsCallback, Drop, Notice, CloseFrame,
     Teardown, Serve, JobEnds
<1> QED
  BY <1>1, <1>2, <1>3, <1>4, <1>5, <1>6 DEF Next, Threads, Receive, OnClose

\* A call whose own step takes its request off the register no longer waits for it.
LEMMA GoneFromWait ==
  ASSUME Types, NEW c \in Calls, SendFails(c) \/ Returned(c) \/ CallTimeout(c)
  PROVE  pc'[c] \notin {"send", "wait"}
<1>1. ASSUME NEW o, Finish(c, o)  PROVE pc'[c] = "done"
  BY <1>1 DEF Finish, Types
<1> QED
  BY <1>1 DEF SendFails, Returned, CallTimeout, Types

\* A call that has no answer stays registered, and what is registered unanswered.
LEMMA WaitsStep == Types /\ RequestsFit /\ WaitsFit /\ [Next]_vars => WaitsFit'
<1> SUFFICES ASSUME Types, RequestsFit, WaitsFit, [Next]_vars  PROVE WaitsFit'
  OBVIOUS
<1>1. ASSUME NEW c \in Calls, pc'[c] \in {"send", "wait"}, answer'[Current(c)'] = "none"
      PROVE  Current(c)' \in calls'
  <2>1. /\ Current(c)' = Current(c) /\ Current(c) \in Requests
        /\ pc[c] \in {"send", "wait"} \/ Register(c)
    <3>1. Current(c) \in Requests
      BY CurrentType
    <3>2. stage'[c] = stage[c] /\ (pc[c] \in {"send", "wait"} \/ Register(c))
      BY <1>1, Progress DEF Moves, Types
    <3> QED
      BY <3>1, <3>2 DEF Current
  <2>2. CASE Register(c)
    BY <2>1, <2>2 DEF Register
  <2>3. CASE pc[c] \in {"send", "wait"}
    <3>1. answer[Current(c)] = "none"
      <4>1. ASSUME answer'[Current(c)] # answer[Current(c)]  PROVE answer'[Current(c)] # "none"
        <5>1. ASSUME TakeAnswer(Current(c))  PROVE AnswerOf(Current(c)) # "none"
          BY <2>1, <5>1, AnswerOfType DEF TakeAnswer, Receivable
        <5> QED
          BY <2>1, <4>1, <5>1, AnswersCome
      <4> QED
        BY <1>1, <2>1, <4>1
    <3>2. Current(c) \in calls
      BY <2>3, <3>1 DEF WaitsFit
    <3>3. ASSUME NEW d \in Calls, Current(c) = Current(d),
                 SendFails(d) \/ Returned(d) \/ CallTimeout(d)
          PROVE  FALSE
      BY <1>1, <3>3, GoneFromWait DEF Current
    <3> QED
      BY <1>1, <2>1, <3>2, <3>3, CallsShrink
  <2> QED
    BY <2>1, <2>2, <2>3
<1>2. ASSUME NEW q \in calls'  PROVE answer'[q] = "none"
  <2>1. q \in Requests
    BY TypesStep DEF Types
  <2>2. answer[q] = "none"
    <3>1. CASE q \in calls
      BY <3>1 DEF WaitsFit
    <3>2. ASSUME NEW c \in Calls, Register(c), q = Current(c)  PROVE answer[q] = "none"
      BY <3>2 DEF Register, RequestsFit, Unasked, Unknown, Current, Types
    <3> QED
      BY <2>1, <3>1, <3>2, CallsGrow
  <2> QED
    BY <2>1, <2>2, AnswersCome
<1> QED
  BY <1>1, <1>2 DEF WaitsFit

-----------------------------------------------------------------------------
(* on_close()                                                              *)

\* The socket does not come back.
LEMMA SocketStep ==
  ASSUME Types, [Next]_vars
  PROVE  /\ sock = "down" => sock' = "down"
         /\ sock' = "connecting" => sock = "connecting"
<1> USE DEF vars
<1>1. ASSUME NEW d \in Calls, Start(d) \/ CallStep(d)  PROVE UNCHANGED sock
  BY <1>1 DEF Start, CallStep, Register, Send, SendFails, Returned, CallTimeout, FindJob,
     MakeJob, JobResult
<1>2. CASE Receive
  BY <1>2 DEF Receive, TakeAnswer, TakeEvent
<1>3. ASSUME NEW u \in Threads, CloseSocket(u) \/ OnClose(u)  PROVE sock' \in {sock, "down"}
  BY <1>3 DEF CloseSocket, OnClose, ListCalls, WakeCalls, WakeFinds, WakeJob, Closed, LoopBreaks
<1>4. CASE \/ Handshake \/ Constructed \/ HandshakeTimeout \/ JobsCallback \/ Drop \/ Notice
           \/ CloseFrame \/ Teardown
           \/ (\E r \in Requests : Serve(r)) \/ (\E d \in Calls : JobEnds(d)) \/ UNCHANGED vars
  BY <1>4 DEF Handshake, Constructed, HandshakeTimeout, JobsCallback, Drop, Notice, CloseFrame,
     Teardown, Serve, JobEnds
<1> QED
  BY <1>1, <1>2, <1>3, <1>4 DEF Next, Threads

\* A close frame is read once, and dealt with.
LEMMA FrameStep ==
  ASSUME [Next]_vars
  PROVE  frame' = frame \/ CloseFrame \/ Teardown
<1> USE DEF vars, threadVars
<1>1. ASSUME NEW d \in Calls, Start(d) \/ CallStep(d)  PROVE UNCHANGED frame
  BY <1>1 DEF Start, CallStep, Register, Send, SendFails, Returned, CallTimeout, FindJob,
     MakeJob, JobResult
<1>2. CASE Receive
  BY <1>2 DEF Receive, TakeAnswer, TakeEvent
<1>3. ASSUME NEW u \in Threads, CloseSocket(u) \/ OnClose(u)  PROVE UNCHANGED frame
  BY <1>3 DEF CloseSocket, OnClose, ListCalls, WakeCalls, WakeFinds, WakeJob, Closed, LoopBreaks
<1>4. CASE \/ Handshake \/ Constructed \/ HandshakeTimeout \/ JobsCallback \/ Drop \/ Notice
           \/ (\E r \in Requests : Serve(r)) \/ (\E d \in Calls : JobEnds(d)) \/ UNCHANGED vars
  BY <1>4 DEF Handshake, Constructed, HandshakeTimeout, JobsCallback, Drop, Notice, Serve, JobEnds
<1> QED
  BY <1>1, <1>2, <1>3, <1>4 DEF Next, Threads

\* How a thread gets into on_close(), and through it.
LEMMA ThreadsMove ==
  ASSUME Types, [Next]_vars, NEW t \in Threads, tpc'[t] \in ClosingSteps
  PROVE  \/ tpc'[t] = "notice" /\ (sock' = "down" \/ (t = WS /\ tpc[t] = "idle" /\ frame' = "read"))
         \/ tpc[t] = "notice" /\ ListCalls(t) /\ tpc'[t] = "calls"
         \/ tpc[t] = "calls" /\ WakeCalls(t)
         \/ tpc[t] \in ClosingSteps /\ tpc'[t] = tpc[t] /\ todo'[t] = todo[t]
         \/ tpc[t] \in {"jobs", "wake", "done"} /\ tpc'[t] \in {"jobs", "wake", "done"}
<1> USE DEF vars, threadVars, ClosingSteps
<1>1. ASSUME NEW d \in Calls, Start(d) \/ CallStep(d)  PROVE UNCHANGED <<tpc, todo>>
  BY <1>1 DEF Start, CallStep, Register, Send, SendFails, Returned, CallTimeout, FindJob,
     MakeJob, JobResult
<1>2. CASE Receive
  <2>1. UNCHANGED todo
    BY <1>2 DEF Receive, TakeAnswer, TakeEvent
  <2>2. tpc' = tpc \/ tpc' = [tpc EXCEPT ![WS] = "event"]
    BY <1>2 DEF Receive, TakeAnswer, TakeEvent
  <2> QED
    BY <2>1, <2>2 DEF Types
<1>3. ASSUME NEW u \in Threads, CloseSocket(u)
      PROVE  /\ sock' = "down" /\ UNCHANGED todo
             /\ tpc' = [tpc EXCEPT ![u] = "notice"]
  BY <1>3 DEF CloseSocket
<1>4. ASSUME NEW u \in Threads, ListCalls(u)
      PROVE  /\ tpc[u] = "notice"
             /\ tpc' = [tpc EXCEPT ![u] = "calls"]
             /\ todo' = [todo EXCEPT ![u] = calls]
  BY <1>4 DEF ListCalls
<1>5. ASSUME NEW u \in Threads, WakeCalls(u)
      PROVE  /\ tpc[u] = "calls"
             /\ tpc' = [tpc EXCEPT ![u] = "jobs"]
             /\ todo' = [todo EXCEPT ![u] = {}]
  BY <1>5 DEF WakeCalls
<1>6. ASSUME NEW u \in Threads, WakeFinds(u) \/ WakeJob(u) \/ Closed(u) \/ LoopBreaks(u)
      PROVE  /\ tpc[u] \in {"jobs", "wake"} /\ UNCHANGED todo
             /\ \E s \in {"jobs", "wake", "done"} : tpc' = [tpc EXCEPT ![u] = s]
  BY <1>6 DEF WakeFinds, WakeJob, Closed, LoopBreaks
<1>7. CASE Notice \/ CloseFrame \/ Teardown
  BY <1>7 DEF Notice, CloseFrame, Teardown, Types, Threads
<1>8. CASE JobsCallback
  BY <1>8 DEF JobsCallback, Types, Threads
<1>9. CASE \/ Handshake \/ Constructed \/ HandshakeTimeout \/ Drop
           \/ (\E r \in Requests : Serve(r)) \/ (\E d \in Calls : JobEnds(d)) \/ UNCHANGED vars
  BY <1>9 DEF Handshake, Constructed, HandshakeTimeout, Drop, Serve, JobEnds
<1>10. ASSUME NEW u \in Threads, CloseSocket(u)  PROVE (tpc'[t] = "notice" /\ sock' = "down") \/
                                                  (tpc'[t] = tpc[t] /\ todo'[t] = todo[t])
  BY <1>3, <1>10 DEF Types
<1>11. ASSUME NEW u \in Threads, ListCalls(u)
       PROVE  \/ u = t /\ tpc[t] = "notice" /\ tpc'[t] = "calls"
              \/ tpc'[t] = tpc[t] /\ todo'[t] = todo[t]
  BY <1>4, <1>11 DEF Types
<1>12. ASSUME NEW u \in Threads, WakeCalls(u)
       PROVE  \/ u = t /\ tpc[t] = "calls"
              \/ tpc'[t] = tpc[t] /\ todo'[t] = todo[t]
  BY <1>5, <1>12 DEF Types
<1>13. ASSUME NEW u \in Threads, WakeFinds(u) \/ WakeJob(u) \/ Closed(u) \/ LoopBreaks(u)
       PROVE  \/ tpc[t] \in {"jobs", "wake"} /\ tpc'[t] \in {"jobs", "wake", "done"}
              \/ tpc'[t] = tpc[t] /\ todo'[t] = todo[t]
  BY <1>6, <1>13 DEF Types
<1> QED
  BY <1>1, <1>2, <1>7, <1>8, <1>9, <1>10, <1>11, <1>12, <1>13 DEF Next, Threads, OnClose

\* A thread that has got into on_close() stays in it, or is over with it.
LEMMA ClosingStays ==
  ASSUME Types, [Next]_vars, NEW t \in Threads, tpc[t] \in ClosingSteps
  PROVE  tpc'[t] \in ClosingSteps
<1> USE DEF vars, threadVars, ClosingSteps
<1>1. ASSUME NEW d \in Calls, Start(d) \/ CallStep(d)  PROVE UNCHANGED tpc
  BY <1>1 DEF Start, CallStep, Register, Send, SendFails, Returned, CallTimeout, FindJob,
     MakeJob, JobResult
<1>2. CASE Receive
  BY <1>2 DEF Receive, TakeAnswer, TakeEvent, Receivable, Types
<1>3. ASSUME NEW u \in Threads, CloseSocket(u) \/ OnClose(u)  PROVE tpc'[t] \in ClosingSteps
  BY <1>3 DEF CloseSocket, OnClose, ListCalls, WakeCalls, WakeFinds, WakeJob, Closed, LoopBreaks,
     Types
<1>4. CASE JobsCallback \/ Notice \/ CloseFrame \/ Teardown
  BY <1>4 DEF JobsCallback, Notice, CloseFrame, Teardown, Types
<1>5. CASE \/ Handshake \/ Constructed \/ HandshakeTimeout \/ Drop
           \/ (\E r \in Requests : Serve(r)) \/ (\E d \in Calls : JobEnds(d)) \/ UNCHANGED vars
  BY <1>5 DEF Handshake, Constructed, HandshakeTimeout, Drop, Serve, JobEnds
<1> QED
  BY <1>1, <1>2, <1>3, <1>4, <1>5 DEF Next, Threads

\* It is the first step of an on_close() that comes after the socket.
LEMMA AfterStays ==
  ASSUME Types, [Next]_vars, NEW t \in Threads, AfterTheSocket(t)', tpc'[t] # "notice"
  PROVE  AfterTheSocket(t)
<1> SUFFICES ASSUME t = WS, frame = "read"  PROVE FALSE
  BY DEF AfterTheSocket
<1>1. frame' # "read"
  BY DEF AfterTheSocket
<1>2. Teardown
  BY <1>1, FrameStep DEF CloseFrame
<1> QED
  BY <1>2 DEF Teardown, Types

\* An answered call stays answered.
LEMMA AnswersStay ==
  ASSUME Types, [Next]_vars, NEW q \in Requests, answer'[q] = "none"
  PROVE  answer[q] = "none"
<1>1. ASSUME TakeAnswer(q)  PROVE AnswerOf(q) # "none"
  BY <1>1, AnswerOfType DEF TakeAnswer, Receivable
<1> QED
  BY <1>1, AnswersCome

\* A call that waits was waiting, or its request has just left on an open socket.
LEMMA WaitsSince ==
  ASSUME Types, [Next]_vars, NEW c \in Calls, pc'[c] = "wait"
  PROVE  Current(c)' = Current(c) /\ (pc[c] = "wait" \/ sock = "up")
<1>1. stage'[c] = stage[c] /\ (pc[c] = "wait" \/ Send(c))
  BY Progress DEF Moves, Types
<1> QED
  BY <1>1 DEF Current, Send

\* on_close() comes after the socket or for a close frame, and what it lists is what waits.
LEMMA ClosesStep == Types /\ WaitsFit /\ ClosesFit /\ [Next]_vars => ClosesFit'
<1> SUFFICES ASSUME Types, WaitsFit, ClosesFit, [Next]_vars
             PROVE  ClosesFit'
  OBVIOUS
<1>0. WS \in Threads
  BY DEF Threads
<1>1. ASSUME frame' = "over"  PROVE sock' = "down"
  BY <1>1, FrameStep, SocketStep DEF ClosesFit, CloseFrame, Teardown
<1>2. ASSUME frame' = "read"  PROVE tpc'[WS] \in ClosingSteps
  <2>1. CASE frame = "read"
    BY <1>0, <2>1, ClosingStays DEF ClosesFit
  <2>2. CASE CloseFrame
    BY <1>0, <2>2 DEF CloseFrame, Types, ClosingSteps
  <2> QED
    BY <1>2, <2>1, <2>2, FrameStep DEF Teardown
<1>3. ASSUME NEW t \in Threads, tpc'[t] \in ClosingSteps
      PROVE  sock' = "down" \/ (t = WS /\ frame' = "read")
  <2>1. \/ sock' = "down" \/ (t = WS /\ frame' = "read")
        \/ tpc[t] \in ClosingSteps
    BY <1>3, ThreadsMove DEF ClosingSteps
  <2>2. CASE tpc[t] \in ClosingSteps
    <3>1. sock = "down" \/ (t = WS /\ frame = "read")
      BY <2>2 DEF ClosesFit
    <3>2. frame = "read" => frame' = "read" \/ sock' = "down"
      BY FrameStep DEF CloseFrame, Teardown
    <3> QED
      BY <3>1, <3>2, SocketStep
  <2> QED
    BY <2>1, <2>2
<1>4. ASSUME NEW t \in Threads, tpc'[t] = "calls", AfterTheSocket(t)',
             NEW c \in Calls, pc'[c] = "wait", answer'[Current(c)'] = "none"
      PROVE  Current(c)' \in todo'[t]
  <2>1. Current(c)' = Current(c) /\ Current(c) \in Requests /\ (pc[c] = "wait" \/ sock = "up")
    BY <1>4, WaitsSince, CurrentType
  <2>2. answer[Current(c)] = "none"
    BY <1>4, <2>1, AnswersStay
  <2>3. ListCalls(t) \/ (tpc[t] = "calls" /\ todo'[t] = todo[t])
    <3>1. WakeCalls(t) => tpc'[t] # "calls"
      BY DEF WakeCalls, Types
    <3> QED
      BY <1>4, <3>1, ThreadsMove DEF ClosingSteps
  <2>4. CASE ListCalls(t)
    <3>1. pc[c] = "wait" /\ todo'[t] = calls
      BY <1>4, <2>4 DEF ListCalls, callVars, Types
    <3> QED
      BY <2>1, <2>2, <3>1 DEF WaitsFit
  <2>5. CASE tpc[t] = "calls" /\ todo'[t] = todo[t]
    <3>1. AfterTheSocket(t)
      BY <1>4, AfterStays
    <3>2. pc[c] = "wait"
      BY <2>1, <2>5, <3>1 DEF ClosesFit, ClosingSteps, AfterTheSocket
    <3> QED
      BY <2>1, <2>2, <2>5, <3>1, <3>2 DEF ClosesFit
  <2> QED
    BY <2>3, <2>4, <2>5
<1> QED
  BY <1>1, <1>2, <1>3, <1>4 DEF ClosesFit

\* After on_close() has gone through the calls, the socket gone, no call goes back to
\* waiting.
LEMMA WakeupStep ==
  Types /\ ClosesFit /\ NoLostWakeup /\ [Next]_vars => NoLostWakeup'
<1> SUFFICES ASSUME Types, ClosesFit, NoLostWakeup, [Next]_vars,
                    NEW t \in Threads, tpc'[t] \in {"jobs", "wake", "done"}, AfterTheSocket(t)',
                    NEW c \in Calls, pc'[c] = "wait", answer'[Current(c)'] = "none"
             PROVE  FALSE
  BY DEF NoLostWakeup
<1>0. AfterTheSocket(t)
  BY AfterStays
<1>1. Current(c)' = Current(c) /\ Current(c) \in Requests /\ (pc[c] = "wait" \/ sock = "up")
  BY WaitsSince, CurrentType
<1>2. answer[Current(c)] = "none"
  BY <1>1, AnswersStay
<1>3. tpc[t] \in {"jobs", "wake", "done"} \/ (tpc[t] = "calls" /\ WakeCalls(t))
  <2>1. ListCalls(t) => tpc'[t] = "calls"
    BY DEF ListCalls, Types
  <2> QED
    BY <2>1, ThreadsMove DEF ClosingSteps
<1>4. pc[c] = "wait"
  BY <1>0, <1>1, <1>3 DEF ClosesFit, ClosingSteps, AfterTheSocket
<1>5. CASE tpc[t] = "calls" /\ WakeCalls(t)
  <2>1. Current(c) \in todo[t]
    BY <1>0, <1>2, <1>4, <1>5 DEF ClosesFit
  <2>2. answer'[Current(c)] = "closed"
    BY <1>1, <1>2, <1>5, <2>1 DEF WakeCalls
  <2> QED
    BY <1>1, <2>2
<1> QED
  BY <1>0, <1>2, <1>3, <1>4, <1>5 DEF NoLostWakeup

-----------------------------------------------------------------------------
(* What is registered, and under which id a Job is made                    *)

\* Only its own step moves a call on.
LEMMA OwnStep ==
  ASSUME Types, [Next]_vars, NEW c \in Calls
  PROVE  (pc'[c] = pc[c] /\ stage'[c] = stage[c]) \/ Start(c) \/ CallStep(c)
<1> USE DEF vars, callVars
<1>1. ASSUME NEW d \in Calls, d # c, Start(d) \/ CallStep(d)
      PROVE  pc'[c] = pc[c] /\ stage'[c] = stage[c]
  <2>1. ASSUME NEW o, Finish(d, o)  PROVE pc'[c] = pc[c] /\ stage'[c] = stage[c]
    BY <1>1, <2>1 DEF Finish, Types
  <2>2. CASE \E o : Finish(d, o)
    BY <2>1, <2>2
  <2>3. CASE ~\E o : Finish(d, o)
    BY <1>1, <2>3 DEF Start, CallStep, Register, Send, SendFails, Returned, CallTimeout, FindJob,
       MakeJob, JobResult, Types
  <2> QED
    BY <2>2, <2>3
<1>2. CASE Receive
  BY <1>2 DEF Receive, TakeAnswer, TakeEvent
<1>3. ASSUME NEW u \in Threads, CloseSocket(u) \/ OnClose(u)  PROVE UNCHANGED <<pc, stage>>
  BY <1>3 DEF CloseSocket, OnClose, ListCalls, WakeCalls, WakeFinds, WakeJob, Closed, LoopBreaks
<1>4. CASE \/ Handshake \/ Constructed \/ HandshakeTimeout \/ JobsCallback \/ Drop \/ Notice
           \/ CloseFrame \/ Teardown
           \/ (\E r \in Requests : Serve(r)) \/ (\E d \in Calls : JobEnds(d)) \/ UNCHANGED vars
  BY <1>4 DEF Handshake, Constructed, HandshakeTimeout, JobsCallback, Drop, Notice, CloseFrame,
     Teardown, Serve, JobEnds
<1> QED
  BY <1>1, <1>2, <1>3, <1>4 DEF Next, Threads

\* _calls holds the request in progress, and pings whose send failed.
LEMMA InProgressStep ==
  Types /\ RequestsFit /\ CallsAreInProgress /\ [Next]_vars => CallsAreInProgress'
<1> SUFFICES ASSUME Types, RequestsFit, CallsAreInProgress, [Next]_vars, NEW r \in calls'
             PROVE  \/ pc'[r[1]] \in {"send", "wait"} /\ r = Current(r[1])'
                    \/ r[1] \in Pings /\ outcome'[r[1]] = "error"
  BY DEF CallsAreInProgress
<1>0. r \in Requests
  BY TypesStep DEF Types
<1>1. PICK c \in Calls : c = r[1]
  BY <1>0 DEF Requests
<1>2. ASSUME NEW d \in Calls, Register(d), r = Current(d)
      PROVE  pc'[c] \in {"send", "wait"} /\ r = Current(c)'
  <2>1. c = d
    BY <1>1, <1>2 DEF Current
  <2> QED
    BY <1>2, <2>1 DEF Register, Current, Types
<1>3. CASE c \in Pings /\ outcome[c] = "error"
  <2>1. pc[c] = "done"
    BY <1>3 DEF RequestsFit
  <2>2. outcome'[c] = outcome[c]
    BY <2>1, OutcomesCome
  <2> QED
    BY <1>1, <1>3, <2>2
<1>4. CASE pc[c] \in {"send", "wait"} /\ r = Current(c)
  <2>1. CASE pc'[c] = pc[c] /\ stage'[c] = stage[c]
    BY <1>1, <1>4, <2>1 DEF Current
  <2>2. CASE Send(c)
    <3>1. pc'[c] = "wait" /\ stage' = stage
      BY <2>2 DEF Send, Types
    <3> QED
      BY <1>1, <1>4, <3>1 DEF Current
  <2>3. CASE SendFails(c)
    <3>1. c \in Pings
      BY <1>4, <2>3 DEF SendFails
    <3>2. outcome'[c] = "error"
      BY <2>3 DEF SendFails, Finish, Types
    <3> QED
      BY <1>1, <3>1, <3>2
  <2>4. ~(Returned(c) \/ CallTimeout(c))
    BY <1>4 DEF Returned, CallTimeout
  <2>5. ~(Start(c) \/ Register(c) \/ FindJob(c) \/ MakeJob(c) \/ JobResult(c))
    BY <1>4 DEF Start, Register, FindJob, MakeJob, JobResult
  <2> QED
    BY <2>1, <2>2, <2>3, <2>4, <2>5, OwnStep DEF CallStep
<1>5. r \in calls => (c \in Pings /\ outcome[c] = "error") \/ (pc[c] \in {"send", "wait"} /\ r = Current(c))
  BY <1>1 DEF CallsAreInProgress
<1> QED
  BY <1>0, <1>1, <1>2, <1>3, <1>4, <1>5, CallsGrow

\* A Job is made by a call that has its answer.
LEMMA AsksForJob ==
  ASSUME Types, [Next]_vars, NEW c \in Calls,
         pc'[c] \in {"job", "making", "jobwait"}, pc[c] \notin {"job", "making", "jobwait"}
  PROVE  /\ answer[<<c, "method">>] \in {"result", "jobid"}
         /\ c \in JobCalls /\ stage[c] = "method"
         /\ UNCHANGED <<answer, stage>>
<1>1. ~(Start(c) \/ Register(c) \/ Send(c) \/ FindJob(c) \/ MakeJob(c) \/ JobResult(c))
  BY DEF Start, Register, Send, FindJob, MakeJob, JobResult, Types
<1>2. ~\E o : Finish(c, o)
  BY DEF Finish, Types
<1>3. Returned(c)
  BY <1>1, <1>2, OwnStep DEF CallStep, SendFails, CallTimeout
<1>4. pc' # [pc EXCEPT ![c] = "register"]
  BY DEF Types
<1>5. /\ stage[c] = "method" /\ c \in JobCalls /\ stage' = stage
      /\ answer[Current(c)] \in {"result", "jobid"}
  BY <1>2, <1>3, <1>4 DEF Returned
<1>6. answer' = answer
  BY <1>3 DEF Returned
<1> QED
  BY <1>5, <1>6 DEF Current

\* The answer that names the job of a call stays.
LEMMA JobIsNamedStep ==
  Types /\ WaitsFit /\ EventsFit /\ JobIsNamedByItsId /\ [Next]_vars => JobIsNamedByItsId'
<1> SUFFICES ASSUME Types, WaitsFit, EventsFit, JobIsNamedByItsId, [Next]_vars,
                    NEW c \in JobCalls, pc'[c] \in {"job", "making", "jobwait"}
             PROVE  answer'[<<c, "method">>] = "jobid"
  BY DEF JobIsNamedByItsId
<1>0. c \in Calls /\ <<c, "method">> \in Requests
  BY ThreadsAssumption, CurrentType
<1>1. CASE pc[c] \in {"job", "making", "jobwait"}
  <2>1. answer[<<c, "method">>] = "jobid"
    BY <1>1 DEF JobIsNamedByItsId
  <2>2. <<c, "method">> \notin calls
    BY <2>1 DEF WaitsFit
  <2> QED
    BY <1>0, <2>1, <2>2, AnswersCome
<1>2. CASE pc[c] \notin {"job", "making", "jobwait"}
  BY <1>0, <1>2, AsksForJob DEF EventsFit
<1> QED
  BY <1>1, <1>2
-----------------------------------------------------------------------------
(* Events and jobs                                                         *)

\* A job does not go back to nothing.
LEMMA JobsStay ==
  ASSUME Types, RequestsFit, [Next]_vars, NEW c \in Calls, job[c] # "none"
  PROVE  job'[c] # "none"
<1> USE DEF vars, serverVars
<1>1. ASSUME NEW d \in Calls, Start(d) \/ CallStep(d)  PROVE UNCHANGED job
  BY <1>1 DEF Start, CallStep, Register, Send, SendFails, Returned, CallTimeout, FindJob,
     MakeJob, JobResult
<1>2. CASE Receive
  BY <1>2 DEF Receive, TakeAnswer, TakeEvent
<1>3. ASSUME NEW u \in Threads, CloseSocket(u) \/ OnClose(u)  PROVE UNCHANGED job
  BY <1>3 DEF CloseSocket, OnClose, ListCalls, WakeCalls, WakeFinds, WakeJob, Closed, LoopBreaks
<1>4. CASE \/ Handshake \/ Constructed \/ HandshakeTimeout \/ JobsCallback \/ Drop \/ Notice
           \/ CloseFrame \/ Teardown
           \/ UNCHANGED vars
  BY <1>4 DEF Handshake, Constructed, HandshakeTimeout, JobsCallback, Drop, Notice, CloseFrame,
     Teardown
<1>5. ASSUME NEW r \in Requests, Serve(r)  PROVE job'[c] # "none"
  <2>1. PICK v \in Answers(r) : job' = [job EXCEPT ![r[1]] = IF v = "job" THEN "running" ELSE @]
    BY <1>5 DEF Serve
  <2> QED
    BY <2>1 DEF Types
<1>6. ASSUME NEW d \in Calls, JobEnds(d)  PROVE job'[c] # "none"
  BY <1>6 DEF JobEnds, Types, Ended
<1> QED
  BY <1>1, <1>2, <1>3, <1>4, <1>5, <1>6 DEF Next, Threads

\* Messages arrive on an open socket, one at a time.
LEMMA MessagesCome ==
  ASSUME Types, [Next]_vars
  PROVE  \/ taken' = taken
         \/ sock = "up" /\ \E r \in Requests : TakeAnswer(r) /\ taken' = taken \cup {<<"answer", r>>}
         \/ sock = "up" /\ \E c \in Calls, kind \in {"added", "ended"} :
              TakeEvent(kind, c) /\ taken' = taken \cup {<<kind, c>>}
<1> USE DEF vars, serverVars
<1>1. ASSUME NEW d \in Calls, Start(d) \/ CallStep(d)  PROVE UNCHANGED taken
  BY <1>1 DEF Start, CallStep, Register, Send, SendFails, Returned, CallTimeout, FindJob,
     MakeJob, JobResult
<1>2. CASE Receive
  BY <1>2 DEF Receive, TakeAnswer, TakeEvent, Receivable
<1>3. ASSUME NEW u \in Threads, CloseSocket(u) \/ OnClose(u)  PROVE UNCHANGED taken
  BY <1>3 DEF CloseSocket, OnClose, ListCalls, WakeCalls, WakeFinds, WakeJob, Closed, LoopBreaks
<1>4. CASE \/ Handshake \/ Constructed \/ HandshakeTimeout \/ JobsCallback \/ Drop \/ Notice
           \/ CloseFrame \/ Teardown
           \/ (\E r \in Requests : Serve(r)) \/ (\E d \in Calls : JobEnds(d)) \/ UNCHANGED vars
  BY <1>4 DEF Handshake, Constructed, HandshakeTimeout, JobsCallback, Drop, Notice, CloseFrame,
     Teardown, Serve, JobEnds
<1> QED
  BY <1>1, <1>2, <1>3, <1>4 DEF Next, Threads

\* The style of jobs is settled by the handshake.
LEMMA StyleStep ==
  ASSUME Types, [Next]_vars
  PROVE  newStyle' = newStyle \/ (sock = "connecting" /\ taken' = taken)
<1> USE DEF vars, clientVars, serverVars
<1>1. ASSUME NEW d \in Calls, Start(d) \/ CallStep(d)  PROVE UNCHANGED newStyle
  BY <1>1 DEF Start, CallStep, Register, Send, SendFails, Returned, CallTimeout, FindJob,
     MakeJob, JobResult
<1>2. CASE Receive
  BY <1>2 DEF Receive, TakeAnswer, TakeEvent
<1>3. ASSUME NEW u \in Threads, CloseSocket(u) \/ OnClose(u)  PROVE UNCHANGED newStyle
  BY <1>3 DEF CloseSocket, OnClose, ListCalls, WakeCalls, WakeFinds, WakeJob, Closed, LoopBreaks
<1>4. CASE \/ Handshake \/ Constructed \/ HandshakeTimeout \/ JobsCallback \/ Drop \/ Notice
           \/ CloseFrame \/ Teardown
           \/ (\E r \in Requests : Serve(r)) \/ (\E d \in Calls : JobEnds(d)) \/ UNCHANGED vars
  BY <1>4 DEF Handshake, Constructed, HandshakeTimeout, JobsCallback, Drop, Notice, CloseFrame,
     Teardown, Serve, JobEnds
<1> QED
  BY <1>1, <1>2, <1>3, <1>4 DEF Next, Threads

\* An event is about a job whose call has been answered, in the new style, and a
\* job=True call never gets the result of its job for an answer.
LEMMA EventsStep == Types /\ RequestsFit /\ EventsFit /\ [Next]_vars => EventsFit'
<1> SUFFICES ASSUME Types, RequestsFit, EventsFit, [Next]_vars  PROVE EventsFit'
  OBVIOUS
<1>1. ASSUME sock' = "connecting"  PROVE taken' = {}
  BY <1>1, SocketStep, MessagesCome DEF EventsFit
<1>2. ASSUME NEW c \in Calls, NEW kind \in {"added", "ended"}, <<kind, c>> \in taken'
      PROVE  job'[c] # "none" /\ (newStyle' => <<c, "method">> \notin calls')
  <2>0. PICK q \in Requests : q = <<c, "method">>
    BY CurrentType
  <2>1. CASE <<kind, c>> \in taken
    <3>1. job[c] # "none" /\ (newStyle => q \notin calls)
      BY <2>0, <2>1 DEF EventsFit
    <3>2. newStyle' = newStyle
      BY <2>1, StyleStep DEF EventsFit
    <3>3. ASSUME NEW d \in Calls, Register(d), q = Current(d)  PROVE FALSE
      <4>1. d = c /\ stage[c] = "method" /\ pc[c] = "register"
        BY <2>0, <3>3 DEF Current, Register
      <4>2. verdict[q] = "none"
        BY <2>0, <4>1 DEF RequestsFit, Unasked, Unknown, Stages
      <4> QED
        BY <2>0, <3>1, <4>2 DEF RequestsFit
    <3>4. newStyle' => q \notin calls'
      BY <3>1, <3>2, <3>3, CallsGrow
    <3> QED
      BY <2>0, <3>1, <3>4, JobsStay
  <2>2. CASE TakeEvent(kind, c)
    <3>1. job[c] # "none"
      BY <2>2 DEF TakeEvent, Receivable, Sent, Ended
    <3>2. newStyle' = newStyle /\ (newStyle => Resolve(q, "jobid"))
      BY <2>0, <2>2 DEF TakeEvent
    <3>3. newStyle => q \notin calls'
      BY <3>2, ResolveOnly
    <3> QED
      BY <2>0, <3>1, <3>2, <3>3, JobsStay
  <2>3. <<kind, c>> \in taken \/ TakeEvent(kind, c)
    BY <1>2, MessagesCome
  <2> QED
    BY <2>1, <2>2, <2>3
<1>3. ASSUME NEW c \in JobCalls
      PROVE  verdict'[<<c, "method">>] # "ran" /\ answer'[<<c, "method">>] # "result"
  <2>0. c \in Calls
    BY ThreadsAssumption
  <2>1. PICK q \in Requests : q = <<c, "method">>
    BY <2>0, CurrentType
  <2>2. verdict[q] # "ran" /\ answer[q] # "result"
    BY <2>1 DEF EventsFit
  <2>3. "ran" \notin Answers(q)
    BY <2>1 DEF Answers
  <2>4. verdict'[q] # "ran"
    BY <2>2, <2>3, VerdictsCome
  <2>5. ASSUME q \in calls, TakeAnswer(q)  PROVE AnswerOf(q) # "result"
    <3>1. Sent(<<"answer", q>>)
      BY <2>5 DEF TakeAnswer, Receivable
    <3>2. (verdict[q] = "job" /\ newStyle) => <<"ended", c>> \in taken
      BY <2>1, <3>1 DEF Sent
    <3>3. ~(verdict[q] = "job" /\ newStyle)
      BY <2>0, <2>1, <2>5, <3>2 DEF EventsFit
    <3> QED
      BY <2>2, <3>3 DEF AnswerOf
  <2>6. answer'[q] # "result"
    BY <2>2, <2>5, AnswersCome
  <2> QED
    BY <2>1, <2>4, <2>6
<1> QED
  BY <1>1, <1>2, <1>3 DEF EventsFit

\* While the socket is there, the loop of on_close() is that of a close frame.
LEMMA LoopFitsStep ==
  ASSUME Types, ClosesFit, JobsFit, [Next]_vars, sock' # "down"
  PROVE  LoopFits'
<1> SUFFICES ASSUME frame' = "read", tpc'[WS] = "wake", found'[WS][1] = "none",
                    state'[found'[WS][2]] \in Ended
             PROVE  FALSE
  BY DEF LoopFits
<1> USE DEF vars, clientVars, jobVars, threadVars
<1>0. /\ sock # "down" /\ WS \in Threads
      /\ \A t \in Threads : tpc[t] \in ClosingSteps => t = WS /\ frame = "read"
  BY SocketStep DEF ClosesFit, Threads
<1>1. LoopFits /\ \A c \in Calls : JobFits(c)
  BY <1>0 DEF JobsFit
<1>2. tpc[WS] \in ClosingSteps /\ frame = "read"
  <2>1. tpc[WS] \in ClosingSteps
    BY <1>0, ThreadsMove DEF ClosingSteps
  <2> QED
    BY <1>0, <2>1
<1>3. CASE WakeFinds(WS)
  <2>1. PICK c \in table \ seen[WS] : found' = [found EXCEPT ![WS] = <<ready[c], c>>]
    BY <1>3 DEF WakeFinds
  <2>2. c \in Calls /\ found'[WS] = <<ready[c], c>> /\ state' = state
    BY <1>0, <1>3, <2>1 DEF Types, WakeFinds
  <2>3. ready[c] = "none" /\ state[c] \in Ended
    BY <2>2
  <2> QED
    BY <1>1, <2>2, <2>3 DEF JobFits
<1>4. ASSUME tpc'[WS] = tpc[WS], found'[WS] = found[WS],
             state'[found[WS][2]] = state[found[WS][2]] \/ state'[found[WS][2]] = "none"
      PROVE  FALSE
  BY <1>1, <1>2, <1>4 DEF LoopFits, Ended
<1>5. ASSUME NEW d \in Calls, Start(d) \/ CallStep(d)
      PROVE  UNCHANGED <<tpc, found>> /\ (state' = state \/ state' = [state EXCEPT ![d] = "none"])
  BY <1>5 DEF Start, CallStep, Register, Send, SendFails, Returned, CallTimeout, FindJob,
     MakeJob, JobResult
<1>6. ASSUME NEW d \in Calls, Start(d) \/ CallStep(d)  PROVE FALSE
  <2>1. tpc[WS] = "wake"
    BY <1>5, <1>6
  <2>2. found[WS][2] \in Calls
    BY <1>0, <2>1 DEF Types
  <2> QED
    BY <1>4, <1>5, <1>6, <2>2 DEF Types
<1>7. ASSUME Receive \/ JobsCallback \/ Notice \/ CloseFrame \/ Teardown  PROVE FALSE
  BY <1>0, <1>2, <1>7 DEF Receive, TakeAnswer, TakeEvent, Receivable, JobsCallback, Notice,
     CloseFrame, Teardown, ClosingSteps
<1>8. ASSUME NEW t \in Threads, CloseSocket(t)  PROVE FALSE
  BY <1>8 DEF CloseSocket
<1>9. ASSUME NEW t \in Threads, OnClose(t)  PROVE FALSE
  <2>1. t = WS
    BY <1>0, <1>9 DEF OnClose, ListCalls, WakeCalls, WakeFinds, WakeJob, Closed, LoopBreaks,
       ClosingSteps
  <2>2. WakeFinds(WS)
    BY <1>0, <1>9, <2>1 DEF OnClose, ListCalls, WakeCalls, WakeJob, Closed, LoopBreaks, Types
  <2> QED
    BY <1>3, <2>2
<1>10. ASSUME \/ Handshake \/ Constructed \/ HandshakeTimeout \/ Drop
              \/ (\E r \in Requests : Serve(r)) \/ (\E d \in Calls : JobEnds(d)) \/ UNCHANGED vars
       PROVE  FALSE
  BY <1>4, <1>10 DEF Handshake, Constructed, HandshakeTimeout, Drop, Serve, JobEnds
<1> QED
  BY <1>6, <1>7, <1>8, <1>9, <1>10 DEF Next, Threads

\* While the socket is there, the Event of a job that ended is set, and its caller's.
LEMMA JobsFitStep == Types /\ ClosesFit /\ JobsFit /\ [Next]_vars => JobsFit'
<1> SUFFICES ASSUME Types, ClosesFit, JobsFit, [Next]_vars, sock' # "down", NEW c \in Calls
             PROVE  JobFits(c)'
  BY LoopFitsStep DEF JobsFit
<1> USE DEF vars, clientVars, jobVars, callVars
<1>0. /\ sock # "down" /\ WS \in Threads
      /\ \A t \in Threads : tpc[t] \in ClosingSteps => t = WS /\ frame = "read"
  BY SocketStep DEF ClosesFit, Threads
<1>1. LoopFits /\ JobFits(c)
  BY <1>0 DEF JobsFit
<1>a. frame = "read" => frame' = "read"
  BY FrameStep DEF CloseFrame, Teardown
<1> DEFINE Same == /\ ready'[c] = ready[c] /\ held'[c] = held[c] /\ state'[c] = state[c]
                   /\ fired \subseteq fired'
                   /\ pc'[c] = pc[c] \/ pc'[c] \notin {"making", "jobwait"}
<1>2. ASSUME Same  PROVE JobFits(c)'
  BY <1>1, <1>2, <1>a DEF JobFits
<1>3. ASSUME NEW d \in Calls,
             Start(d) \/ Register(d) \/ Send(d) \/ SendFails(d) \/ Returned(d) \/ CallTimeout(d)
      PROVE  Same
  <2>1. UNCHANGED jobVars
    BY <1>3 DEF Start, Register, Send, SendFails, Returned, CallTimeout
  <2>2. \E p \in CallSteps \ {"making", "jobwait"} : pc' = [pc EXCEPT ![d] = p]
    BY <1>3 DEF Start, Register, Send, SendFails, Returned, CallTimeout, Finish, CallSteps
  <2>3. pc'[c] = pc[c] \/ pc'[c] \notin {"making", "jobwait"}
    BY <2>2 DEF Types
  <2> QED
    BY <2>1, <2>3
<1>4. ASSUME NEW d \in Calls, d # c, FindJob(d) \/ MakeJob(d)  PROVE Same
  BY <1>4 DEF FindJob, MakeJob, Types
<1>5. CASE FindJob(c)
  <2>1. pc'[c] = "making" /\ held'[c] = ready[c] /\ UNCHANGED <<ready, fired, state>>
    BY <1>5 DEF FindJob, Types
  <2> QED
    BY <1>1, <2>1 DEF JobFits
<1>6. CASE MakeJob(c)
  <2>1. pc[c] = "making" /\ pc'[c] = "jobwait" /\ UNCHANGED <<fired, state>>
    BY <1>6 DEF MakeJob, Types
  <2>2. CASE held[c] = "none"
    <3>1. held'[c] = c /\ ready'[c] = c
      BY <1>6, <2>2 DEF MakeJob, Types
    <3>2. c # "none"
      BY ThreadsAssumption
    <3>3. state[c] \notin Ended
      BY <1>1, <2>1, <2>2 DEF JobFits
    <3> QED
      BY <2>1, <3>1, <3>2, <3>3 DEF JobFits
  <2>3. CASE held[c] # "none"
    <3>1. UNCHANGED <<held, ready>>
      BY <1>6, <2>3 DEF MakeJob
    <3> QED
      BY <1>1, <1>a, <2>1, <2>3, <3>1 DEF JobFits
  <2> QED
    BY <2>2, <2>3
<1>7. ASSUME NEW d \in Calls, JobResult(d)  PROVE JobFits(c)'
  <2>1. /\ ready' = [ready EXCEPT ![d] = "none"] /\ state' = [state EXCEPT ![d] = "none"]
        /\ UNCHANGED <<held, fired>>
    BY <1>7 DEF JobResult
  <2>2. pc' = [pc EXCEPT ![d] = "done"]
    BY <1>7 DEF JobResult, Finish
  <2>3. CASE d = c
    <3>1. state'[c] = "none" /\ pc'[c] = "done"
      BY <2>1, <2>2, <2>3 DEF Types
    <3> QED
      BY <3>1 DEF JobFits, Ended
  <2>4. CASE d # c
    BY <1>2, <2>1, <2>2, <2>4 DEF Types
  <2> QED
    BY <2>3, <2>4
<1>8. ASSUME Receive  PROVE Same
  BY <1>8 DEF Receive, TakeAnswer, TakeEvent
<1>9. CASE JobsCallback /\ event[2] # c
  <2>1. event[2] \in Calls
    BY <1>9 DEF JobsCallback, Types
  <2>2. state'[c] = state[c] /\ ready'[c] = ready[c] /\ UNCHANGED <<held, pc>>
    BY <1>9, <2>1 DEF JobsCallback, Types
  <2>3. fired \subseteq fired'
    BY <1>9 DEF JobsCallback
  <2> QED
    BY <1>2, <2>2, <2>3
<1>10. CASE JobsCallback /\ event[2] = c
  <2> DEFINE e == IF ready[c] = "none" THEN WS ELSE ready[c]
  <2>1. /\ state' = [state EXCEPT ![c] = IF event[1] = "ended" THEN job[c] ELSE "running"]
        /\ ready' = [ready EXCEPT ![c] = IF event[1] = "ended" THEN e ELSE ready[c]]
        /\ fired' = IF event[1] = "ended" THEN fired \cup {<<e, c>>} ELSE fired
        /\ pc[c] # "making"
        /\ UNCHANGED <<held, pc, frame>>
    BY <1>10 DEF JobsCallback
  <2>2. e # "none" /\ (ready[c] # "none" => e = ready[c])
    BY ThreadsAssumption
  <2>a. frame # "read"
    BY <1>10 DEF JobsCallback, ClosesFit, ClosingSteps
  <2> HIDE DEF e
  <2>3. CASE event[1] = "ended"
    <3>1. ready'[c] = e /\ <<e, c>> \in fired'
      BY <2>1, <2>3 DEF Types
    <3> QED
      BY <1>1, <2>1, <2>2, <2>a, <3>1 DEF JobFits
  <2>4. CASE event[1] # "ended"
    <3>1. state'[c] = "running" /\ ready'[c] = ready[c]
      BY <2>1, <2>4 DEF Types
    <3> QED
      BY <1>1, <2>1, <2>a, <3>1 DEF JobFits, Ended
  <2> QED
    BY <2>3, <2>4
<1>11. ASSUME NEW t \in Threads, OnClose(t)  PROVE JobFits(c)'
  <2>1. t = WS /\ frame = "read"
    BY <1>0, <1>11 DEF OnClose, ListCalls, WakeCalls, WakeFinds, WakeJob, Closed, LoopBreaks,
       ClosingSteps
  <2>2. CASE ~WakeJob(t)
    <3>1. Same
      BY <1>11, <2>2 DEF OnClose, ListCalls, WakeCalls, WakeFinds, Closed, LoopBreaks
    <3> QED
      BY <1>2, <3>1
  <2>3. CASE WakeJob(t)
    <3>1. /\ fired \subseteq fired' /\ UNCHANGED <<held, state, pc, frame>>
          /\ tpc[WS] = "wake"
      BY <2>1, <2>3 DEF WakeJob
    <3>2. found[WS][1] = "none" => state[found[WS][2]] \notin Ended
      BY <1>1, <2>1, <3>1 DEF LoopFits
    <3>3. ready'[c] = ready[c] \/ (found[WS][1] = "none" /\ found[WS][2] = c)
      BY <2>1, <2>3 DEF WakeJob, Types
    <3>4. CASE ready'[c] = ready[c]
      <4>1. Same
        BY <3>1, <3>4
      <4> QED
        BY <1>2, <4>1
    <3>5. CASE found[WS][1] = "none" /\ found[WS][2] = c
      BY <2>1, <3>1, <3>2, <3>5 DEF JobFits
    <3> QED
      BY <3>3, <3>4, <3>5
  <2> QED
    BY <2>2, <2>3
<1>12. ASSUME NEW t \in Threads, CloseSocket(t)  PROVE FALSE
  BY <1>12 DEF CloseSocket
<1>13. ASSUME \/ Handshake \/ Constructed \/ HandshakeTimeout \/ Drop \/ Notice
              \/ CloseFrame \/ Teardown
              \/ (\E r \in Requests : Serve(r)) \/ (\E d \in Calls : JobEnds(d)) \/ UNCHANGED vars
       PROVE  Same
  BY <1>13 DEF Handshake, Constructed, HandshakeTimeout, Drop, Notice, CloseFrame, Teardown,
     Serve, JobEnds
<1>14. CASE \E d \in Calls : Start(d) \/ CallStep(d)
  BY <1>2, <1>3, <1>4, <1>5, <1>6, <1>7, <1>14 DEF CallStep
<1> HIDE DEF Same
<1> QED
  BY <1>2, <1>8, <1>9, <1>10, <1>11, <1>12, <1>13, <1>14 DEF Next, Threads

-----------------------------------------------------------------------------
(* The theorems                                                            *)

\* The client as it is made.
LEMMA InitRInv == Init => RInv
<1> SUFFICES ASSUME Init  PROVE RInv
  OBVIOUS
<1>1. Types
  BY InitTypes
<1>2. frame = "none" /\ \A t \in Threads : tpc[t] = "idle" /\ todo[t] = {}
  BY DEF Init
<1>3. \A c \in Calls : /\ pc[c] = "new" /\ job[c] = "none" /\ outcome[c] = "none"
                       /\ state[c] = "none"
  BY DEF Init
<1>4. \A r \in Requests : answer[r] = "none" /\ verdict[r] = "none"
  BY DEF Init
<1>5. calls = {} /\ taken = {}
  BY DEF Init
<1>6. RequestsFit
  BY <1>2, <1>3, <1>4, <1>5 DEF RequestsFit, Unknown, Requests
<1>7. WaitsFit /\ CallsAreInProgress
  BY <1>3, <1>5 DEF WaitsFit, CallsAreInProgress
<1>8. ClosesFit /\ NoLostWakeup
  BY <1>2 DEF ClosesFit, NoLostWakeup, ClosingSteps
<1>9. EventsFit
  BY <1>4, <1>5, CurrentType, ThreadsAssumption DEF EventsFit, Requests, Stages
<1>10. JobsFit /\ JobIsNamedByItsId
  BY <1>2, <1>3, ThreadsAssumption DEF JobsFit, JobFits, LoopFits, JobIsNamedByItsId, Ended
<1> QED
  BY <1>1, <1>6, <1>7, <1>8, <1>9, <1>10 DEF RInv

\* The invariant is inductive.
LEMMA Invariance == Spec => []RInv
<1>1. RInv /\ [Next]_vars => RInv'
  BY TypesStep, RequestsStep, WaitsStep, ClosesStep, EventsStep, JobsFitStep, InProgressStep,
     WakeupStep, JobIsNamedStep DEF RInv
<1> QED
  BY <1>1, InitRInv, PTL DEF Spec

\* Type correctness: of the client's tables, its threads and the server's answers
\* (JSONRPCClient and Job).
THEOREM TypeCorrect == Spec => []TypeOK
<1>1. Types => TypeOK
  <2> SUFFICES ASSUME Types  PROVE TypeOK
    OBVIOUS
  <2>1. {connected, newStyle, watching, closed} \subseteq BOOLEAN
    BY Zenon DEF Types
  <2>2. {ready[c] : c \in Calls} \cup {held[c] : c \in Calls} \subseteq {"none"} \cup Makers
    BY DEF Types, MakersOrNone
  <2>3. \A t \in Threads : found[t] # <<>> => found[t] \in ({"none"} \cup Makers) \X Calls
    BY DEF Types, MakersOrNone
  <2> QED
    BY <2>1, <2>2, <2>3
       DEF Types, TypeOK, AnswerTypes, CallSteps, ThreadSteps, ClosingSteps, JobStates
<1> QED
  BY <1>1, Invariance, PTL DEF RInv

\* Nobody is left waiting for an answer after on_close() (__init__.py 659-680, 809-823).
THEOREM NobodyMissesTheDrop == Spec => []NoLostWakeup
  BY Invariance, PTL DEF RInv

\* A Job is made from the id of its job (__init__.py 516-527, 799-808).
THEOREM JobsAreNamed == Spec => []JobIsNamedByItsId
  BY Invariance, PTL DEF RInv

\* _calls does not grow, but for pings whose send failed (__init__.py 829-831).
THEOREM CallsFit == Spec => []CallsAreInProgress
  BY Invariance, PTL DEF RInv

\* The end of a job is not missed while the connection is up (__init__.py 317-325, 721-734).
THEOREM EndedJobsAreReady == Spec => []EndedJobIsReady
<1>1. JobsFit => EndedJobIsReady
  BY ThreadsAssumption DEF JobsFit, JobFits, EndedJobIsReady
<1> QED
  BY <1>1, Invariance, PTL DEF RInv

-----------------------------------------------------------------------------
(* The refinement: a call on a connection ends as TrueNASClient assumes.   *)

(* What the answers, the requests and the jobs of a call have to do with   *)
(* each other, beyond the invariant above.                                 *)

\* There is a socket, and no close frame has been read.
Open == sock # "down" /\ frame # "read"

\* An answer is what the server made of the request, or the close; the end of a
\* job is no answer, for its "added" event has been one.
AnswersFit == \A q \in Requests :
  /\ answer[q] = "result" => verdict[q] = "ran"
  /\ answer[q] = "jobid" => verdict[q] = "job"
  /\ answer[q] = "unauth" => verdict[q] = "unauth"
  /\ answer[q] = "error" => verdict[q] = "failed"
  /\ answer[q] = "closed" => ~Open
  /\ verdict[q] = "job" => q[2] = "method"

\* The websocket thread has set self._connected in on_close().
Past == {"calls", "jobs", "wake", "done"}

\* The style of jobs is known before the first call, which subscribes for a
\* reason; only a job=True call gets to its Job.
StagesFit ==
  /\ connected => sock # "connecting" \/ tpc[WS] \in Past
  /\ ctor = "ok" => sock # "connecting"
  /\ \A c \in Calls :
       /\ pc[c] # "new" => ctor = "ok"
       /\ stage[c] = "subscribe" => pc[c] # "new" /\ (newStyle \/ c \in JobCalls)
       /\ pc[c] \in {"job", "making", "jobwait"} => c \in JobCalls /\ stage[c] = "method"

\* A job's events come in order and its state follows them; while the socket is
\* open, only its end sets its Event.
StatesFit ==
  /\ \A c \in Calls :
       /\ <<"ended", c>> \in taken => job[c] \in Ended /\ <<"added", c>> \in taken
       /\ tpc[WS] = "event" /\ event = <<"added", c>> => <<"ended", c>> \notin taken
       /\ tpc[WS] = "event" /\ event = <<"ended", c>> => <<"ended", c>> \in taken
       /\ state[c] \in Ended => state[c] = job[c] /\ <<"ended", c>> \in taken
  /\ \A c \in Calls, e \in Makers :
       Open /\ <<e, c>> \in fired => state[c] \in Ended \/ pc[c] = "done"
-----------------------------------------------------------------------------
(* These are invariant                                                     *)

\* What the server made of a request stays, once it is made.
LEMMA VerdictStays ==
  ASSUME Types, RequestsFit, [Next]_vars, NEW q \in Requests,
         verdict[q] \notin {"none", "sent"}
  PROVE  verdict'[q] = verdict[q]
<1>1. ASSUME NEW c \in Calls, Send(c), q = Current(c)  PROVE FALSE
  BY <1>1 DEF RequestsFit, Send
<1> QED
  BY <1>1, VerdictsCome

\* So does a job that has ended.
LEMMA EndedJobStays ==
  ASSUME Types, RequestsFit, [Next]_vars, NEW c \in Calls, job[c] \in Ended
  PROVE  job'[c] = job[c]
<1>1. verdict[<<c, "method">>] = "job"
  BY DEF RequestsFit, Ended
<1> QED
  BY <1>1, JobsCome DEF Ended

\* What is not open does not open again.
LEMMA OpenStep ==
  ASSUME Types, [Next]_vars, Open'
  PROVE  Open
  BY SocketStep, FrameStep DEF Open, CloseFrame, Teardown

\* An answer stays true to what the server made of the request.
LEMMA AnswersFitStep ==
  RInv /\ AnswersFit /\ [Next]_vars => AnswersFit'
<1> SUFFICES ASSUME RInv, AnswersFit, [Next]_vars, NEW q \in Requests
             PROVE  /\ answer'[q] = "result" => verdict'[q] = "ran"
                    /\ answer'[q] = "jobid" => verdict'[q] = "job"
                    /\ answer'[q] = "unauth" => verdict'[q] = "unauth"
                    /\ answer'[q] = "error" => verdict'[q] = "failed"
                    /\ answer'[q] = "closed" => ~Open'
                    /\ verdict'[q] = "job" => q[2] = "method"
  BY DEF AnswersFit
<1>0. Types /\ RequestsFit /\ ClosesFit /\ EventsFit
  BY DEF RInv
<1>1. ASSUME answer'[q] = answer[q]
      PROVE  /\ answer'[q] = "result" => verdict'[q] = "ran"
             /\ answer'[q] = "jobid" => verdict'[q] = "job"
             /\ answer'[q] = "unauth" => verdict'[q] = "unauth"
             /\ answer'[q] = "error" => verdict'[q] = "failed"
             /\ answer'[q] = "closed" => ~Open'
  <2>1. answer[q] \in {"result", "jobid", "unauth", "error"} => verdict'[q] = verdict[q]
    BY <1>0, VerdictStays DEF AnswersFit
  <2>2. Open' => Open
    BY <1>0, OpenStep
  <2> QED
    BY <1>1, <2>1, <2>2 DEF AnswersFit
<1>2. ASSUME q \in calls, TakeAnswer(q), answer'[q] = AnswerOf(q)
      PROVE  \/ answer'[q] = "result" /\ verdict'[q] = "ran"
             \/ answer'[q] = "jobid" /\ verdict'[q] = "job"
             \/ answer'[q] = "unauth" /\ verdict'[q] = "unauth"
             \/ answer'[q] = "error" /\ verdict'[q] = "failed"
  <2>1. Sent(<<"answer", q>>) /\ verdict' = verdict
    BY <1>2 DEF TakeAnswer, Receivable
  <2>2. /\ verdict[q] \in {"ran", "job", "failed", "unauth"}
        /\ verdict[q] = "job" /\ newStyle => <<"ended", q[1]>> \in taken
    BY <1>0, <2>1 DEF Sent, Types
  <2>3. ~(verdict[q] = "job" /\ newStyle)
    <3>1. CASE q[2] = "method"
      <4>1. q[1] \in Calls /\ q = <<q[1], "method">>
        BY <3>1 DEF Requests
      <4> QED
        BY <1>0, <1>2, <2>2, <4>1 DEF EventsFit
    <3> QED
      BY <3>1 DEF AnswersFit
  <2> QED
    BY <1>2, <2>1, <2>2, <2>3 DEF AnswerOf
<1>3. ASSUME NEW d \in Calls, NEW kind \in {"added", "ended"}, TakeEvent(kind, d), q = <<d, "method">>,
             answer'[q] = "jobid"
      PROVE  verdict'[q] = "job"
  <2>1. job[d] # "none"
    BY <1>3 DEF TakeEvent, Receivable, Sent, Ended
  <2>2. verdict' = verdict
    BY <1>3 DEF TakeEvent
  <2> QED
    BY <1>0, <1>3, <2>1, <2>2 DEF RequestsFit
<1>4. ASSUME NEW t \in Threads, WakeCalls(t)  PROVE ~Open'
  BY <1>0, <1>4, OpenStep DEF WakeCalls, ClosesFit, ClosingSteps, Open
<1>5. ASSUME verdict'[q] = "job"  PROVE q[2] = "method"
  <2>1. CASE verdict[q] = "job"
    BY <2>1 DEF AnswersFit
  <2>2. CASE verdict[q] # "job"
    <3>1. "job" \in Answers(q)
      BY <1>0, <1>5, <2>2, VerdictsCome
    <3> QED
      BY <3>1 DEF Answers
  <2> QED
    BY <2>1, <2>2
<1> QED
  BY <1>0, <1>1, <1>2, <1>3, <1>4, <1>5, AnswersCome

\* The constructor's end, and the sign of it, come after the handshake.
LEMMA CtorStep ==
  ASSUME Types, ClosesFit, [Next]_vars
  PROVE  /\ connected' => connected \/ sock' # "connecting" \/ tpc'[WS] \in Past
         /\ ctor' = "ok" => ctor = "ok" \/ (connected /\ tpc[WS] \notin Past)
         /\ ctor = "ok" => ctor' = "ok"
<1> USE DEF vars, clientVars
<1>1. ASSUME NEW d \in Calls, Start(d) \/ CallStep(d)  PROVE UNCHANGED <<connected, ctor>>
  BY <1>1 DEF Start, CallStep, Register, Send, SendFails, Returned, CallTimeout, FindJob,
     MakeJob, JobResult
<1>2. ASSUME Receive  PROVE UNCHANGED <<connected, ctor>>
  BY <1>2 DEF Receive, TakeAnswer, TakeEvent
<1>3. ASSUME NEW u \in Threads, CloseSocket(u) \/ OnClose(u)
      PROVE  ctor' = ctor /\ (connected' => connected \/ sock' # "connecting" \/ tpc'[WS] \in Past)
  <2>1. CASE ListCalls(u)
    <3>1. sock = "down" \/ u = WS
      BY <1>3, <2>1 DEF ListCalls, ClosesFit, ClosingSteps
    <3>2. tpc'[u] = "calls" /\ sock' = sock
      BY <1>3, <2>1 DEF ListCalls, Types
    <3> QED
      BY <2>1, <3>1, <3>2 DEF ListCalls, Past
  <2>2. CASE ~ListCalls(u)
    BY <1>3, <2>2 DEF CloseSocket, OnClose, WakeCalls, WakeFinds, WakeJob, Closed, LoopBreaks
  <2> QED
    BY <1>3, <2>1, <2>2 DEF ListCalls
<1>4. CASE Constructed
  BY <1>4 DEF Constructed, Past
<1>5. CASE \/ Handshake \/ HandshakeTimeout \/ JobsCallback \/ Drop \/ Notice
           \/ CloseFrame \/ Teardown
           \/ (\E r \in Requests : Serve(r)) \/ (\E d \in Calls : JobEnds(d)) \/ UNCHANGED vars
  BY <1>5 DEF Handshake, HandshakeTimeout, JobsCallback, Drop, Notice, CloseFrame, Teardown, Serve,
     JobEnds
<1>6. ASSUME NEW d \in Calls, CallStep(d) \/ Start(d)
      PROVE  connected' = connected /\ ctor' = ctor
  BY <1>1, <1>6
<1> QED
  BY <1>2, <1>3, <1>4, <1>5, <1>6 DEF Next, Threads

\* What is known of a call's place and stage stays.
LEMMA StagesFitStep == RInv /\ StagesFit /\ [Next]_vars => StagesFit'
<1> SUFFICES ASSUME RInv, StagesFit, [Next]_vars  PROVE StagesFit'
  OBVIOUS
<1>0. Types /\ ClosesFit
  BY DEF RInv
<1>1. connected' => sock' # "connecting" \/ tpc'[WS] \in Past
  <2>1. WS \in Threads
    BY DEF Threads
  <2>2. tpc[WS] \in Past => tpc'[WS] \in Past \/ sock' = "down"
    <3>1. tpc[WS] \in Past => tpc'[WS] \in ClosingSteps /\ tpc[WS] \notin {"idle", "notice"}
      BY <1>0, <2>1, ClosingStays DEF Past, ClosingSteps
    <3>2. WakeCalls(WS) => tpc'[WS] = "jobs"
      BY <1>0, <2>1 DEF WakeCalls, Types
    <3> QED
      BY <1>0, <2>1, <3>1, <3>2, ThreadsMove DEF Past, ClosingSteps
  <2>3. connected => sock' # "connecting" \/ tpc'[WS] \in Past
    BY <1>0, <2>2, SocketStep DEF StagesFit
  <2> QED
    BY <1>0, <2>3, CtorStep
<1>2. ctor' = "ok" => sock' # "connecting"
  BY <1>0, CtorStep, SocketStep, Zenon DEF StagesFit
<1>3. ASSUME NEW c \in Calls, pc'[c] # "new"  PROVE ctor' = "ok"
  <2>1. ctor = "ok"
    BY <1>0, <1>3, OwnStep DEF StagesFit, CallStep, Start, Register, Send, SendFails, Returned,
       CallTimeout, FindJob, MakeJob, JobResult
  <2> QED
    BY <1>0, <2>1, CtorStep
<1>4. ASSUME NEW c \in Calls, stage'[c] = "subscribe"
      PROVE  pc'[c] # "new" /\ (newStyle' \/ c \in JobCalls)
  <2>1. CASE Start(c)
    <3>1. ctor = "ok" /\ pc'[c] = "register" /\ (newStyle \/ c \in JobCalls) /\ newStyle' = newStyle
      BY <1>0, <1>4, <2>1 DEF Start, Types
    <3> QED
      BY <3>1
  <2>2. CASE ~Start(c)
    <3>1. stage[c] = "subscribe"
      <4>1. CASE stage'[c] = stage[c]
        BY <1>4, <4>1
      <4>2. CASE CallStep(c)
        BY <1>0, <1>4, <4>2 DEF CallStep, Register, Send, SendFails, Returned, CallTimeout, FindJob,
           MakeJob, JobResult, Finish, Types
      <4> QED
        BY <1>0, <2>2, <4>1, <4>2, OwnStep
    <3>2. pc[c] # "new" /\ ctor = "ok" /\ (newStyle \/ c \in JobCalls)
      BY <3>1 DEF StagesFit
    <3>3. newStyle' = newStyle
      BY <1>0, <3>2, StyleStep DEF StagesFit
    <3>4. pc'[c] # "new"
      BY <1>0, <3>2, Progress DEF Moves, Types
    <3> QED
      BY <3>2, <3>3, <3>4
  <2> QED
    BY <2>1, <2>2
<1>5. ASSUME NEW c \in Calls, pc'[c] \in {"job", "making", "jobwait"}
      PROVE  c \in JobCalls /\ stage'[c] = "method"
  <2>1. CASE pc[c] \in {"job", "making", "jobwait"}
    <3>1. stage'[c] = stage[c]
      BY <1>0, <2>1, Progress DEF Moves, Types
    <3> QED
      BY <2>1, <3>1 DEF StagesFit
  <2>2. CASE pc[c] \notin {"job", "making", "jobwait"}
    BY <1>0, <1>5, <2>2, AsksForJob
  <2> QED
    BY <2>1, <2>2
<1> QED
  BY <1>1, <1>2, <1>3, <1>4, <1>5 DEF StagesFit

\* The message in hand is one that was taken.
LEMMA EventComes ==
  ASSUME Types, [Next]_vars, tpc'[WS] = "event"
  PROVE  \/ tpc[WS] = "event" /\ event' = event /\ taken' = taken
         \/ \E c \in Calls, kind \in {"added", "ended"} :
              /\ TakeEvent(kind, c) /\ event' = <<kind, c>>
              /\ taken' = taken \cup {<<kind, c>>}
<1> USE DEF vars, threadVars, serverVars
<1>0. WS \in Threads /\ \A k \in Closers : k \in Threads /\ k # WS
  BY ThreadsAssumption DEF Threads
<1> DEFINE Same == tpc[WS] = "event" /\ event' = event /\ taken' = taken
<1>1. ASSUME NEW d \in Calls, Start(d) \/ CallStep(d)  PROVE Same
  BY <1>1 DEF Start, CallStep, Register, Send, SendFails, Returned, CallTimeout, FindJob,
     MakeJob, JobResult
<1>2. ASSUME NEW r \in Requests, TakeAnswer(r)  PROVE FALSE
  BY <1>2 DEF TakeAnswer, Receivable
<1>3. ASSUME NEW c \in Calls, NEW kind \in {"added", "ended"}, TakeEvent(kind, c)
      PROVE  event' = <<kind, c>> /\ taken' = taken \cup {<<kind, c>>}
  BY <1>3 DEF TakeEvent, Receivable
<1>4. ASSUME NEW u \in Threads, OnClose(u)  PROVE Same
  BY <1>0, <1>4 DEF OnClose, ListCalls, WakeCalls, WakeFinds, WakeJob, Closed, LoopBreaks, Types
<1>5. ASSUME NEW k \in Closers, CloseSocket(k)  PROVE Same
  BY <1>0, <1>5 DEF CloseSocket, Types
<1>6. ASSUME JobsCallback \/ Notice \/ CloseFrame \/ Teardown  PROVE FALSE
  BY <1>0, <1>6 DEF JobsCallback, Notice, CloseFrame, Teardown, Types
<1>7. CASE \/ Handshake \/ Constructed \/ HandshakeTimeout \/ Drop
           \/ (\E r \in Requests : Serve(r)) \/ (\E d \in Calls : JobEnds(d)) \/ UNCHANGED vars
  BY <1>7 DEF Handshake, Constructed, HandshakeTimeout, Drop, Serve, JobEnds
<1> QED
  BY <1>1, <1>2, <1>3, <1>4, <1>5, <1>6, <1>7 DEF Next, Receive

\* The state of a job is what an event says, until its caller takes it away.
LEMMA StateComes ==
  ASSUME Types, [Next]_vars, NEW c \in Calls, state'[c] # state[c]
  PROVE  \/ /\ tpc[WS] = "event" /\ event \in {<<"added", c>>, <<"ended", c>>}
            /\ state'[c] = IF event = <<"ended", c>> THEN job[c] ELSE "running"
            /\ UNCHANGED <<job, taken>>
         \/ state'[c] = "none" /\ pc'[c] = "done"
<1> USE DEF vars, clientVars, jobVars, serverVars
<1>1. ASSUME NEW d \in Calls, Start(d) \/ CallStep(d)
      PROVE  state'[c] = "none" /\ pc'[c] = "done"
  <2>1. CASE JobResult(d)
    <3>1. state' = [state EXCEPT ![d] = "none"]
      BY <2>1 DEF JobResult
    <3>2. pc' = [pc EXCEPT ![d] = "done"]
      BY <2>1 DEF JobResult, Finish
    <3> QED
      BY <3>1, <3>2 DEF Types
  <2> QED
    BY <1>1, <2>1 DEF Start, CallStep, Register, Send, SendFails, Returned, CallTimeout, FindJob,
       MakeJob
<1>2. CASE JobsCallback
  <2>1. /\ tpc[WS] = "event" /\ event \in {"added", "ended"} \X Calls
        /\ state' = [state EXCEPT ![event[2]] = IF event[1] = "ended" THEN job[event[2]] ELSE "running"]
        /\ UNCHANGED <<job, taken>>
    BY <1>2 DEF JobsCallback, Types
  <2>2. event[2] = c
    BY <2>1 DEF Types
  <2>3. event = <<event[1], c>> /\ event[1] \in {"added", "ended"}
    BY <2>1, <2>2
  <2>4. state'[c] = IF event[1] = "ended" THEN job[c] ELSE "running"
    BY <2>1, <2>2 DEF Types
  <2> QED
    BY <2>1, <2>3, <2>4
<1>3. ASSUME Receive  PROVE FALSE
  BY <1>3 DEF Receive, TakeAnswer, TakeEvent
<1>4. ASSUME NEW u \in Threads, CloseSocket(u) \/ OnClose(u)  PROVE FALSE
  BY <1>4 DEF CloseSocket, OnClose, ListCalls, WakeCalls, WakeFinds, WakeJob, Closed, LoopBreaks
<1>5. ASSUME \/ Handshake \/ Constructed \/ HandshakeTimeout \/ Drop \/ Notice
             \/ CloseFrame \/ Teardown
             \/ (\E r \in Requests : Serve(r)) \/ (\E d \in Calls : JobEnds(d)) \/ UNCHANGED vars
      PROVE  FALSE
  BY <1>5 DEF Handshake, Constructed, HandshakeTimeout, Drop, Notice, CloseFrame, Teardown, Serve,
     JobEnds
<1> QED
  BY <1>1, <1>2, <1>3, <1>4, <1>5 DEF Next, Threads

\* While the socket is there, only the end of a job sets its Event.
LEMMA FiredComes ==
  ASSUME Types, ClosesFit, [Next]_vars, Open', NEW c \in Calls, NEW e \in Makers,
         <<e, c>> \in fired', <<e, c>> \notin fired
  PROVE  event = <<"ended", c>> /\ state'[c] = job[c] /\ tpc[WS] = "event"
<1> USE DEF vars, clientVars, jobVars
<1>0. sock' # "down" /\ \A t \in Threads : tpc[t] \notin ClosingSteps
  BY OpenStep DEF ClosesFit, Open
<1>1. ASSUME NEW d \in Calls, Start(d) \/ CallStep(d)  PROVE FALSE
  BY <1>1 DEF Start, CallStep, Register, Send, SendFails, Returned, CallTimeout, FindJob,
     MakeJob, JobResult
<1>2. CASE JobsCallback
  <2> DEFINE x == IF ready[event[2]] = "none" THEN WS ELSE ready[event[2]]
  <2>1. /\ event \in {"added", "ended"} \X Calls /\ tpc[WS] = "event"
        /\ fired' = IF event[1] = "ended" THEN fired \cup {<<x, event[2]>>} ELSE fired
        /\ state' = [state EXCEPT ![event[2]] = IF event[1] = "ended" THEN job[event[2]] ELSE "running"]
    BY <1>2 DEF JobsCallback, Types
  <2> HIDE DEF x
  <2>2. event[1] = "ended" /\ event[2] = c
    BY <2>1
  <2>3. event = <<"ended", c>>
    BY <2>1, <2>2
  <2> QED
    BY <2>1, <2>2, <2>3 DEF Types
<1>3. ASSUME Receive  PROVE FALSE
  BY <1>3 DEF Receive, TakeAnswer, TakeEvent
<1>4. ASSUME NEW t \in Threads, CloseSocket(t) \/ OnClose(t)  PROVE FALSE
  <2>1. ~CloseSocket(t)
    BY <1>0 DEF CloseSocket
  <2>2. ~OnClose(t)
    BY <1>0 DEF OnClose, ListCalls, WakeCalls, WakeFinds, WakeJob, Closed, LoopBreaks, ClosingSteps
  <2> QED
    BY <1>4, <2>1, <2>2
<1>5. ASSUME \/ Handshake \/ Constructed \/ HandshakeTimeout \/ Drop \/ Notice
             \/ CloseFrame \/ Teardown
             \/ (\E r \in Requests : Serve(r)) \/ (\E d \in Calls : JobEnds(d)) \/ UNCHANGED vars
      PROVE  FALSE
  BY <1>5 DEF Handshake, Constructed, HandshakeTimeout, Drop, Notice, CloseFrame, Teardown, Serve,
     JobEnds
<1> QED
  BY <1>1, <1>2, <1>3, <1>4, <1>5 DEF Next, Threads

\* The state of a job follows its events.
LEMMA StatesFitStep == RInv /\ StatesFit /\ [Next]_vars => StatesFit'
<1> SUFFICES ASSUME RInv, StatesFit, [Next]_vars  PROVE StatesFit'
  OBVIOUS
<1>0. Types /\ RequestsFit /\ ClosesFit
  BY DEF RInv
<1>1. \A c \in Calls : job[c] \in Ended => job'[c] = job[c]
  BY <1>0, EndedJobStays
<1>2. taken \subseteq taken'
  BY <1>0, MessagesCome
<1>3. ASSUME NEW c \in Calls, <<"ended", c>> \in taken'
      PROVE  job[c] \in Ended /\ <<"added", c>> \in taken
  <2>1. CASE <<"ended", c>> \in taken
    BY <2>1 DEF StatesFit
  <2>2. CASE <<"ended", c>> \notin taken
    <3>1. TakeEvent("ended", c)
      BY <1>0, <1>3, <2>2, MessagesCome
    <3> QED
      BY <3>1 DEF TakeEvent, Receivable, Sent
  <2> QED
    BY <2>1, <2>2
<1>4. ASSUME NEW c \in Calls, tpc'[WS] = "event", event' = <<"added", c>>  PROVE <<"ended", c>> \notin taken'
  <2>1. CASE tpc[WS] = "event" /\ event' = event /\ taken' = taken
    BY <1>4, <2>1 DEF StatesFit
  <2>2. CASE TakeEvent("added", c) /\ taken' = taken \cup {<<"added", c>>}
    <3>1. <<"added", c>> \notin taken
      BY <2>2 DEF TakeEvent, Receivable
    <3> QED
      BY <2>2, <3>1 DEF StatesFit
  <2> QED
    BY <1>0, <1>4, <2>1, <2>2, EventComes
<1>5. ASSUME NEW c \in Calls, tpc'[WS] = "event", event' = <<"ended", c>>  PROVE <<"ended", c>> \in taken'
  BY <1>0, <1>5, EventComes DEF StatesFit
<1>6. ASSUME NEW c \in Calls, state'[c] \in Ended  PROVE state'[c] = job'[c] /\ <<"ended", c>> \in taken'
  <2>1. CASE state'[c] = state[c]
    BY <1>1, <1>2, <1>6, <2>1 DEF StatesFit
  <2>2. CASE state'[c] # state[c]
    BY <1>0, <1>6, <2>2, StateComes DEF StatesFit, Ended
  <2> QED
    BY <2>1, <2>2
<1>7. ASSUME Open', NEW c \in Calls, NEW e \in Makers, <<e, c>> \in fired'
      PROVE  state'[c] \in Ended \/ pc'[c] = "done"
  <2>1. CASE <<e, c>> \in fired
    <3>1. state[c] \in Ended \/ pc[c] = "done"
      BY <1>0, <1>7, <2>1, OpenStep DEF StatesFit
    <3>2. CASE pc[c] = "done"
      BY <1>0, <3>2, OutcomesCome
    <3>3. CASE state[c] \in Ended
      <4>1. <<"ended", c>> \in taken /\ job[c] \in Ended
        BY <3>3 DEF StatesFit
      <4>2. ~(tpc[WS] = "event" /\ event = <<"added", c>>)
        BY <4>1 DEF StatesFit
      <4> QED
        BY <1>0, <3>3, <4>1, <4>2, StateComes
    <3> QED
      BY <3>1, <3>2, <3>3
  <2>2. CASE <<e, c>> \notin fired
    <3>1. event = <<"ended", c>> /\ state'[c] = job[c] /\ tpc[WS] = "event"
      BY <1>0, <1>7, <2>2, FiredComes
    <3> QED
      BY <3>1 DEF StatesFit
  <2> QED
    BY <2>1, <2>2
<1> QED
  BY <1>1, <1>2, <1>3, <1>4, <1>5, <1>6, <1>7 DEF StatesFit

-----------------------------------------------------------------------------
(* Transport's view of the client                                          *)

Link == IF sock = "down" THEN "shut" ELSE IF frame = "read" THEN "closing" ELSE "open"

Status == [c \in Calls |->
             CASE pc[c] = "new"  -> "idle"
               [] pc[c] = "done" -> outcome[c]
               [] stage[c] = "method" /\ pc[c] \in {"wait", "job", "making", "jobwait"} -> "sent"
               [] OTHER -> "active"]

Verdicts == [c \in Calls |-> VerdictOf(c, verdict[<<c, "method">>], job[c])]

\* A step of the client is one of Transport's, or none.
Refines == Conn!TransportNext \/ UNCHANGED <<Link, Status, Verdicts>>

\* The status of a call that is not over.
LEMMA StatusIs ==
  ASSUME Types, NEW c \in Calls
  PROVE  /\ pc[c] = "new" => Status[c] = "idle"
         /\ pc[c] = "done" => Status[c] = outcome[c]
         /\ stage[c] = "method" /\ pc[c] \in {"wait", "job", "making", "jobwait"}
              => Status[c] = "sent"
         /\ pc[c] \in {"register", "send"} => Status[c] = "active"
         /\ stage[c] = "subscribe" /\ pc[c] \notin {"new", "done"} => Status[c] = "active"
  BY DEF Status

\* A call that moves on leaves the others where they are.
LEMMA OneCall ==
  ASSUME Types, NEW c \in Calls, NEW p, NEW s, NEW o,
         pc' = [pc EXCEPT ![c] = p], stage' = [stage EXCEPT ![c] = s],
         outcome' = [outcome EXCEPT ![c] = o]
  PROVE  /\ Status' = [Status EXCEPT ![c] = Status'[c]]
         /\ p = "done" => Status'[c] = o
         /\ p \in {"register", "send"} => Status'[c] = "active"
         /\ s = "method" /\ p \in {"wait", "job", "making", "jobwait"} => Status'[c] = "sent"
         /\ s = "subscribe" /\ p = "wait" => Status'[c] = "active"
<1>1. pc'[c] = p /\ stage'[c] = s /\ outcome'[c] = o
  BY DEF Types
<1>2. \A d \in Calls : d # c => pc'[d] = pc[d] /\ stage'[d] = stage[d] /\ outcome'[d] = outcome[d]
  BY DEF Types
<1>3. \A d \in Calls : d # c => Status'[d] = Status[d]
  BY <1>2 DEF Status
<1>4. Status' = [Status EXCEPT ![c] = Status'[c]]
  <2>1. /\ Status = [d \in Calls |-> Status[d]]
        /\ Status' = [d \in Calls |-> Status'[d]]
    BY DEF Status
  <2> QED
    BY <1>3, <2>1
<1> QED
  BY <1>1, <1>4 DEF Status

\* The server's part is not touched.
LEMMA VerdictsStay == UNCHANGED <<verdict, job>> => Verdicts' = Verdicts
  BY DEF Verdicts

\* A server only has to do with a call that was sent.
LEMMA SentFirst ==
  ASSUME Types, RequestsFit, NEW c \in Calls, verdict[<<c, "method">>] # "none"
  PROVE  Status[c] \notin {"idle", "active"}
<1>1. ~Unasked(c, "method")
  BY DEF RequestsFit, Unknown, Stages
<1>2. stage[c] = "method" /\ pc[c] \in {"send", "wait", "job", "making", "jobwait", "done"}
  BY <1>1 DEF Unasked, Types, Stages, CallSteps
<1>3. pc[c] # "send"
  BY <1>2 DEF RequestsFit, Current
<1>4. outcome[c] \notin {"idle", "active"}
  BY DEF Types
<1> QED
  BY <1>2, <1>3, <1>4, StatusIs

\* A call ends before its request is sent.
LEMMA SendFailsRefines ==
  ASSUME Types, NEW c \in Calls, NEW o \in {"error", "unauth"}, o = "unauth" => c \in JobCalls,
         Status[c] = "active", Finish(c, o), UNCHANGED <<sock, frame, verdict, job>>
  PROVE  Refines
<1>1. /\ pc' = [pc EXCEPT ![c] = "done"] /\ stage' = [stage EXCEPT ![c] = stage[c]]
      /\ outcome' = [outcome EXCEPT ![c] = o]
  BY DEF Finish, Types
<1>2. Status' = [Status EXCEPT ![c] = o]
  BY <1>1, OneCall, ZenonT(60)
<1>3. Link' = Link /\ Verdicts' = Verdicts
  BY VerdictsStay DEF Link
<1>4. Conn!SendFails(c)
  BY <1>2, <1>3 DEF Conn!SendFails, Conn!End, Link, Status, Verdicts
<1> QED
  BY <1>4 DEF Refines, Conn!TransportNext

\* A call ends after that, for a reason.
LEMMA ReturnRefines ==
  ASSUME Types, NEW c \in Calls, NEW o \in {"result", "unauth", "error", "crash"},
         Status[c] = "sent", Finish(c, o), UNCHANGED <<sock, frame, verdict, job>>,
         \/ o = "result" /\ Verdicts[c] = "ran"
         \/ o = "unauth" /\ Verdicts[c] = "unauth"
         \/ o = "error" /\ (Verdicts[c] = "failed" \/ ~Open \/ c \in Timed)
         \/ o = "crash" /\ c \in JobCalls /\ (Verdicts[c] = "failed" \/ ~Open)
  PROVE  Refines
<1>1. /\ pc' = [pc EXCEPT ![c] = "done"] /\ stage' = [stage EXCEPT ![c] = stage[c]]
      /\ outcome' = [outcome EXCEPT ![c] = o]
  BY DEF Finish, Types
<1>2. Status' = [Status EXCEPT ![c] = o]
  <2>1. Status' = [Status EXCEPT ![c] = Status'[c]]
    BY <1>1, OneCall, Zenon
  <2>2. Status'[c] = o
    BY <1>1 DEF Status, Types
  <2> QED
    BY <2>1, <2>2
<1>3. Link' = Link /\ Verdicts' = Verdicts
  BY VerdictsStay DEF Link
<1>a. ~Open => Link # "open"
  BY DEF Open, Link
<1>4. Conn!Return(c)
  BY <1>2, <1>3, <1>a DEF Conn!Return, Conn!End, Link, Status, Verdicts
<1> QED
  BY <1>4 DEF Refines, Conn!TransportNext

\* A call moves on without a change of status.
LEMMA OnwardRefines ==
  ASSUME Types, NEW c \in Calls, NEW p, NEW s, NEW x \in {"active", "sent"},
         pc' = [pc EXCEPT ![c] = p], stage' = [stage EXCEPT ![c] = s],
         UNCHANGED outcome, Link' = Link, Verdicts' = Verdicts, Status[c] = x,
         IF x = "sent" THEN s = "method" /\ p \in {"wait", "job", "making", "jobwait"}
         ELSE p \in {"register", "send"} \/ (s = "subscribe" /\ p = "wait")
  PROVE  Refines
<1>1. outcome' = [outcome EXCEPT ![c] = outcome[c]]
  BY DEF Types
<1>2. Status' = [Status EXCEPT ![c] = x]
  BY <1>1, OneCall, ZenonT(60)
<1>3. Status' = Status
  BY <1>2 DEF Status
<1> QED
  BY <1>3 DEF Refines

\* A call begins.
LEMMA StartRefines == ASSUME Types, NEW c \in Calls, Start(c)  PROVE Refines
<1>1. PICK s \in Stages :
        /\ pc' = [pc EXCEPT ![c] = "register"] /\ stage' = [stage EXCEPT ![c] = s]
        /\ outcome' = [outcome EXCEPT ![c] = outcome[c]]
  BY DEF Start, Stages, Types
<1>2. Status[c] = "idle" /\ Status' = [Status EXCEPT ![c] = "active"]
  <2>1. Status' = [Status EXCEPT ![c] = Status'[c]]
    BY <1>1, OneCall, Zenon
  <2>2. Status'[c] = "active" /\ Status[c] = "idle"
    BY <1>1 DEF Status, Types, Start
  <2> QED
    BY <2>1, <2>2
<1>3. Link' = Link /\ Verdicts' = Verdicts
  BY VerdictsStay DEF Link, Start, serverVars, threadVars
<1>4. Conn!Start(c)
  BY <1>2, <1>3 DEF Conn!Start, Conn!End, Link, Status, Verdicts
<1> QED
  BY <1>4 DEF Refines, Conn!TransportNext

\* A request goes to the server, the method's or the subscription's.
LEMMA SendRefines == ASSUME Types, RequestsFit, NEW c \in Calls, Send(c)  PROVE Refines
<1>1. /\ pc[c] = "send" /\ sock = "up" /\ UNCHANGED <<sock, frame, job>>
      /\ pc' = [pc EXCEPT ![c] = "wait"] /\ stage' = [stage EXCEPT ![c] = stage[c]]
      /\ outcome' = [outcome EXCEPT ![c] = outcome[c]] /\ outcome' = outcome
      /\ verdict' = [verdict EXCEPT ![Current(c)] = "sent"]
  BY DEF Send, Types, callVars, threadVars
<1>2. Current(c) \in Requests /\ verdict[Current(c)] = "none"
  BY <1>1, CurrentType DEF RequestsFit
<1>3. Verdicts' = Verdicts
  <2>1. ASSUME NEW d \in Calls
        PROVE  VerdictOf(d, verdict'[<<d, "method">>], job[d]) =
                 VerdictOf(d, verdict[<<d, "method">>], job[d])
    <3>1. CASE <<d, "method">> = Current(c)
      <4>1. verdict'[<<d, "method">>] = "sent" /\ verdict[<<d, "method">>] = "none"
        BY <1>1, <1>2, <3>1, ZenonT(60) DEF Types
      <4> QED
        BY <4>1 DEF VerdictOf
    <3>2. CASE <<d, "method">> # Current(c)
      BY <1>1, <3>2, CurrentType DEF Types
    <3> QED
      BY <3>1, <3>2
  <2> QED
    BY <1>1, <2>1 DEF Verdicts
<1>4. Link' = Link /\ Link # "shut"
  BY <1>1 DEF Link
<1>5. Status[c] = "active"
  BY <1>1, StatusIs
<1>6. CASE stage[c] = "method"
  <2>1. Status' = [Status EXCEPT ![c] = "sent"]
    BY <1>1, <1>6, OneCall
  <2>2. Conn!Send(c)
    BY <1>3, <1>4, <1>5, <2>1 DEF Conn!Send, Conn!End, Link, Status, Verdicts
  <2> QED
    BY <2>2 DEF Refines, Conn!TransportNext
<1>7. CASE stage[c] = "subscribe"
  BY <1>1, <1>3, <1>4, <1>5, <1>7, OnwardRefines
<1> QED
  BY <1>6, <1>7 DEF Types, Stages

\* A request fails to leave, or is given up: a call of its own, or the
\* subscription that comes before it.
LEMMA GivenUpRefines ==
  ASSUME Types, NEW c \in Calls, SendFails(c) \/ CallTimeout(c)
  PROVE  Refines
<1>1. /\ Finish(c, "error") /\ UNCHANGED <<sock, frame, verdict, job>>
      /\ \/ pc[c] = "send"
         \/ pc[c] = "wait" /\ (c \in Timed \/ stage[c] = "subscribe")
  BY DEF SendFails, CallTimeout, serverVars, threadVars
<1>2. CASE pc[c] = "send" \/ stage[c] = "subscribe"
  <2>1. Status[c] = "active"
    BY <1>1, <1>2, StatusIs
  <2> QED
    BY <1>1, <2>1, SendFailsRefines
<1>3. CASE pc[c] = "wait" /\ stage[c] = "method"
  <2>1. Status[c] = "sent" /\ c \in Timed
    BY <1>1, <1>3, StatusIs
  <2> QED
    BY <1>1, <2>1, ReturnRefines
<1> QED
  BY <1>1, <1>2, <1>3 DEF Types, Stages

\* An answer ends a call, or takes it on to its method or its Job.
LEMMA ReturnedRefines ==
  ASSUME Types, AnswersFit, StagesFit, NEW c \in Calls, Returned(c)
  PROVE  Refines
<1> DEFINE q == Current(c)
<1>1. /\ pc[c] = "wait" /\ q \in Requests /\ UNCHANGED <<sock, frame, verdict, job>>
      /\ Link' = Link /\ Verdicts' = Verdicts
  BY CurrentType, VerdictsStay DEF Returned, Link, serverVars, threadVars
<1>2. CASE stage[c] = "subscribe"
  <2>1. Status[c] = "active"
    BY <1>1, <1>2, StatusIs
  <2>2. CASE pc' = [pc EXCEPT ![c] = "register"] /\ stage' = [stage EXCEPT ![c] = "method"]
               /\ UNCHANGED outcome
    BY <1>1, <2>1, <2>2, OnwardRefines
  <2>3. CASE Finish(c, "error")
    BY <1>1, <2>1, <2>3, SendFailsRefines
  <2>4. CASE Finish(c, "unauth") /\ ~newStyle
    <3>1. c \in JobCalls
      BY <1>2, <2>4 DEF StagesFit
    <3> QED
      BY <1>1, <2>1, <2>4, <3>1, SendFailsRefines
  <2> QED
    BY <1>2, <2>2, <2>3, <2>4 DEF Returned
<1>3. CASE stage[c] = "method"
  <2>1. Status[c] = "sent" /\ q = <<c, "method">>
    BY <1>1, <1>3, StatusIs DEF Current
  <2>2. Verdicts[c] = VerdictOf(c, verdict[q], job[c])
    BY <2>1 DEF Verdicts
  <2> HIDE DEF q
  <2>3. CASE /\ pc' = [pc EXCEPT ![c] = "job"] /\ UNCHANGED <<stage, outcome>>
    <3>1. stage' = [stage EXCEPT ![c] = "method"]
      BY <1>3, <2>3 DEF Types
    <3> QED
      BY <1>1, <2>1, <2>3, <3>1, OnwardRefines
  <2>4. CASE c \notin JobCalls /\ answer[q] \in {"result", "jobid"} /\ Finish(c, "result")
    <3>1. verdict[q] \in {"ran", "job"}
      BY <1>1, <2>4 DEF AnswersFit
    <3>2. Verdicts[c] = "ran"
      BY <2>2, <2>4, <3>1 DEF VerdictOf
    <3> QED
      BY <1>1, <2>1, <2>4, <3>2, ReturnRefines
  <2>5. CASE answer[q] = "unauth" /\ Finish(c, "unauth")
    <3>1. Verdicts[c] = "unauth"
      BY <1>1, <2>2, <2>5 DEF AnswersFit, VerdictOf
    <3> QED
      BY <1>1, <2>1, <2>5, <3>1, ReturnRefines
  <2>6. CASE answer[q] \in {"error", "closed"} /\ Finish(c, "error")
    <3>1. Verdicts[c] = "failed" \/ ~Open
      BY <1>1, <2>2, <2>6 DEF AnswersFit, VerdictOf
    <3> QED
      BY <1>1, <2>1, <2>6, <3>1, ReturnRefines
  <2> QED
    BY <1>3, <2>3, <2>4, <2>5, <2>6 DEF Returned, q
<1> QED
  BY <1>2, <1>3 DEF Types, Stages

\* The way to the request, and to the Job.
LEMMA WayRefines ==
  ASSUME Types, StagesFit, NEW c \in Calls, Register(c) \/ FindJob(c) \/ MakeJob(c)
  PROVE  Refines
<1>1. /\ UNCHANGED <<outcome, stage>> /\ Link' = Link /\ Verdicts' = Verdicts
      /\ stage' = [stage EXCEPT ![c] = stage[c]]
  BY VerdictsStay DEF Register, FindJob, MakeJob, Link, serverVars, Types, threadVars
<1>2. CASE Register(c)
  <2>1. Status[c] = "active" /\ pc' = [pc EXCEPT ![c] = "send"]
    BY <1>2, StatusIs DEF Register
  <2> QED
    BY <1>1, <2>1, OnwardRefines
<1>3. CASE FindJob(c) \/ MakeJob(c)
  <2>1. PICK p \in {"making", "jobwait"} : pc' = [pc EXCEPT ![c] = p]
    BY <1>3 DEF FindJob, MakeJob
  <2>2. stage[c] = "method" /\ pc[c] \in {"job", "making"}
    BY <1>3 DEF FindJob, MakeJob, StagesFit
  <2>3. Status[c] = "sent"
    BY <2>2, StatusIs
  <2> QED
    BY <1>1, <2>1, <2>2, <2>3, OnwardRefines
<1> QED
  BY <1>2, <1>3

\* Job.result() says how the job ended, or that the connection has.
LEMMA JobResultRefines ==
  ASSUME Types, RequestsFit, StagesFit, StatesFit, NEW c \in Calls, JobResult(c)
  PROVE  Refines
<1>1. /\ pc[c] = "jobwait" /\ UNCHANGED <<sock, frame, verdict, job>>
      /\ <<held[c], c>> \in fired
  BY DEF JobResult, serverVars, threadVars
<1>2. c \in JobCalls /\ Status[c] = "sent"
  BY <1>1, StatusIs DEF StagesFit
<1>3. state[c] \in Ended \/ ~Open
  <2>1. held[c] \in Makers
    BY <1>1 DEF Types, Events
  <2> QED
    BY <1>1, <2>1 DEF StatesFit
<1>4. state[c] \in Ended => Verdicts[c] = JobVerdict(state[c])
  <2>1. ASSUME state[c] \in Ended
        PROVE  state[c] = job[c] /\ verdict[<<c, "method">>] = "job"
    BY <2>1 DEF StatesFit, RequestsFit, Ended
  <2> QED
    BY <1>2, <2>1 DEF Verdicts, VerdictOf
<1>5. CASE state[c] = "success" /\ Finish(c, "result")
  <2>1. Verdicts[c] = "ran"
    BY <1>4, <1>5 DEF JobVerdict, Ended
  <2> QED
    BY <1>1, <1>2, <1>5, <2>1, ReturnRefines
<1>6. CASE state[c] # "success" /\ (Finish(c, "error") \/ Finish(c, "crash"))
  <2>1. Verdicts[c] = "failed" \/ ~Open
    BY <1>3, <1>4, <1>6 DEF JobVerdict, Ended
  <2> QED
    BY <1>1, <1>2, <1>6, <2>1, ReturnRefines
<1> QED
  BY <1>5, <1>6 DEF JobResult

\* The server's part of one call changes: Transport sees the verdict, once.
LEMMA VerdictRefines ==
  ASSUME Types, RequestsFit, NEW c \in Calls, UNCHANGED <<sock, frame, pc, stage, outcome>>,
         verdict[<<c, "method">>] # "none",
         \A d \in Calls : d # c => Verdicts'[d] = Verdicts[d],
         \/ Verdicts'[c] = Verdicts[c]
         \/ Verdicts[c] = "none" /\ Verdicts'[c] \in {"ran", "failed", "unauth"}
  PROVE  Refines
<1>1. Link' = Link /\ Status' = Status
  BY DEF Link, Status
<1>2. /\ Verdicts = [d \in Calls |-> Verdicts[d]]
      /\ Verdicts' = [d \in Calls |-> Verdicts'[d]]
  BY DEF Verdicts
<1>3. CASE Verdicts'[c] = Verdicts[c]
  <2>1. Verdicts' = Verdicts
    BY <1>2, <1>3
  <2> QED
    BY <1>1, <2>1 DEF Refines
<1>4. CASE Verdicts[c] = "none" /\ Verdicts'[c] \in {"ran", "failed", "unauth"}
  <2>1. PICK v \in {"ran", "failed", "unauth"} : Verdicts'[c] = v
    BY <1>4
  <2>2. Verdicts' = [Verdicts EXCEPT ![c] = v]
    BY <1>2, <2>1
  <2>3. Status[c] \notin {"idle", "active"}
    BY SentFirst
  <2>4. v \in Conn!Verdict \ {"none"}
    BY DEF Conn!Verdict
  <2>5. Conn!Serve(c)
    BY <1>1, <1>4, <2>2, <2>3, <2>4 DEF Conn!Serve, Link, Status, Verdicts
  <2> QED
    BY <2>5 DEF Refines, Conn!TransportNext
<1> QED
  BY <1>3, <1>4

\* The server carries a request out, or not; with a job, it has only begun.
LEMMA ServeRefines == ASSUME Types, RequestsFit, NEW r \in Requests, Serve(r)  PROVE Refines
<1>1. PICK v \in Answers(r) :
        /\ verdict[r] = "sent" /\ verdict' = [verdict EXCEPT ![r] = v]
        /\ job' = [job EXCEPT ![r[1]] = IF v = "job" THEN "running" ELSE job[r[1]]]
        /\ UNCHANGED <<sock, frame, pc, stage, outcome>>
  BY DEF Serve, callVars, threadVars
<1>2. PICK c \in Calls, s \in Stages : r = <<c, s>>
  BY DEF Requests
<1>3. CASE s = "subscribe"
  <2>1. v # "job"
    BY <1>2, <1>3 DEF Answers
  <2>2. job' = job
    BY <1>1, <1>2, <2>1 DEF Types
  <2>3. \A d \in Calls : verdict'[<<d, "method">>] = verdict[<<d, "method">>]
    BY <1>1, <1>2, <1>3, CurrentType DEF Types
  <2>4. Verdicts' = Verdicts
    BY <2>2, <2>3 DEF Verdicts
  <2> QED
    BY <1>1, <2>4 DEF Refines, Link, Status
<1>4. CASE s = "method"
  <2>0. <<c, "method">> \in Requests /\ verdict[<<c, "method">>] = "sent"
    BY <1>1, <1>2, <1>4
  <2>1. verdict'[<<c, "method">>] = v /\ v \in {"ran", "job", "failed", "unauth"}
    BY <1>1, <1>2, <1>4, <2>0 DEF Types, Answers
  <2>2. v = "job" => job'[c] = "running"
    BY <1>1, <1>2 DEF Types
  <2>3. ASSUME NEW d \in Calls, d # c  PROVE Verdicts'[d] = Verdicts[d]
    <3>1. verdict'[<<d, "method">>] = verdict[<<d, "method">>] /\ job'[d] = job[d]
      BY <1>1, <1>2, <2>3, CurrentType DEF Types
    <3> QED
      BY <3>1 DEF Verdicts
  <2>4. Verdicts[c] = "none"
    BY <2>0 DEF Verdicts, VerdictOf
  <2>5. Verdicts'[c] = VerdictOf(c, v, job'[c])
    BY <2>1 DEF Verdicts
  <2>6. Verdicts'[c] \in {"none", "ran", "failed", "unauth"}
    <3>1. CASE v = "job"
      BY <2>2, <2>5, <3>1 DEF VerdictOf, JobVerdict
    <3>2. CASE v # "job"
      BY <2>1, <2>5, <3>2 DEF VerdictOf
    <3> QED
      BY <3>1, <3>2
  <2> QED
    BY <1>1, <2>0, <2>3, <2>4, <2>6, VerdictRefines
<1> QED
  BY <1>3, <1>4 DEF Stages

\* The end of a job is the verdict on a job=True call.
LEMMA JobEndsRefines == ASSUME Types, RequestsFit, NEW c \in Calls, JobEnds(c)  PROVE Refines
<1>1. PICK s \in Ended :
        /\ job[c] = "running" /\ job' = [job EXCEPT ![c] = s]
        /\ UNCHANGED <<sock, frame, pc, stage, outcome, verdict>>
  BY DEF JobEnds, callVars, threadVars
<1>2. verdict[<<c, "method">>] = "job"
  BY <1>1 DEF RequestsFit
<1>3. ASSUME NEW d \in Calls, d # c  PROVE Verdicts'[d] = Verdicts[d]
  BY <1>1, <1>3 DEF Verdicts, Types
<1>4. job'[c] = s
  BY <1>1 DEF Types
<1>5. CASE c \in JobCalls
  <2>1. Verdicts[c] = "none"
    BY <1>1, <1>2, <1>5 DEF Verdicts, VerdictOf, JobVerdict
  <2>2. Verdicts'[c] = JobVerdict(s)
    BY <1>1, <1>2, <1>4, <1>5 DEF Verdicts, VerdictOf
  <2>3. Verdicts'[c] \in {"ran", "failed"}
    BY <2>2 DEF JobVerdict, Ended
  <2> QED
    BY <1>1, <1>2, <1>3, <2>1, <2>3, VerdictRefines
<1>6. CASE c \notin JobCalls
  <2>1. Verdicts'[c] = Verdicts[c]
    BY <1>1, <1>2, <1>6 DEF Verdicts, VerdictOf
  <2> QED
    BY <1>1, <1>2, <1>3, <2>1, VerdictRefines
<1> QED
  BY <1>5, <1>6

-----------------------------------------------------------------------------
(* The steps of the threads                                                *)

\* A step of no call and not of the server: the connection closes, or nothing.
LEMMA QuietRefines ==
  ASSUME UNCHANGED <<pc, stage, outcome, verdict, job>>,
         Link' = Link \/ Link' = "shut" \/ (Link = "open" /\ Link' = "closing")
  PROVE  Refines
<1>1. Status' = Status /\ Verdicts' = Verdicts
  BY DEF Status, Verdicts
<1>2. CASE Link' = Link
  BY <1>1, <1>2 DEF Refines
<1>3. CASE Link' = "shut" /\ Link # "shut"
  <2>1. Conn!Shut
    BY <1>1, <1>3 DEF Conn!Shut, Link, Status, Verdicts
  <2> QED
    BY <2>1 DEF Refines, Conn!TransportNext
<1>4. CASE Link = "open" /\ Link' = "closing"
  <2>1. Conn!Closing
    BY <1>1, <1>4 DEF Conn!Closing, Link, Status, Verdicts
  <2> QED
    BY <2>1 DEF Refines, Conn!TransportNext
<1> QED
  BY <1>2, <1>3, <1>4

\* The websocket thread and the closing threads end no call themselves.
LEMMA ThreadsRefine ==
  ASSUME \/ Handshake \/ Constructed \/ HandshakeTimeout \/ Receive \/ JobsCallback
         \/ CloseFrame \/ Teardown
         \/ Drop \/ Notice \/ (\E k \in Closers : CloseSocket(k))
         \/ (\E t \in Threads : OnClose(t)) \/ UNCHANGED vars
  PROVE  Refines
<1> USE DEF vars, callVars, threadVars, serverVars, Link
<1>1. ASSUME Handshake \/ Constructed \/ HandshakeTimeout \/ Receive \/ JobsCallback
      PROVE  UNCHANGED <<pc, stage, outcome, verdict, job>> /\ Link' = Link
  BY <1>1 DEF Handshake, Constructed, HandshakeTimeout, Receive, TakeAnswer, TakeEvent, JobsCallback
<1>2. ASSUME Notice \/ (\E t \in Threads : OnClose(t)) \/ UNCHANGED vars
      PROVE  UNCHANGED <<pc, stage, outcome, verdict, job>> /\ Link' = Link
  BY <1>2 DEF Notice, OnClose, ListCalls, WakeCalls, WakeFinds, WakeJob, Closed, LoopBreaks
<1>3. ASSUME Drop \/ Teardown \/ (\E k \in Closers : CloseSocket(k))
      PROVE  UNCHANGED <<pc, stage, outcome, verdict, job>> /\ Link' = "shut"
  BY <1>3 DEF Drop, Teardown, CloseSocket
<1>4. ASSUME CloseFrame
      PROVE  /\ UNCHANGED <<pc, stage, outcome, verdict, job>>
             /\ Link' = Link \/ (Link = "open" /\ Link' = "closing")
  BY <1>4 DEF CloseFrame
<1> HIDE DEF Link
<1> QED
  BY <1>1, <1>2, <1>3, <1>4, QuietRefines

\* Every step of the client is one of Transport's, or none.
LEMMA NextRefines ==
  ASSUME RInv, AnswersFit, StagesFit, StatesFit, [Next]_vars
  PROVE  [Conn!TransportNext]_(Conn!transportVars)
<1>0. Types /\ RequestsFit
  BY DEF RInv
<1>1. ASSUME NEW c \in Calls, CallStep(c)  PROVE Refines
  BY <1>0, <1>1, SendRefines, GivenUpRefines, ReturnedRefines, WayRefines, JobResultRefines
     DEF CallStep
<1>2. Refines
  BY <1>0, <1>1, StartRefines, ServeRefines, JobEndsRefines, ThreadsRefine DEF Next
<1> QED
  BY <1>2 DEF Refines, Conn!transportVars, Link, Status, Verdicts

\* At the start no call has begun.
LEMMA InitRefines == Init => Conn!TransportInit /\ AnswersFit /\ StagesFit /\ StatesFit
<1> SUFFICES ASSUME Init  PROVE Conn!TransportInit /\ AnswersFit /\ StagesFit /\ StatesFit
  OBVIOUS
<1>1. Link = "open" /\ Status = [c \in Calls |-> "idle"] /\ Verdicts = [c \in Calls |-> "none"]
  <2>1. \A c \in Calls : pc[c] = "new" /\ verdict[<<c, "method">>] = "none"
    BY DEF Init, Requests, Stages
  <2> QED
    BY <2>1 DEF Init, Link, Status, Verdicts, VerdictOf
<1>2. AnswersFit
  BY DEF Init, AnswersFit
<1>3. StagesFit
  BY DEF Init, StagesFit
<1>4. StatesFit
  BY DEF Init, StatesFit, Ended
<1> QED
  BY <1>1, <1>2, <1>3, <1>4 DEF Conn!TransportInit, Link, Status, Verdicts

-----------------------------------------------------------------------------
\* A call on a connection ends as TrueNASClient assumes: a result comes from a
\* server that carried it out, and any other end has its reason (__init__.py 260-282,
\* 317-360, 516-582, 675-680, 799-831).
THEOREM ClientIsTransport == Spec => ImplementsTransport
<1>1. /\ RInv /\ AnswersFit /\ StagesFit /\ StatesFit /\ [Next]_vars
           => /\ AnswersFit' /\ StagesFit' /\ StatesFit'
              /\ [Conn!TransportNext]_(Conn!transportVars)
  BY AnswersFitStep, StagesFitStep, StatesFitStep, NextRefines
<1> QED
  BY <1>1, InitRefines, Invariance, PTL DEF Spec, ImplementsTransport, Conn!TransportSpec
=============================================================================
