# TLA+ models of `truenas_ng`

This directory models the Home Assistant integration in
`src/custom_components/truenas_ng/` (called `ng/` below): TLA+ modules, TLC
configurations that check small instances of them, and TLAPS proofs of what holds
for instances of every size. `PROJECT.json` lists the runs, the mutants that show
each property can fail, the lines every definition stands for, the hazards of the
code and the theorems.

    tlc -workers 2 -config ClientSafety.cfg MCTrueNASClient.tla
    tlc -workers 2 -config JsonRpc.cfg MCJsonRpcClient.tla
    tlc -workers 2 -config Components.cfg MCComponents.tla
    tlc -workers 2 -config EventLoop.cfg MCEventLoop.tla
    tlapm TrueNASClientProofs.tla      # and the other *Proofs modules

## 1. The system

One config entry owns one `TrueNASClient`. Everything the entry does goes through
it, each use in its own executor thread:

    coordinators (7) --poll--+
    switches, buttons -------+--> TrueNASClient --> Client --> websocket thread --> TrueNAS
    update entities ---------+    (lock, retry)    (JSON-RPC)
    repairs, services -------+
    setup, unload, config flow --connect/close (no lock)--^

| Component | State | Operations | What makes it correct |
|---|---|---|---|
| Client wrapper, `ng/client.py` | `_client`, `_lock` | `connect`, `close`, `call`, `ping` | one request at a time, the lock always released, one retry and on a new connection, no connection lost |
| JSON-RPC client, `ng/truenas_api_client/__init__.py` | `_calls`, `_jobs`, `_event_callbacks`, the flags `_connected`, `_closed`, `_jobs_watching` | `call`, `wait`, `subscribe`, `_recv`, `on_close`, `Job.result` | every waiter woken once, by its own answer or the drop |
| Coordinators, `ng/coordinator.py` | the last snapshot | `_fetch`, error mapping, first refresh | a snapshot is what the answers say; an auth rejection starts the reauth flow |
| Entry lifecycle, `ng/__init__.py` | entry state, runtime data | setup, unload, reload | a client is closed when its entry is gone |
| Services, `ng/services.py` | registered or not, for the domain | register, unregister, dismiss, restore | registered while any entry is set up |
| Repairs, `ng/repairs.py` | the issue registry | reconcile, fix flow | issues are the undismissed alerts |
| Config flow, `ng/config_flow.py` | entries, flows | user, reauth, reconfigure, options | one entry per NAS, never changed to another NAS |
| Control entities, `ng/switch.py`, `button.py`, `update.py` | none of their own | call, refresh | an error is reported |
| Sensors, `ng/sensor.py`, `binary_sensor.py`, `entity.py` | none | read a snapshot | unavailable when the item is gone |
| API-key login, `auth_api_key.py`, `scram_impl.py`, `py_scram/` | one exchange | choose mechanism, SCRAM messages | with SCRAM, accepted only when both sides hold the key; a plain login verifies no server |
| EJSON, `ejson.py` | none | encode, decode | whole seconds are exact, and what is sent is decoded to what was sent |
| Legacy client, `midclt`, `utils.py` | | | not reached from Home Assistant |

What is hard here: the wrapper's `connect()` and `close()` do not take the lock
that `call()` and `ping()` take; a retry sends again a request the server may have
carried out, or may still carry out; a call has no timeout, and the lock makes
everyone wait for it; a connection drop is noticed by a third thread; setup can
fail half way; and Home Assistant state read before an `await` is used after it.
`PROJECT.json` lists each such hazard at its line.

## 2. The modules

| Module | Models |
|---|---|
| `TrueNASClient` | `ng/client.py`: all jobs of one client, its connections, and the server's view of each request |
| `SharedRpc` | what `call()` promises its users: turns, at most two executions, no result without one |
| `JsonRpcClient` | `JSONRPCClient` and `Job` of `ng/truenas_api_client/__init__.py`: one connection, its callers, its websocket thread and `close()` |
| `Transport` | what `TrueNASClient` relies on in a connection: how a call on it can end |
| `EntryLifecycle` | `ng/__init__.py`, the registration in `ng/services.py` and the error mapping of `ng/coordinator.py`: entries that are set up, unloaded and reloaded side by side |
| `AlertRepairs` | `ng/repairs.py` and the alert services: alerts, the copy last polled, issues and fix flows |
| `ConfigFlow` | `ng/config_flow.py`: the flows and the entries they write |
| `Scram`, `ApiKeyAuth` | `py_scram/`, `scram_impl.py` and `auth_api_key.py`: one login against any server |
| `Storage` | the storage fetch of `ng/coordinator.py` and the disk entities made of it |
| `Entity` | an object of the NAS and one entity of any class of `sensor.py`, `binary_sensor.py`, `switch.py`, `button.py`, `update.py` |
| `Values`, `Ejson` | the pure conversions: what is shown for each answer, and the wire form of times |
| `TrueNASClientProofs`, `JsonRpcClientProofs`, `EntryLifecycleProofs`, `AlertRepairsProofs`, `ConfigFlowProofs`, `EntityProofs` (also of `Storage`), `ApiKeyAuthProofs`, `ValuesProofs` (also of `Ejson`) | the inductive invariants and the theorems |
| `MCTrueNASClient`, `MCJsonRpcClient`, `MCEntryLifecycle`, `MCEventLoop`, `MCComponents` | the instances that TLC checks |

`JsonRpcClient` implements `Transport`, which is the connection `TrueNASClient`
assumes; `TrueNASClient` implements `SharedRpc`, of which the modules of the event
loop keep what a single call can do: return, be rejected, fail, be executed twice,
and connect a closed client again. `MCEventLoop` (what must happen in the end, of entries,
alerts and entities) and `MCComponents` (what must never happen, of all but the entities)
check several components in one run. In each behaviour one of them, `subject`, moves and
the others stand still in a state of their own; they share no variable in the code
either, except through Home Assistant.

### `TrueNASClient`

A *job* is one executor job that runs one public method: an `Opener` runs
`connect()` (the first step of `_connect_and_identify` and of `_validate`),
`Calls` run `call()`, `Pings` run `ping()` and `Closers` run `close()`. `JobCalls`
are the calls made with `job=True`. A coordinator's `_fetch`, which makes several
calls in a row, is that many members of `Calls`: nothing ties them together but
the lock.

| Variable | Code |
|---|---|
| `lock` | `self._lock`, by its holder |
| `client` | `self._client`, by the number of the connection |
| `conns` | for each `Client` constructed so far: open, closing (a close frame was read, the socket is still there), lost (transport gone) or closed (`Client.close()` called) |
| `pc`, `held` | where each job is, and the connection in its local variable |
| `via`, `req` | the connection each raw call of a job used, and what the server made of it |
| `outcome` | what the job returned or which class of exception it raised |

A job's step ends where another thread or the server can act in a way it would
notice. So `close()` is three steps (`CloseRead`, `CloseDrop`, `CloseSocket`) and
`call()` reads `self._client` twice (`Check`, then `RawSend`). The login is one
step with all of its outcomes. `ConstructFails` keeps both endings of the
constructor: no socket, or a socket and its thread left alive by the handshake
timeout. `Serve` lets the server handle a request at any time after it was sent,
also after its caller gave up. `outcome = "crash"` is any exception `_map_errors`
does not translate. `RawSendFails` also stands for a job-event subscription that
fails before the request is sent.

### `JsonRpcClient`

The threads that share `_calls` and `_jobs` are the callers, the websocket thread
`WS` and the threads in `close()`. Calls come one at a time, which is
`OneRequestAtATime` of `TrueNASClient`; `close()` comes at any time. A call makes
up to two requests (`stage`): `core.subscribe` for the job events, when nobody
watches them yet, and its own method. `newStyle` is whatever the server answered
to `core.set_options`, and both values are checked.

| Variable | Code |
|---|---|
| `sock`, `connected`, `ctor` | `app.sock` as `_send()` finds it, `_connected`, the constructor |
| `frame` | a close frame of the server: none, read and handed to `_on_error()`, or over, when the teardown has taken the socket |
| `calls`, `answer` | the keys of `_calls`; the result or error of each `Call` |
| `table`, `state` | the keys of `_jobs`, and each job's `'state'` |
| `ready`, `held`, `fired` | `'__ready'` in the table, the `Event` a `Job` waits for, the Events that are set; an Event is named by the thread that made it |
| `pc`, `stage`, `outcome` | the calls |
| `tpc`, `todo`, `seen`, `found`, `size`, `event` | the websocket thread in a callback, and any thread in `on_close()`: the calls it listed, the jobs its loop has visited, the one it is at, the table's size |
| `verdict`, `job`, `taken` | the server: what it made of each request, its jobs, the messages that arrived |

`_broadcast_error()` takes no lock, so its steps are as small as `Job.__init__()`'s:
each reads `'__ready'` (`FindJob`, `WakeFinds`) and writes it (`MakeJob`, `WakeJob`).
`_jobs_callback()` is one step, under `_jobs_lock`. `LoopBreaks` is the
`RuntimeError` of a dictionary that changes size under its iterator.

The websocket thread may run `on_close()` twice. A close frame gets to `_on_error()`,
which calls it while `app.sock` is still there (`CloseFrame`); then `run_forever()` tears
the socket down and calls `_on_close()` (`Teardown`, also after an `on_close()` that
raised). Between the two a call can register, send, and wait. Without a close frame there
is the second one only (`Drop` or `CloseSocket`, then `Notice`).

`Transport` is the abstract connection, with a link that is open, closing or shut.
`JsonRpcClient` is shown to implement it (`ImplementsTransport`), so the endings
`TrueNASClient` gives a raw call are those the library has: a result only for a request
the server carried out, an error without a reason only on a connection that is closing or
shut or after a timeout, an unmapped exception only for a `job=True` call whose job failed
or whose connection is closing or shut. On a closing link requests still go out.

### `EntryLifecycle`

Home Assistant runs the integration on one event loop, so a step is the code between
two awaits, and the steps of different entries interleave. The setup lock keeps the
coroutines of one entry apart: an entry that is not at step `idle` holds it.

| Variable | Code |
|---|---|
| `state`, `step`, `at` | `ConfigEntryState`; the await the setup or unload is at; which first refresh |
| `local`, `runtime` | `client` in `async_setup_entry`; `entry.runtime_data.client` |
| `entry`, `used` | the stored API key and options; what the last setup read of them |
| `listening`, `reloads`, `reloading` | the update listener, the reload tasks that wait for the lock, unloads that a reload began |
| `reauth`, `services` | reauth flows; whether the services are registered |
| `conn` | the connection of each client: open (a session that is logged in), lost (it dropped, or a retry that failed gave it up, so that the next call logs in), closed, or reopened |
| `flight` | the calls in executor threads |
| `valid` | the keys each server accepts |
| `stripped`, `dropped`, `overtaken` | history: entries that lost their services while forwarding platforms; clients given up without `close()`; clients that an unload closed while a call ran on them |

The setup has one action per ending: `Identified`, `NotIdentified` (then
`CloseRejected` or `CloseNotReady`), `IdentifyCrashes`, `Refreshed`, `RefreshFails`,
`AllRefreshed`, `Forwarded`. `AllRefreshed` assigns the runtime data, registers the
listener and the services in one go, as there is no await between them. `RefreshFails`
is also an exception after the last first refresh, which nothing catches: alerts that are
null raise in `async_sync_alert_issues`. It gives the client up like a refresh that failed.
`ClientClosed` is the end of an unload with the callbacks that Home Assistant runs
after it. A call in flight when its client is closed may leave the connection `reopened`
(`ClosedClientStaysClosed` of `TrueNASClient`). The coordinators are a constant
sequence; `Tolerant` are those whose `_fetch` turns errors into an empty dict.

The key is presented by a login only (`client.py:94-110`). A session that is open goes on
after its key was replaced; the first call that finds none logs in, and is rejected
(`Leaves`, `Fetched`, `CallRejected`). A server may end a session at any time
(`ConnectionDrops`), and an error that is answered on one may be ENOTAUTHENTICATED, so
that `CallRejected` is possible, but is not owed, while the connection is open.

### `AlertRepairs`

A poll reads `alert.list` at one moment (`ReadAlerts`) and is applied at a later one
(`PollEnds`). The poll of the timer and one that a service requested overlap and end in
any order. `Synced` is `async_sync_alert_issues`; listeners also run after a poll that
fails, on the old data. A fix flow goes from its form to the call and back to the event
loop (`Confirm`, `FixServed`, `FixEnds`); the server may have taken a dismissal whose
answer is lost. `Targets` is `_resolve_entry` of the services. `settled` is a history
variable: alerts that are gone for the server and for every poll still under way.

### `ConfigFlow`

User, reauth and reconfigure flows run up to the probe, which runs on a worker
(`Submit`, `ProbeEnds`), and go on after it while other flows have moved. A dismissed
flow is no longer in progress, but the step that waits for its probe goes on.
`CreateEntry` happens only for a flow in progress; `UpdateEntry` also for a dismissed one,
as `async_update_reload_and_abort` is called in the step. The unique id is the
`host_id` of the NAS that answered. The options flow is `SaveOptions` of
`EntryLifecycle`.

### `Scram` and `ApiKeyAuth`

Cryptography is symbolic. `Hi`, `HMAC` and the hash are free terms, so that two results
are equal only if their arguments are, and XOR is the symmetric difference of sets of
terms. Upon these `Scram` has the key derivation, the messages, and the checks of both
sides. `ApiKeyAuth` is one login: reading the key (raw, precomputed, or neither), the
choice of a mechanism, the plain login, the SCRAM exchange, `VerifyServer`, and the
logout after a verification that failed. The server may offer no SCRAM, hold another
secret, use iteration counts out of range, or answer with parts missing. One that is not
`genuine` does not hold the keys: it answers a plain login as it likes, since any answer
that is true is a success (`auth_api_key.py:246-249`), takes any proof, and cannot sign.
With `AUTO`, which the integration uses, the client falls back to a plain login at a
server that offers no SCRAM.

### `Storage`, `Entity`, `Values` and `Ejson`

`Storage` is one fetch of three calls between which disks come, go and change names, so
that a name may pass from one disk to another; the join is by device name, the result is
keyed by serial number where there is one. A temperature is modelled by the disk it was
measured on.

`Entity` has a record for each entity class: whether its object is always there, keyed,
optional or of a tolerant coordinator, what its control does and whether it requests a
refresh. The polls that overlap, the platform that adds entities after the first
refresh only, the call of a control with up to two executions, and its error handling
are actions. The code does not look at what the call of a control returned
(`switch.py:87-96`), so `Execute` brings the object to the state that was asked for or
leaves it as it is, and a control that ended without an error says nothing of its object.
A fetch may raise a `TrueNASError`, which the tolerant ones turn into an empty dict, or
another exception. `since` and `window` are history variables: the states the object had
while a poll ran.

`Values` reads one answer of any kind and computes what the entities show. The server
may leave out the parts that hold a value or send null, a number, an infinite one (which
JSON text may contain), digits in a string or anything else for them, and null or
something else (`Other`) where a table or a list should be; the legend of a graph may be
null and its rows too short. `Error` stands for an exception of the code that computes
the value. `Ejson` has both directions of the codec for datetimes and times of day.

## 3. The runs

| Run | Instance | Expected | Shows |
|---|---|---|---|
| `ClientSafety` | an opener, two calls (one with `job=True`), a closer | pass | the invariants, the action property on leaks, and the refinement of `SharedRpc` |
| `ClientLiveness` | a job call, a ping, a closer | pass | `EveryJobEnds` |
| `ClientRetry` | one call | violation | an error *answer* is retried, not only a transport failure |
| `ClientUnload` | an opener, a call, a closer | violation | a call in flight reconnects after the unload closed the client |
| `ClientTimeout` | one call | violation | a call has no timeout |
| `JsonRpc` | a plain call, a job call, a closer | pass | the invariants of the library client, and the refinement of `Transport` |
| `JsonRpcLiveness` | a ping, a job call | pass | waits end; what a failed ping leaves behind |
| `JsonRpcDrop` | a job call | violation | a `Job` made while `on_close()` runs is never woken |
| `Components` | six components, each on an instance of its own | pass | the safety of what is above the wrapper, and of logins |
| `EventLoop` | one entry, its alerts, or one entity | pass | issues follow alerts; a rejected key leads to a reauth flow once its session is gone; what an entity shows is not stale and follows its object |
| `LifecycleOptions` | one entry | violation | options saved during a setup never take effect |
| `UpdateRefused` | one entity | violation | an update that the server refuses is reported as under way |

### Properties of the client

* `LockDiscipline`: the lock is held exactly by the job inside the locked region;
  no exception path keeps it, not even the `AttributeError` of a `_client` that
  `close()` reset in between.
* `OneRequestAtATime`: never two requests on the wire.
* `InstallNeverOverwrites`: `connect()` never replaces a live connection. It holds
  because only the lock holder and the opener connect, and the opener runs alone.
* `RetryLeavesFailedConnection`: the second attempt uses a newer connection than
  the first, and the failed one never becomes `self._client` again.
* `LeaksOnlyByKnownPaths`: a connection is lost to everyone in three ways only: a
  handshake timeout, an unmapped exception of the login, and a `close()` that
  resets a newer connection than the one it read.
* `ImplementsSharedRpc`: `call()` refines `SharedRpc`.
* `EveryJobEnds`: every started job ends, unless a `job=True` call is stranded on a
  drop that nothing wakes it from.
* `NoLostWakeup`: once an `on_close()` that came after the socket has gone through the
  calls, in any thread, no call waits for an answer that cannot come, whichever side of
  the listing it registered, also when it was sent behind the `on_close()` of a close
  frame. Of that first one alone this is not true: a call sent after it waits for the
  second.
* `JobIsNamedByItsId`: a `Job` is made from the id of its job, never from its
  result, in both styles, because the job's events come first and are subscribed to.
* `CallsAreInProgress`: `_calls` holds the request in progress and nothing else but
  pings whose send failed.
* `EndedJobIsReady`: while the connection is up a job that has ended never leaves its
  caller waiting, whichever of them made the Event.
* `ImplementsTransport`: the library client refines `Transport`.
* `CallsReturn`, `JobsReturn`: a wait for an answer ends; a wait for a job ends or
  the connection drops.

### Properties of the integration

* `ServicesLostOnlyInSetup`, `ServicesHaveAnEntry`: the services exist while an entry is
  loaded, and only while there is one. The first has an exception, which the property
  names: `async_unregister_services` counts the entries that are LOADED at that
  instant, and one that is still forwarding its platforms loses the services it found.
* `OpenClientsAreOwned`: a client with a connection belongs to an entry, with three
  exceptions, each of which the property names: a first refresh that failed, an exception
  that the setup does not catch, and a call in flight when an unload closed its client,
  which may connect again. Rejected and failed connects, and an unload without such a call,
  leave nothing behind.
* `LoadedEntryKeepsItsClient`: a loaded entry, and one whose unload failed, has a client
  that no other entry uses, that was not given up, and that nothing has closed.
* `StoredKeyIsUsed`: a loaded entry runs on the stored key or is about to be reloaded,
  also when the key was replaced during a setup. It is the reload of
  `async_update_reload_and_abort` that makes this true, not the update listener.
* `RejectionLeadsToReauth`: a key that the server no longer accepts leads to a reauth
  flow once the session that was logged in with it is gone, although tolerant coordinators
  and controls swallow the rejection. Until then nobody presents the key, and the entry
  goes on polling with it.
* `SettledStaysGone`: polls may bring the issue of a dismissed alert back, but not once a
  poll that read it later has ended and none that read it before is under way.
* `IssuesGoForAReason`: an issue goes for the data of its own entry, at the end of
  its fix flow, or when its entry is gone.
* `IssuesFollowAlerts`: an alert that stays as it is has, or has not, its issue in the end.
* `OneEntryPerMachine`: flows that overlap do not configure a NAS twice.
* `StoredDataWereProbed`: what a flow writes was tried, all of it together, and the NAS
  that answered is that of the entry; a reauth flow, which probes with an address it
  read before, included.
* `SuccessIsMutual`, `RightKeyLogsIn`, `FailureLeavesNoSession`: at a genuine server a
  login succeeds only with the secret of the key. One that does not hold the keys is found
  out by SCRAM; it can make a plain login succeed, with any key, but never when the caller
  asked for SCRAM. The right key does log in wherever counts and mechanisms allow
  it; a login that failed, also one that the server had accepted before it was
  verified, leaves no session unless a call failed on its way.
* `SnapshotIsFaithful`: it speaks of one disk, whatever the others do between the three
  calls, taking its name included. If it has the same name in `pool.query` and
  `disk.query` it is shown as a problem only if it has a bad leaf, and is if all it has
  are bad; if it has the same name in `disk.query` and `disk.temperatures` it gets its own
  temperature or none; and every disk that `disk.query` lists is available under its own
  id. A disk renamed between two of the calls may get what belongs to another one.
* `NoStaleState`: while an entity is available it shows a state that its object had during
  the last poll to end.
* `StateIsShownInTheEnd`: an object that stays as it is from some moment on, whatever a
  control did to it, is shown as it is or not shown at all. The polls of the timer are
  enough, as the refresh that a control requests may be dropped.
* `ValuesAreSound`: it names, for each kind of answer, exactly the malformed ones on which
  the code raises: an infinite number (`to_int` does not catch `OverflowError`), null or
  something else where a table or a list should be, and a graph without a legend, with a
  row that is too short or with something else than numbers in it. On all others
  percentages are missing only when a number is, and within range when the numbers
  fit; what several entities show agrees; and the walk over the datasets finds each.
* `WholeSecondsAreExact`: whole seconds go through the codec unchanged in both directions,
  also before the epoch; a time that the client sends is decoded to what was sent; a time
  of day is decoded exactly or, with a fraction, refused. Of other times nothing is
  promised: they are decoded wrongly (section 5).

### Bounds

A call makes at most two raw calls, an opener one connection, so the jobs
alone bound every sequence in the state and no counter needs a cap. Two calls are
the smallest number for which the lock matters; one closer is the smallest for
which the unlocked `close()` does, and a second `close()` of the same client does
not occur in the code (a failed setup has no unload). An opener is in the safety
run because connections made without the lock are the hard case for
`InstallNeverOverwrites`; the liveness run leaves it out, since it only delays the
others and its own loop-free path ends under `LocalFairness`. `Rest`, a stuttering
step when every job has ended, keeps TLC's deadlock check meaningful.

In `JsonRpcClient` two calls in a row show what one leaves to the next (the
subscription, the tables), and one closer beside the websocket thread gives two
threads in `on_close()`. The ping and the closer are in different runs only to keep
the state small.

`Components` has two entries, the least for which shared services matter, with two
clients (a client is used again once nothing refers to it; no step tells one from the
other, hence the symmetry), two coordinators of which one tolerates errors (five more of
the first kind add only states), `MaxReloads` = 2 (an update adds two reload tasks at
once), two keys, and one value of the options, since no property of that run is about
them; `LifecycleOptions` has two. `EventLoop` has one entry, as its properties are about
each entry for itself.

Its two entries share one alert: alerts meet only in the data of a poll, which is read and
applied at once; that two entries raise alerts is seen from `Synced` for an entry without
any. Two flows, two machines, two hosts and two keys let
flows overlap on the same NAS, on another one and on an address that now belongs to
another; two ids bound the entries. Logins have two secrets, two salts, and counts from
below `MinIters` to above `MaxIters`. Two disks and two names give every renaming, and with
`MaxChanges` = 2 a name passes from one disk to the other between two calls of a fetch. An
answer has up to two alerts (`MaxAlerts`) and cores (`MaxCores`). `Numbers` has zero, one
and a larger number; `Millis` lies around whole seconds on both sides of the epoch.

The entity of `EventLoop` needs no bound: an object has three states, and there are two
polls and at most two executions in the code. `LoopClasses` are five of the 22 classes, one
for each kind of coordinator (tolerant or not), of availability (always, keyed, or that of
the coordinator) and of control (none, with a refresh, without one, with errors taken
for a reboot); `NothingIsStale` is proved for all of them. The redeploy button stands for
the switches, too: they do no more to their object than somebody else may.

### Deadlock

It is checked in all runs but those of `JsonRpcClient` and `Components`. In
`JsonRpcClient` it is not: with a `job=True` call stranded the client does stop for good.
In `Components` some behaviours stop: flows run out of ids, the NAS stops changing, a
login ends, and one answer is read.

### Fairness

`LocalFairness`: a thread that can run does run, and the constructor and
the requests of the login have timeouts of their own. `PeerFairness`: the server
answers, and the socket thread delivers the answer or the drop. A `job=True` call
gets no fairness for the drop: a `Job` created after `on_close()` has gone through
the jobs waits on an event that nobody sets. `ClientTimeout` shows what is left
without a server that answers. `FairSpec` of `JsonRpcClient` is the same for one
connection: threads run, requests are answered, jobs end, messages are delivered
or the socket is seen to close. No fairness is asked of the drop or of a timeout.

`LoopFairness`: the event loop runs what can run and executor jobs end. Two steps have
strong fairness. `StartCall` of a poll: Home Assistant polls on a timer, and the lock of the
client is taken and freed again and again (`EveryJobEnds`). `LoginRejected`: a poll that
finds no session logs in and, when that happens again and again with a key which is not
accepted, is rejected some time; the network does not keep every login from the server.
Nothing is asked of polls on a session that lives, which present no key.
`EntityFairness`: polls end, well or badly, and the timer polls again after one that did
not raise; after one that raised nothing is asked of it, as a rejected key stops it.
`AlertFairness`: the timer polls, the calls of a poll return, and the polls of the timer
do not fail for ever. Nothing is asked of users, flows or servers.

### What is assumed of Home Assistant and the server

The event loop, the setup lock and `ConfigEntryState`, the tasks that reload an entry, the
flows in progress and the check of their unique id, and `DataUpdateCoordinator` (when its
listeners run, that a request made during another one is dropped, and that it may
overlap with the timer's poll) are modelled from how the code uses them.

The websocket library reads a close frame as the last message, hands it to the error
callback, then closes the socket and calls the close callback, whatever the first one
raised.

The server answers each request once, announces a job before it
ends, sends a job's events in order and, with new-style jobs, before the answer,
and its error objects have the shape `jsonrpc.py` gives them.

## 4. The proofs

Each theorem holds for any sets of jobs, callers, entries, alerts, flows and so on.

| Module | Theorems | Assumptions |
|---|---|---|
| `TrueNASClientProofs` | `TypeCorrect`, `LockIsReleased`, `MutualExclusion`, `NoOverwrite`, `RetryIsFresh`, `LeaksAreKnown`, `CallIsSharedRpc` | the kinds of job are disjoint; one opener |
| `JsonRpcClientProofs` | `TypeCorrect`, `NobodyMissesTheDrop`, `JobsAreNamed`, `CallsFit`, `EndedJobsAreReady`, `ClientIsTransport` | `ThreadsAssumption` of `JsonRpcClient` |
| `EntryLifecycleProofs` | `TypeCorrect`, `ServicesStay`, `ServicesGo`, `NoOtherLeak`, `ClientKept`, `KeyUsed` | `LifecycleAssumption` |
| `AlertRepairsProofs` | `AlertTypeCorrect`, `SettledIsGone`, `IssuesGoRightly` | `SourceAssumption` |
| `ConfigFlowProofs` | `CfgTypeCorrect`, `MachinesApart`, `StoredWereProbed` | none |
| `EntityProofs` | `NothingIsStale` | none |
| | `SnapshotsAreFaithful` | `DisksAssumption` of `Storage`: no device name is a serial number, none of them a status |
| `ApiKeyAuthProofs` | `AuthTypeCorrect`, `LoginsAreMutual`, `RightKeysLogIn`, `FailuresLeaveNothing` | `SecretAssumption` and `IterationsAssumption` of `ApiKeyAuth`; free terms for the cryptography |
| `ValuesProofs` | `ShownValuesAreSound`, `TimesAreShownWell` | `NumbersAssumption`, `NoValueAssumption` and `NoErrorAssumption` of `Values`: numbers are natural, None and an exception are not among the values, and the datasets are finitely many |

Each component has one inductive invariant, one lemma for each action or group of
actions, and theorems that take what they need from it.

**`TrueNASClientProofs`, `IInv`.** The properties are not inductive alone. `RoleInv`
says which steps a kind of job can be at, so that an opener or a closer never holds
the lock; `OpenerFirst` that until the opener has connected nothing else uses the
client, which is why `connect()` without the lock cannot overwrite; `AttemptInv`
counts the raw calls made at each step, so a third attempt is impossible; `FreshInv`
says that after a failed first attempt `self._client` is empty or newer than the
connection that failed, which survives a concurrent `close()` because `close()` only
ever resets it. `LeaksAreKnown` goes through the steps that reset `self._client` or a
local variable.

**`TrueNASClientProofs`, the refinement.** `RpcStatus` and `RpcRan` map the state to
`SharedRpc`. Every step of a job inside a call, and every step of another job, leaves
both alone (`QuietStep`); a call takes its turn when it gets the lock, which
`LockDiscipline` says nobody else then has, and returns a result only after the server
ran it. `AbandonInv` adds that a call whose login failed ends in the exception of that
login.

**`JsonRpcClientProofs`, `RInv`.** `Types`; `RequestsFit`: nobody has heard of a request
that its call has not registered; `WaitsFit`: a call that waits without an answer is
registered, and what is registered has no answer; `ClosesFit`: an `on_close()` comes after
the socket or is that of a close frame, and a thread that has listed the calls after the
socket went still has every one that waits to wake; `EventsFit`: an event is taken of a job only, no `job=True` call gets a result,
and with new-style jobs the event has taken its call out of the table; `JobsFit`: while
the connection is up and no close frame was read, the Event of a job is the one its caller has, and that of a job
that ended is set. `NoLostWakeup` is inductive with `WaitsFit` and `ClosesFit`;
`EndedJobsAreReady` follows from `JobsFit`.

**`JsonRpcClientProofs`, the refinement.** To that it adds `AnswersFit` (an answer is
what the server made of the request, or the drop; the end of a job is never an answer,
because its first event has been one), `StagesFit` (only a `job=True` call gets to its
`Job`) and `StatesFit` (the state of a job follows its events, and while the connection
is up and no close frame was read only its end sets its Event), and shows that each step is one of `Transport` or
stutters.

**`EntryLifecycleProofs`, `IInv`.** `StepsFit` relates `state` and `step`; `ClientsFit`,
`ClientsApart` and `ClientsConnected` say at which steps an entry has a client, that no
two entries share one, and that nothing closes it from `Identified` to the unload, so that
it is open or lost (`Usable`). `FlightsFit`: a call in flight runs on the client of an
entry or on one that was closed under it, so that the only client a call can reopen
is `overtaken`. `KeysFit`: a setup which started with a key that was replaced has a reload
waiting. `ServicesStay` needs `ServicesFit`: an entry past `AllRefreshed` has the services,
or is `stripped`.

**`AlertRepairsProofs`, `AInv`.** `SettledIsNowhere`: a settled alert is in no poll under
way, not in the data and not among the issues. That the data are included is what
keeps a poll that fails from bringing the issue back.

**`ConfigFlowProofs`, `CInv`.** `Shapes` has the form of entries and flows. `ReauthFits`
says that a reauth flow is in progress as long as its entry is there, and that the
address it probes is still that of the entry: a reconfigure flow, which would change it,
finds the reauth flow in progress. `StoredWereProbed` rests on that. `OneEntryPerMachine`
is inductive with these, since the check of the unique id and the creation of the entry
have no await between them.

**`EntityProofs`, `EInv`.** `PollsRemember`: a poll under way has seen every state since it
began, the one it read included, so that `window` has what a success shows. `ShownFits`
adds the fetches that turn an error into an empty dict: their classes are all keyed
(`TolerantIsKeyed`, over the 22 classes), so that their entities become unavailable.

**`EntityProofs`, `SInv` of `Storage`.** `AnswersFit`: what a fetch has been told is what
the NAS was at that moment, with the names of that moment; what it was later does not
enter. As no two disks have one name, a name leads back to its disk in each answer
(`NamesLeadBack`), and so does the walk over the topology (`WalkFindsTheDisk`): a
disk with the same name in two answers is joined with itself. `IdsAreUnique` says that no
two disks have one id, which needs that a serial number is never a device name: an id is
one or the other. The theorem is an action property: it compares what `CallTemperatures`
stores with what the first call saw and with what the NAS is at the last.

**`ApiKeyAuthProofs`, `AInv`.** First come lemmas on terms: what HMAC and the hash were
applied to can be read off them (`KeysAreFree`), a signature XORed twice is gone
(`XorCancels`), and so the server takes a proof if and only if it was made with the salted
password it has (`ProofNeedsTheKey`) and the client takes a signature if and only if
it was made with the server key of its password (`SignatureNeedsTheKey`). `AInv` then
follows one login. `StepsFit` says what the key, the mechanism and each message are at
the step that uses them; `NotYet` that nobody is logged in, and no last message made,
before the plain login or the last exchange, so that a login which an impostor lets
succeed is a plain one; `SignedFits` that a genuine server which signed has taken the
proof, so that only an impostor's signature is refused and only its session needs the
logout. It holds for counts
on both sides of the bounds, keys that were computed for another salt, and servers
that hold other keys.

**`ValuesProofs`.** One answer is read, so `Received`, the form of that answer, is the
whole invariant; the work is in one lemma for each kind of answer, which says on which
answers of that kind the code raises (`ToIntRaises` for a number) and what holds on the
others. `PartIsAPercentage`
is the arithmetic of `round()`. `AlertsAreCounted`, for any number of alerts, counts
them by level with the cardinality theorems. `SumIsBetween` says of the sum of the
community modules, which is a fold over a set in the order of CHOOSE, that it is between
two of any finitely many numbers times their number, from which the average temperature
of any number of cores is between two of them. `TreesAreVisited` says that the walk of
`DatasetCoordinator._fetch` reaches every dataset of every finite tree: each round adds
a dataset while one is missing (`WalksGrow`). These are inductions on sizes and rounds,
made of the least one that breaks the claim (`LeastNumber`), since the induction
theorems of the library take an operator; that the recursive functions have a solution
is proved first (`SumsExist`, `WalksExist`). Numbers, times, versions, alerts, cores and
trees have no bound in the theorems; a graph has the columns of `Graphs`.

The proof refuted one claim that TLC had found to hold. `PoolIsSound` said that a
percentage is in its range if and only if a pool does not use more than it has. With
`size` = 3000 and `allocated` = 3001 the rounded percentage is 100.0, but none of the
`Numbers` of the run is that large. It now says that a percentage is in range when the
numbers fit, and is not when they are off by a thousandth.

Only model-checked: the liveness properties `EveryJobEnds`, `CallsReturn`,
`JobsReturn`, `IssuesFollowAlerts`, `RejectionLeadsToReauth` and `StateIsShownInTheEnd`, as
liveness under fairness is out of the prover's reach. Every other property of a passing run has a theorem.

## 5. Where the code and its documentation disagree

* `client.py:130` says one retry "on transport failure"; every `ClientException`
  but ENOTAUTHENTICATED is retried (`ClientRetry`).
* `tests/test_init.py:75` says an unload "closes the client"; a call in flight opens
  it again (`ClientUnload`).
* `truenas_api_client/config.py:4` gives a default call timeout; the wrapper passes
  `None`, which means no timeout (`ClientTimeout`).
* `truenas_api_client/__init__.py:659` says `on_close()` ends all unreturned jobs; a
  `Job` made while it runs waits for ever (`JsonRpcDrop`). The shortest behaviour
  makes the `Job` after the calls were woken, so that the loop over the jobs breaks;
  a `Job` made after the loop, or one whose Event was overwritten, ends the same way,
  with new-style jobs too.
* `__init__.py:194` says a change of the options reloads the entry; the options are read
  at line 124 and the listener is registered at line 185, after the first refreshes:
  options saved in between are stored and not used (`LifecycleOptions`).
* `update.py:86` says that a non-transport failure of an install is a real error;
  `client.py:86-88` makes a connection error of every error answer but an auth
  rejection, and `update.py:78` takes that for an update under way (`UpdateRefused`).
* `truenas_api_client/ejson.py:42` and `56` say that the number of a `$date` is the total
  milliseconds since the epoch. The decoder (lines 84-85) adds the milliseconds twice, so
  that a time is shown up to a second late and may pass a later one; the encoder (line
  57) drops them. The scrub times and the boot time of the sensors come through the
  decoder. No run is made of this one: `DecodeDate` of `Ejson` is what the code does, and
  `WholeSecondsAreExact` promises whole seconds only.

## 6. What remains

* `EntryLifecycle` over `SharedRpc` itself instead of over the outcomes of a call: the
  wrapper's own states would multiply those of the entries, and what they tell the
  lifecycle are the outcomes.
* A NAS in common of `EntryLifecycle` and `ConfigFlow`, for an address that reaches
  another NAS than the one its entry was made for.

## 7. Not modelled

Of the library client: `unsubscribe` and subscriptions other than the job events,
background calls other than `ping` and the handshake, error responses with no request
id, and messages that are not valid JSON; the integration makes no use of the first two
and a conforming server sends none of the others. Of the login: base64, the syntax of
messages, saslprep and channel binding, which the client never uses, and what the
cryptographic primitives compute. Of the codec: sets, addresses and calendar dates,
which go through `str()` and the parsers of the library.

Device metadata of `entity.py`, constants and the redaction of diagnostics
(`diagnostics.py`, `const.py`): layout without state. Wording, icons, units and entity
descriptions. The TLS and websocket layers. `legacy.py`, `utils.py` and the
`midclt` command line: the integration always connects to `/api/current`, which selects
`JSONRPCClient`, and reaches none of them.
