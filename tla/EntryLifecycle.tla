--------------------------- MODULE EntryLifecycle ---------------------------
(***************************************************************************)
(* __init__.py, services.py and the error mapping of coordinator.py: the   *)
(* setup, unload and reload of the config entries of the domain, the two   *)
(* services they share, and the calls that run on their clients.           *)
(*                                                                         *)
(* Home Assistant runs all of this on one event loop.  A step is the code  *)
(* between two awaits; coroutines of different entries interleave at every *)
(* await, those of one entry are kept apart by its setup lock (an entry    *)
(* whose step is not "idle" holds it).  Every setup builds a TrueNASClient;*)
(* what a call on it does is TrueNASClient.tla, of which only the outcome  *)
(* is kept: fine, rejected (TrueNASAuthError), failed (another             *)
(* TrueNASError) or crashed (an exception that is not mapped).             *)
(***************************************************************************)
EXTENDS Naturals, Sequences

CONSTANTS
  Entries,       \* config entries of the domain
  Clients,       \* TrueNASClient objects; bounds how many exist at a time
  NoClient,      \* no client
  Coordinators,  \* the coordinators, in the order of their first refresh
  Tolerant,      \* those whose _fetch turns a TrueNASError into an empty dict
  Keys,          \* the API keys of the server of each entry
  Options        \* values of the options (poll intervals, entity groups)

CoordinatorSet == {Coordinators[i] : i \in DOMAIN Coordinators}

AllKeys == UNION {Keys[e] : e \in Entries}

ASSUME LifecycleAssumption ==
  /\ NoClient \notin Clients
  /\ Coordinators \in Seq(STRING) /\ Len(Coordinators) > 0
  /\ Tolerant \subseteq CoordinatorSet
  /\ DOMAIN Keys = Entries

VARIABLES
  state,      \* ConfigEntryState of each entry
  step,       \* the await at which its setup or unload is
  at,         \* the first refresh it is at
  local,      \* `client` in its async_setup_entry
  runtime,    \* entry.runtime_data.client
  entry,      \* what is stored: entry.data[api_key] and entry.options
  used,       \* what its last setup read of them
  listening,  \* the entries whose update listener is registered
  reloads,    \* the reload tasks waiting for the setup lock of each entry
  reloading,  \* the entries being unloaded by a reload
  reauth,     \* the entries with a reauth flow
  services,   \* whether the dismiss and restore services are registered
  stripped,   \* the entries set up, or nearly, whose services were removed
  conn,       \* the connection of each client
  dropped,    \* the clients given up without a close()
  overtaken,  \* the clients that an unload closed while a call ran on them
  flight,     \* the calls in executor threads
  valid       \* the API keys that the server of each entry accepts

vars == <<state, step, at, local, runtime, entry, used, listening, reloads, reloading,
          reauth, services, stripped, conn, dropped, overtaken, flight, valid>>

States == {"not_loaded", "setup_in_progress", "setup_retry", "setup_error",
           "loaded", "unload_in_progress", "failed_unload"}

Steps == {"idle", "restart", "identify", "close_auth", "close_retry", "refresh",
          "forward", "platforms", "close"}

\* "open": a session that is logged in; "lost": one that dropped or that a failed
\* retry has given up, so that the next call logs in; "reopened": connected by a
\* call that was running when close() came.
Connections == {"closed", "open", "lost", "reopened"}

\* "poll": the poll of a coordinator that does not tolerate errors; "other": the
\* poll of one that does, a button, switch, update, service or repair flow.
Work == {"poll", "other"}

Flights == [client : Clients, entry : Entries, work : Work, key : AllKeys]

MaxReloads == 2  \* reload tasks of one entry waiting at the same time

Init ==
  /\ state = [e \in Entries |-> "not_loaded"]
  /\ step = [e \in Entries |-> "idle"]
  /\ at = [e \in Entries |-> 0]
  /\ local = [e \in Entries |-> NoClient]
  /\ runtime = [e \in Entries |-> NoClient]
  /\ entry \in [Entries -> [key : AllKeys, opts : Options]]
  /\ \A e \in Entries : entry[e].key \in Keys[e]
  /\ used = entry
  /\ listening = {}
  /\ reloads = [e \in Entries |-> 0]
  /\ reloading = {}
  /\ reauth = {}
  /\ services = FALSE
  /\ stripped = {}
  /\ conn = [c \in Clients |-> "closed"]
  /\ dropped = {}
  /\ overtaken = {}
  /\ flight = {}
  /\ valid = [e \in Entries |-> {entry[e].key}]

-----------------------------------------------------------------------------
(* Helpers *)

Loaded(e) == state[e] = "loaded"

Accepted(e) == used[e].key \in valid[e]

Move(e, s, p) ==
  /\ state' = [state EXCEPT ![e] = s]
  /\ step' = [step EXCEPT ![e] = p]

\* Nothing refers to the object any more: it may stand for a new one.
Free(c) ==
  /\ conn[c] \in {"closed", "lost"}
  /\ \A e \in Entries : c \notin {local[e], runtime[e]}
  /\ \A f \in flight : f.client # c

\* What the executor job of a setup leaves of its connection when it raises.
Torn(c) == \E s \in {"closed", "open"} : conn' = [conn EXCEPT ![c] = s]

\* A first refresh returns: its calls went through on a session, or on a new one
\* that took the key, or its _fetch made an empty dict of what they raised.
RefreshReturns(e) ==
  \/ conn[local[e]] = "open" /\ UNCHANGED conn
  \/ conn[local[e]] = "lost" /\ Accepted(e) /\ conn' = [conn EXCEPT ![local[e]] = "open"]
  \/ Coordinators[at[e]] \in Tolerant /\ conn' = [conn EXCEPT ![local[e]] = "lost"]

-----------------------------------------------------------------------------
(* async_setup_entry.  It runs with the setup lock held, when the entry is *)
(* added or enabled, when the retry timer fires, and in a reload.          *)

StartSetup(e, c) ==
  /\ \/ step[e] = "restart"
     \/ step[e] = "idle" /\ state[e] \in {"not_loaded", "setup_retry"}
  /\ Free(c)
  /\ Move(e, "setup_in_progress", "identify")
  /\ local' = [local EXCEPT ![e] = c]
  /\ used' = [used EXCEPT ![e].key = entry[e].key]
  /\ conn' = [conn EXCEPT ![c] = "closed"]
  /\ dropped' = dropped \ {c}
  /\ overtaken' = overtaken \ {c}
  /\ UNCHANGED <<at, runtime, entry, listening, reloads, reloading, reauth, services,
                 stripped, flight, valid>>

\* _connect_and_identify returned; `opts = entry.options` is read here.
Identified(e) ==
  /\ step[e] = "identify"
  /\ Accepted(e)
  /\ Move(e, "setup_in_progress", "refresh")
  /\ at' = [at EXCEPT ![e] = 1]
  /\ used' = [used EXCEPT ![e].opts = entry[e].opts]
  /\ conn' = [conn EXCEPT ![local[e]] = "open"]
  /\ UNCHANGED <<local, runtime, entry, listening, reloads, reloading, reauth, services,
                 stripped, dropped, overtaken, flight, valid>>

\* TrueNASAuthError, or any other TrueNASError: the client is closed next.
NotIdentified(e) ==
  /\ step[e] = "identify"
  /\ \/ ~Accepted(e) /\ Move(e, "setup_in_progress", "close_auth")
     \/ Move(e, "setup_in_progress", "close_retry")
  /\ Torn(local[e])
  /\ UNCHANGED <<at, local, runtime, entry, used, listening, reloads, reloading, reauth,
                 services, stripped, dropped, overtaken, flight, valid>>

\* Any other exception, a missing physmem too, is Home Assistant's to handle; the
\* client stays as it is.
IdentifyCrashes(e) ==
  /\ step[e] = "identify"
  /\ Move(e, "setup_error", "idle")
  /\ Torn(local[e])
  /\ dropped' = dropped \cup {local[e]}
  /\ local' = [local EXCEPT ![e] = NoClient]
  /\ UNCHANGED <<at, runtime, entry, used, listening, reloads, reloading, reauth, services,
                 stripped, overtaken, flight, valid>>

\* Mutant of CloseRejected: ConfigEntryAuthFailed is raised without the close().
CloseRejectedLeaks(e) ==
  /\ step[e] = "close_auth"
  /\ Move(e, "setup_error", "idle")
  /\ reauth' = reauth \cup {e}
  /\ local' = [local EXCEPT ![e] = NoClient]
  /\ UNCHANGED <<at, runtime, entry, used, listening, reloads, reloading, services,
                 stripped, conn, dropped, overtaken, flight, valid>>

\* close(), then ConfigEntryAuthFailed: a reauth flow and no retry.
CloseRejected(e) ==
  /\ step[e] = "close_auth"
  /\ Move(e, "setup_error", "idle")
  /\ reauth' = reauth \cup {e}
  /\ conn' = [conn EXCEPT ![local[e]] = "closed"]
  /\ local' = [local EXCEPT ![e] = NoClient]
  /\ UNCHANGED <<at, runtime, entry, used, listening, reloads, reloading, services,
                 stripped, dropped, overtaken, flight, valid>>

\* close(), then ConfigEntryNotReady: setup is tried again later.
CloseNotReady(e) ==
  /\ step[e] = "close_retry"
  /\ Move(e, "setup_retry", "idle")
  /\ conn' = [conn EXCEPT ![local[e]] = "closed"]
  /\ local' = [local EXCEPT ![e] = NoClient]
  /\ UNCHANGED <<at, runtime, entry, used, listening, reloads, reloading, reauth, services,
                 stripped, dropped, overtaken, flight, valid>>

\* A first refresh raised: ConfigEntryAuthFailed for a rejection, unless its
\* _fetch tolerates errors, else ConfigEntryNotReady.  Or the last one returned, and
\* what follows raised, as alerts that are null make async_sync_alert_issues do.
\* Nothing closes the client, which may have lost its connection.
RefreshFails(e) ==
  /\ step[e] = "refresh"
  /\ \/ /\ ~Accepted(e)
        /\ Coordinators[at[e]] \notin Tolerant
        /\ Move(e, "setup_error", "idle")
        /\ reauth' = reauth \cup {e}
     \/ /\ \/ Move(e, "setup_retry", "idle")
           \/ at[e] = Len(Coordinators) /\ Move(e, "setup_error", "idle")
        /\ UNCHANGED reauth
  /\ at' = [at EXCEPT ![e] = 0]
  /\ UNCHANGED conn \/ conn' = [conn EXCEPT ![local[e]] = "lost"]
  /\ dropped' = dropped \cup {local[e]}
  /\ local' = [local EXCEPT ![e] = NoClient]
  /\ UNCHANGED <<runtime, entry, used, listening, reloads, reloading, services, stripped,
                 overtaken, flight, valid>>

\* Mutant of Refreshed: it goes on after the last coordinator.
RefreshedPastTheEnd(e) ==
  /\ step[e] = "refresh"
  /\ at[e] <= Len(Coordinators)
  /\ RefreshReturns(e)
  /\ at' = [at EXCEPT ![e] = @ + 1]
  /\ UNCHANGED <<state, step, local, runtime, entry, used, listening, reloads, reloading,
                 reauth, services, stripped, dropped, overtaken, flight, valid>>

\* async_config_entry_first_refresh of the next coordinator returned.
Refreshed(e) ==
  /\ step[e] = "refresh"
  /\ at[e] < Len(Coordinators)
  /\ RefreshReturns(e)
  /\ at' = [at EXCEPT ![e] = @ + 1]
  /\ UNCHANGED <<state, step, local, runtime, entry, used, listening, reloads, reloading,
                 reauth, services, stripped, dropped, overtaken, flight, valid>>

\* Mutant of AllRefreshed: the services are registered by the first entry only.
AllRefreshedOnce(e) ==
  /\ step[e] = "refresh"
  /\ at[e] = Len(Coordinators)
  /\ RefreshReturns(e)
  /\ Move(e, "setup_in_progress", "forward")
  /\ at' = [at EXCEPT ![e] = 0]
  /\ runtime' = [runtime EXCEPT ![e] = local[e]]
  /\ local' = [local EXCEPT ![e] = NoClient]
  /\ listening' = listening \cup {e}
  /\ services' = (services \/ \A o \in Entries \ {e} : state[o] = "not_loaded")
  /\ stripped' = stripped \ {e}
  /\ UNCHANGED <<entry, used, reloads, reloading, reauth, dropped, overtaken, flight,
                 valid>>

\* After the last first refresh: runtime data, update listener and services,
\* in one go, then async_forward_entry_setups is awaited.
AllRefreshed(e) ==
  /\ step[e] = "refresh"
  /\ at[e] = Len(Coordinators)
  /\ RefreshReturns(e)
  /\ Move(e, "setup_in_progress", "forward")
  /\ at' = [at EXCEPT ![e] = 0]
  /\ runtime' = [runtime EXCEPT ![e] = local[e]]
  /\ local' = [local EXCEPT ![e] = NoClient]
  /\ listening' = listening \cup {e}
  /\ services' = TRUE
  /\ stripped' = stripped \ {e}
  /\ UNCHANGED <<entry, used, reloads, reloading, reauth, dropped, overtaken, flight,
                 valid>>

Forwarded(e) ==
  /\ step[e] = "forward"
  /\ Move(e, "loaded", "idle")
  /\ UNCHANGED <<at, local, runtime, entry, used, listening, reloads, reloading, reauth,
                 services, stripped, conn, dropped, overtaken, flight, valid>>

-----------------------------------------------------------------------------
(* async_unload_entry and reloads.  The user unloads an entry by disabling *)
(* or removing it.                                                         *)

\* Mutant of StartUnload: the client is closed before the platforms unload.
StartUnloadClosing(e) ==
  /\ step[e] = "idle"
  /\ Loaded(e)
  /\ Move(e, "unload_in_progress", "platforms")
  /\ conn' = [conn EXCEPT ![runtime[e]] = "closed"]
  /\ UNCHANGED <<at, local, runtime, entry, used, listening, reloads, reloading, reauth,
                 services, stripped, dropped, overtaken, flight, valid>>

StartUnload(e) ==
  /\ step[e] = "idle"
  /\ Loaded(e)
  /\ Move(e, "unload_in_progress", "platforms")
  /\ UNCHANGED <<at, local, runtime, entry, used, listening, reloads, reloading, reauth,
                 services, stripped, conn, dropped, overtaken, flight, valid>>

StopRetrying(e) ==
  /\ step[e] = "idle"
  /\ state[e] \in {"setup_retry", "setup_error"}
  /\ Move(e, "not_loaded", "idle")
  /\ UNCHANGED <<at, local, runtime, entry, used, listening, reloads, reloading, reauth,
                 services, stripped, conn, dropped, overtaken, flight, valid>>

\* async_reload has the setup lock; an entry that failed to unload stays so.
Reload(e) ==
  /\ step[e] = "idle"
  /\ reloads[e] > 0
  /\ reloads' = [reloads EXCEPT ![e] = @ - 1]
  /\ CASE Loaded(e) -> /\ Move(e, "unload_in_progress", "platforms")
                       /\ reloading' = reloading \cup {e}
       [] state[e] = "failed_unload" -> UNCHANGED <<state, step, reloading>>
       [] OTHER -> Move(e, "not_loaded", "restart") /\ UNCHANGED reloading
  /\ UNCHANGED <<at, local, runtime, entry, used, listening, reauth, services, stripped,
                 conn, dropped, overtaken, flight, valid>>

\* async_unload_platforms returns whether every platform unloaded.
PlatformsUnloaded(e) ==
  /\ step[e] = "platforms"
  /\ \/ Move(e, "unload_in_progress", "close") /\ UNCHANGED reloading
     \/ Move(e, "failed_unload", "idle") /\ reloading' = reloading \ {e}
  /\ UNCHANGED <<at, local, runtime, entry, used, listening, reloads, reauth, services,
                 stripped, conn, dropped, overtaken, flight, valid>>

\* Mutant of UnregisterServices: the entry being unloaded counts as well.
UnregisterServicesNever(e) ==
  IF \E o \in Entries : Loaded(o) \/ state[o] = "unload_in_progress"
  THEN UNCHANGED <<services, stripped>>
  ELSE services' = FALSE /\ stripped' = stripped

\* async_unregister_services: no entry is LOADED at this instant.
UnregisterServices(e) ==
  IF \E o \in Entries : Loaded(o)
  THEN UNCHANGED <<services, stripped>>
  ELSE /\ services' = FALSE
       /\ stripped' = stripped \cup {o \in Entries : step[o] = "forward"}

\* client.close(), async_unregister_services(), then Home Assistant runs the
\* on_unload callbacks, drops runtime_data and, in a reload, goes on to setup.
ClientClosed(e) ==
  /\ step[e] = "close"
  /\ Move(e, "not_loaded", IF e \in reloading THEN "restart" ELSE "idle")
  /\ conn' = [conn EXCEPT ![runtime[e]] = "closed"]
  /\ overtaken' = IF \E f \in flight : f.client = runtime[e]
                  THEN overtaken \cup {runtime[e]} ELSE overtaken
  /\ runtime' = [runtime EXCEPT ![e] = NoClient]
  /\ UnregisterServices(e)
  /\ listening' = listening \ {e}
  /\ reloading' = reloading \ {e}
  /\ UNCHANGED <<at, local, entry, used, reloads, reauth, dropped, flight, valid>>

-----------------------------------------------------------------------------
(* Calls on the client of a loaded entry, each in an executor thread; the  *)
(* lock of the client lets one run at a time.                              *)

StartCall(e, w) ==
  /\ Loaded(e)
  /\ \A f \in flight : f.client # runtime[e]
  /\ flight' = flight \cup {[client |-> runtime[e], entry |-> e, work |-> w,
                             key |-> used[e].key]}
  /\ UNCHANGED <<state, step, at, local, runtime, entry, used, listening, reloads,
                 reloading, reauth, services, stripped, conn, dropped, valid, overtaken>>

\* The connection of a client when a call on it ends: a call without a session
\* logs in, one whose attempt fails closes the session and logs in again, and
\* both need a key that the server accepts.  A call of a client that was closed
\* in the meantime fails, or connects again.
ConnAfter(f) ==
  LET c == f.client
      in == f.key \in valid[f.entry]
  IN  CASE conn[c] = "closed" -> {"closed"} \cup (IF in THEN {"reopened"} ELSE {})
        [] conn[c] = "lost"   -> {"lost"} \cup (IF in THEN {"open"} ELSE {})
        [] conn[c] = "open"   -> {"open", "lost"}
        [] OTHER              -> {conn[c]}

Ends(f) ==
  /\ flight' = flight \ {f}
  /\ \E s \in ConnAfter(f) : conn' = [conn EXCEPT ![f.client] = s]

\* It returned, or raised something that is shown and forgotten.
CallEnds(f) ==
  /\ Ends(f)
  /\ UNCHANGED <<state, step, at, local, runtime, entry, used, listening, reloads,
                 reloading, reauth, services, stripped, dropped, overtaken, valid>>

\* Mutant of CallRejected: the except clauses of _async_update_data swapped.
CallRejectedAsFailure(f) ==
  /\ f.key \notin valid[f.entry]
  /\ Ends(f)
  /\ UNCHANGED <<state, step, at, local, runtime, entry, used, listening, reloads,
                 reloading, reauth, services, stripped, dropped, overtaken, valid>>

\* TrueNASAuthError, of a login or of a session that the server has ended: a poll
\* turns it into ConfigEntryAuthFailed and so into a reauth flow; everything else
\* only reports it.  A session that lives on is not asked for its key.
CallRejected(f) ==
  /\ f.key \notin valid[f.entry]
  /\ Ends(f)
  /\ reauth' = IF f.work = "poll" THEN reauth \cup {f.entry} ELSE reauth
  /\ UNCHANGED <<state, step, at, local, runtime, entry, used, listening, reloads,
                 reloading, services, stripped, dropped, overtaken, valid>>

-----------------------------------------------------------------------------
(* The user, the flows of config_flow.py, and the server.                  *)

\* Mutant of UpdateKey: the flow only updates the entry.
UpdateKeyOnly(e, k) ==
  /\ k \in valid[e] /\ k # entry[e].key
  /\ reloads[e] + 2 <= MaxReloads
  /\ entry' = [entry EXCEPT ![e].key = k]
  /\ reloads' = [reloads EXCEPT ![e] = @ + (IF e \in listening THEN 1 ELSE 0)]
  /\ reauth' = reauth \ {e}
  /\ UNCHANGED <<state, step, at, local, runtime, used, listening, reloading, services,
                 stripped, conn, dropped, overtaken, flight, valid>>

\* A reauth or reconfigure flow ends with a key it has tried: the update calls
\* the update listener, and async_update_reload_and_abort adds its own reload.
UpdateKey(e, k) ==
  /\ k \in valid[e] /\ k # entry[e].key
  /\ reloads[e] + 2 <= MaxReloads
  /\ entry' = [entry EXCEPT ![e].key = k]
  /\ reloads' = [reloads EXCEPT ![e] = @ + 1 + (IF e \in listening THEN 1 ELSE 0)]
  /\ reauth' = reauth \ {e}
  /\ UNCHANGED <<state, step, at, local, runtime, used, listening, reloading, services,
                 stripped, conn, dropped, overtaken, flight, valid>>

\* The options flow saves; _async_update_listener reloads the entry.
SaveOptions(e, o) ==
  /\ o # entry[e].opts
  /\ reloads[e] < MaxReloads
  /\ entry' = [entry EXCEPT ![e].opts = o]
  /\ reloads' = [reloads EXCEPT ![e] = @ + (IF e \in listening THEN 1 ELSE 0)]
  /\ UNCHANGED <<state, step, at, local, runtime, used, listening, reloading, reauth,
                 services, stripped, conn, dropped, overtaken, flight, valid>>

\* A connection drops.
ConnectionDrops(c) ==
  /\ conn[c] \in {"open", "reopened"}
  /\ conn' = [conn EXCEPT ![c] = "lost"]
  /\ UNCHANGED <<state, step, at, local, runtime, entry, used, listening, reloads,
                 reloading, reauth, services, stripped, dropped, overtaken, flight, valid>>

\* The administrator replaces the API key on the server.
RotateKey(e, k) ==
  /\ valid' = [valid EXCEPT ![e] = {k}]
  /\ k \notin valid[e]
  /\ UNCHANGED <<state, step, at, local, runtime, entry, used, listening, reloads,
                 reloading, reauth, services, stripped, conn, dropped, overtaken, flight>>

-----------------------------------------------------------------------------
SetupSteps(e) ==
  \/ \E c \in Clients : StartSetup(e, c)
  \/ Identified(e) \/ NotIdentified(e) \/ IdentifyCrashes(e)
  \/ CloseRejected(e) \/ CloseNotReady(e)
  \/ RefreshFails(e) \/ Refreshed(e) \/ AllRefreshed(e) \/ Forwarded(e)

UnloadSteps(e) == PlatformsUnloaded(e) \/ ClientClosed(e)

UserSteps(e) ==
  \/ StartUnload(e) \/ StopRetrying(e)
  \/ \E k \in Keys[e] : UpdateKey(e, k) \/ RotateKey(e, k)
  \/ \E o \in Options : SaveOptions(e, o)

CallSteps(e) ==
  \/ \E w \in Work : StartCall(e, w)
  \/ \E f \in flight : f.entry = e /\ (CallEnds(f) \/ CallRejected(f))

Next ==
  \/ \E e \in Entries :
       SetupSteps(e) \/ UnloadSteps(e) \/ Reload(e) \/ UserSteps(e) \/ CallSteps(e)
  \/ \E c \in Clients : ConnectionDrops(c)

Spec == Init /\ [][Next]_vars

-----------------------------------------------------------------------------
(* Properties                                                              *)

\* Every variable keeps its type.
TypeOK ==
  /\ state \in [Entries -> States]
  /\ step \in [Entries -> Steps]
  /\ at \in [Entries -> 0 .. Len(Coordinators)]
  /\ local \in [Entries -> Clients \cup {NoClient}]
  /\ runtime \in [Entries -> Clients \cup {NoClient}]
  /\ entry \in [Entries -> [key : AllKeys, opts : Options]]
  /\ used \in [Entries -> [key : AllKeys, opts : Options]]
  /\ listening \subseteq Entries
  /\ reloads \in [Entries -> 0 .. MaxReloads]
  /\ reloading \subseteq Entries
  /\ reauth \subseteq Entries
  /\ services \in BOOLEAN
  /\ stripped \subseteq Entries
  /\ conn \in [Clients -> Connections]
  /\ dropped \subseteq Clients
  /\ overtaken \subseteq Clients
  /\ flight \subseteq Flights
  /\ valid \in [Entries -> SUBSET AllKeys]

\* The services of services.py exist while an entry is loaded.  The exception is
\* an entry that found them registered and was still forwarding its platforms
\* when the unload of another entry removed them: it is loaded without services.
ServicesLostOnlyInSetup ==
  services \/ \A e \in Entries : Loaded(e) => e \in stripped

\* The services do not outlive the entries: some entry is loaded, about to be,
\* being unloaded, or failed to unload.
ServicesHaveAnEntry ==
  services => \E e \in Entries :
    \/ state[e] \in {"loaded", "unload_in_progress", "failed_unload"}
    \/ step[e] = "forward"

\* Every client with a connection belongs to an entry, with three exceptions: a
\* first refresh that failed, an exception of the setup that it does not catch
\* (both of which give the client up without close()), and an unload that closed it
\* while a call ran on it, which may connect again (client.py 112-118, 132-139).
\* Rejected and failed connects and an unload without such a call leave none behind.
OpenClientsAreOwned ==
  \A c \in Clients : conn[c] \in {"open", "reopened"} =>
    c \in dropped \cup overtaken \/ \E e \in Entries : c \in {local[e], runtime[e]}

\* A loaded entry, and one whose unload failed and whose entities live on, has a
\* client that no other entry uses and nothing has closed, whatever reloads, failed
\* setups and other entries did in between.
LoadedEntryKeepsItsClient ==
  \A e \in Entries : state[e] \in {"loaded", "failed_unload"} =>
    /\ runtime[e] \in Clients \ dropped
    /\ conn[runtime[e]] \in {"open", "lost"}
    /\ \A o \in Entries : runtime[e] # local[o] /\ (o # e => runtime[e] # runtime[o])

\* A loaded entry runs on the API key that is stored, or is about to be reloaded,
\* also when the key was replaced while a setup with the old one was going on.
StoredKeyIsUsed ==
  \A e \in Entries : Loaded(e) /\ used[e].key # entry[e].key => reloads[e] > 0

\* _async_update_listener: new options take effect by a reload.  They do not when
\* they are saved between `opts = entry.options` and add_update_listener.
OptionsTakeEffect ==
  \A e \in Entries : Loaded(e) /\ used[e].opts # entry[e].opts => reloads[e] > 0

\* An API key that the server no longer accepts leads to a reauth flow, once the
\* session that was logged in with it is gone: until then nobody presents it.
RejectionLeadsToReauth ==
  \A e \in Entries :
    (Loaded(e) /\ conn[runtime[e]] = "lost" /\ ~Accepted(e))
      ~> (e \in reauth \/ Accepted(e) \/ ~Loaded(e))

\* A poll without a session that gets through to the login, and is rejected.
LoginRejected(f) ==
  f.work = "poll" /\ conn[f.client] = "lost" /\ CallRejected(f)

\* The event loop runs what can run; executor jobs end; Home Assistant polls.  The
\* lock of the client is free again and again, and the network does not keep every
\* login of a poll from the server.
LoopFairness == \A e \in Entries :
  /\ WF_vars(SetupSteps(e))
  /\ WF_vars(UnloadSteps(e))
  /\ WF_vars(Reload(e))
  /\ WF_vars(\E f \in flight : f.entry = e /\ (CallEnds(f) \/ CallRejected(f)))
  /\ SF_vars(StartCall(e, "poll"))
  /\ SF_vars(\E f \in flight : f.entry = e /\ LoginRejected(f))

FairSpec == Spec /\ LoopFairness

=============================================================================
