------------------------ MODULE EntryLifecycleProofs ------------------------
(***************************************************************************)
(* Proofs about EntryLifecycle: its type invariant and what it promises of *)
(* the clients, the API keys and the services, for any number of entries,  *)
(* clients, coordinators and keys.                                         *)
(***************************************************************************)
EXTENDS EntryLifecycle, TLAPS

(* The inductive invariant.  The properties speak of loaded entries only;  *)
(* what makes them true is where each entry is on the way there.           *)

Connecting == {"identify", "close_auth", "close_retry", "refresh"}

Unloading == {"platforms", "close"}

Held == {"loaded", "unload_in_progress", "failed_unload"}

\* The ConfigEntryState of an entry tells which coroutine it is in.
StepsFit == \A e \in Entries :
  /\ state[e] = "setup_in_progress" <=> step[e] \in Connecting \cup {"forward"}
  /\ state[e] = "unload_in_progress" <=> step[e] \in Unloading
  /\ step[e] = "restart" => state[e] = "not_loaded"

\* `client` is bound up to the runtime data, the runtime data up to the unload.
ClientsFit == \A e \in Entries :
  /\ local[e] # NoClient <=> step[e] \in Connecting
  /\ runtime[e] # NoClient <=> step[e] = "forward" \/ state[e] \in Held

\* A client is held once, and not by an entry that gave it up.
ClientsApart == \A e \in Entries :
  /\ {local[e], runtime[e]} \cap dropped = {}
  /\ local[e] # NoClient => \A o \in Entries :
       local[e] # runtime[o] /\ (o # e => local[e] # local[o])
  /\ runtime[e] # NoClient => \A o \in Entries : o # e => runtime[e] # runtime[o]

\* Not closed: the session is there, or the next call logs in.
Usable == {"open", "lost"}

\* Nothing closes the client from the moment the NAS is identified to the unload.
ClientsConnected == \A e \in Entries :
  /\ step[e] = "refresh" => conn[local[e]] \in Usable
  /\ runtime[e] # NoClient => conn[runtime[e]] \in Usable

\* A call runs on the client of a loaded entry, or on one that was closed under it.
FlightsFit == \A f \in flight :
  f.client \in overtaken \/ \E e \in Entries : runtime[e] = f.client

\* A setup that started with a key which was replaced has a reload waiting.
KeysFit == \A e \in Entries :
  (Loaded(e) \/ step[e] \in Connecting \cup {"forward"}) /\ used[e].key # entry[e].key
  => reloads[e] > 0

\* What lost the services is marked while it forwards its platforms.
ServicesFit ==
  services \/ \A e \in Entries : Loaded(e) \/ step[e] = "forward" => e \in stripped

IInv ==
  /\ TypeOK /\ StepsFit /\ ClientsFit /\ ClientsApart /\ ClientsConnected
  /\ KeysFit /\ ServicesFit /\ ServicesHaveAnEntry /\ FlightsFit /\ OpenClientsAreOwned

-----------------------------------------------------------------------------
(* Types                                                                   *)

\* Move keeps the types of the two variables it changes.
LEMMA MoveType ==
  ASSUME TypeOK, NEW e \in Entries, NEW s \in States, NEW p \in Steps, Move(e, s, p)
  PROVE  state' \in [Entries -> States] /\ step' \in [Entries -> Steps]
  BY DEF TypeOK, Move

\* The names of the states and steps.
LEMMA Names ==
  /\ {"not_loaded", "setup_in_progress", "setup_retry", "setup_error",
      "loaded", "unload_in_progress", "failed_unload"} \subseteq States
  /\ {"idle", "restart", "identify", "close_auth", "close_retry", "refresh",
      "forward", "platforms", "close"} \subseteq Steps
  BY DEF States, Steps

\* A connection that opens or closes stays a connection.
LEMMA ConnType ==
  ASSUME TypeOK, NEW c, NEW s \in Connections, conn' = [conn EXCEPT ![c] = s]
  PROVE  conn' \in [Clients -> Connections]
  BY DEF TypeOK

\* A connect that fails leaves a connection or none.
LEMMA TornType ==
  ASSUME TypeOK, NEW c, Torn(c)  PROVE conn' \in [Clients -> Connections]
  BY ConnType DEF Torn, Connections

\* The end of a call leaves connections, and does not close what is usable.
LEMMA ConnAfterType ==
  ASSUME TypeOK, NEW f \in flight, NEW s \in ConnAfter(f)
  PROVE  s \in Connections /\ (conn[f.client] \in Usable => s \in Usable)
<1>1. f.client \in Clients /\ conn[f.client] \in Connections
  BY DEF TypeOK, Flights
<1>2. CASE conn[f.client] = "closed"
  BY <1>2 DEF ConnAfter, Usable, Connections
<1>3. CASE conn[f.client] = "lost"
  BY <1>3 DEF ConnAfter, Usable, Connections
<1>4. CASE conn[f.client] = "open"
  BY <1>4 DEF ConnAfter, Usable, Connections
<1>5. CASE conn[f.client] = "reopened"
  BY <1>5 DEF ConnAfter, Usable, Connections
<1> QED
  BY <1>1, <1>2, <1>3, <1>4, <1>5 DEF Connections

\* The end of a call leaves calls and connections.
LEMMA EndsType ==
  ASSUME TypeOK, NEW f \in flight, Ends(f)
  PROVE  flight' \subseteq Flights /\ conn' \in [Clients -> Connections]
<1>1. PICK s \in ConnAfter(f) : conn' = [conn EXCEPT ![f.client] = s]
  BY DEF Ends
<1>2. conn' \in [Clients -> Connections]
  BY <1>1, ConnAfterType, ConnType
<1> QED
  BY <1>2 DEF Ends, TypeOK

\* A first refresh that returns leaves a usable connection.
LEMMA ReturnsIs ==
  ASSUME NEW e \in Entries, RefreshReturns(e)
  PROVE  \/ UNCHANGED conn
         \/ \E s \in Usable : conn' = [conn EXCEPT ![local[e]] = s]
  BY DEF RefreshReturns, Usable

LEMMA ReturnsType ==
  ASSUME TypeOK, NEW e \in Entries, RefreshReturns(e)  PROVE conn' \in [Clients -> Connections]
<1>1. Usable \subseteq Connections
  BY DEF Usable, Connections
<1> QED
  BY <1>1, ReturnsIs, ConnType DEF TypeOK

\* What is stored keeps its type when one of its fields changes.
LEMMA RecordType ==
  ASSUME NEW r \in [Entries -> [key : AllKeys, opts : Options]], NEW e \in Entries,
         NEW k \in AllKeys, NEW o \in Options
  PROVE  /\ [r EXCEPT ![e].key = k] \in [Entries -> [key : AllKeys, opts : Options]]
         /\ [r EXCEPT ![e].opts = o] \in [Entries -> [key : AllKeys, opts : Options]]
  OBVIOUS

\* So do the fields.
LEMMA FieldTypes ==
  ASSUME TypeOK, NEW e \in Entries
  PROVE  /\ entry[e].key \in AllKeys /\ entry[e].opts \in Options
         /\ used[e].key \in AllKeys /\ used[e].opts \in Options
  BY DEF TypeOK

\* The reloads waiting are a number of at most MaxReloads.
LEMMA ReloadsType ==
  ASSUME TypeOK, NEW e \in Entries
  PROVE  reloads[e] \in Nat /\ reloads[e] <= MaxReloads
  BY DEF TypeOK, MaxReloads

\* The keys of one server are keys.
LEMMA KeyType == \A e \in Entries : Keys[e] \subseteq AllKeys
  BY DEF AllKeys

\* No step changes the type of a variable.
LEMMA TypeStep == TypeOK /\ StepsFit /\ ClientsFit /\ [Next]_vars => TypeOK'
<1> SUFFICES ASSUME TypeOK, StepsFit, ClientsFit, [Next]_vars  PROVE TypeOK'
  OBVIOUS
<1> USE LifecycleAssumption
<1>1. ASSUME NEW e \in Entries, NEW c \in Clients, StartSetup(e, c)  PROVE TypeOK'
  <2>1. state' \in [Entries -> States] /\ step' \in [Entries -> Steps]
    BY <1>1, MoveType, Names DEF StartSetup
  <2>2. used' \in [Entries -> [key : AllKeys, opts : Options]]
    BY <1>1, RecordType, FieldTypes DEF StartSetup, TypeOK
  <2>3. conn' \in [Clients -> Connections]
    BY <1>1, ConnType DEF StartSetup, Connections
  <2> QED
    BY <1>1, <2>1, <2>2, <2>3 DEF StartSetup, TypeOK
<1>2. ASSUME NEW e \in Entries, Identified(e)  PROVE TypeOK'
  <2>1. state' \in [Entries -> States] /\ step' \in [Entries -> Steps]
    BY <1>2, MoveType, Names DEF Identified
  <2>2. used' \in [Entries -> [key : AllKeys, opts : Options]]
    BY <1>2, RecordType, FieldTypes DEF Identified, TypeOK
  <2>3. conn' \in [Clients -> Connections]
    BY <1>2, ConnType DEF Identified, Connections
  <2> QED
    BY <1>2, <2>1, <2>2, <2>3 DEF Identified, TypeOK
<1>3. ASSUME NEW e \in Entries, NotIdentified(e)  PROVE TypeOK'
  BY <1>3, MoveType, Names, TornType DEF NotIdentified, TypeOK
<1>4. ASSUME NEW e \in Entries, IdentifyCrashes(e)  PROVE TypeOK'
  <2>1. state' \in [Entries -> States] /\ step' \in [Entries -> Steps]
    BY <1>4, MoveType, Names DEF IdentifyCrashes
  <2>2. conn' \in [Clients -> Connections]
    BY <1>4, TornType DEF IdentifyCrashes
  <2>3. dropped' \subseteq Clients /\ local' \in [Entries -> Clients \cup {NoClient}]
    BY <1>4 DEF IdentifyCrashes, TypeOK, ClientsFit, Connecting
  <2> QED
    BY <1>4, <2>1, <2>2, <2>3 DEF IdentifyCrashes, TypeOK
<1>5. ASSUME NEW e \in Entries, CloseRejected(e)  PROVE TypeOK'
  BY <1>5 DEF CloseRejected, TypeOK, Move, States, Steps, Connections
<1>6. ASSUME NEW e \in Entries, CloseNotReady(e)  PROVE TypeOK'
  BY <1>6 DEF CloseNotReady, TypeOK, Move, States, Steps, Connections
<1>7. ASSUME NEW e \in Entries, RefreshFails(e)  PROVE TypeOK'
  <2>1. state' \in [Entries -> States] /\ step' \in [Entries -> Steps]
    BY <1>7, MoveType, Names DEF RefreshFails
  <2>2. dropped' \subseteq Clients /\ local' \in [Entries -> Clients \cup {NoClient}]
    BY <1>7 DEF RefreshFails, TypeOK, ClientsFit, Connecting
  <2>3. reauth' \subseteq Entries /\ at' \in [Entries -> 0 .. Len(Coordinators)]
    BY <1>7 DEF RefreshFails, TypeOK
  <2>4. conn' \in [Clients -> Connections]
    BY <1>7, ConnType DEF RefreshFails, TypeOK, Connections
  <2> QED
    BY <1>7, <2>1, <2>2, <2>3, <2>4 DEF RefreshFails, TypeOK
<1>8. ASSUME NEW e \in Entries, Refreshed(e)  PROVE TypeOK'
  BY <1>8, ReturnsType DEF Refreshed, TypeOK
<1>9. ASSUME NEW e \in Entries, AllRefreshed(e)  PROVE TypeOK'
  <2>1. state' \in [Entries -> States] /\ step' \in [Entries -> Steps]
    BY <1>9, MoveType, Names DEF AllRefreshed
  <2>2. at' \in [Entries -> 0 .. Len(Coordinators)]
    BY <1>9 DEF AllRefreshed, TypeOK
  <2>3. local' \in [Entries -> Clients \cup {NoClient}]
    BY <1>9 DEF AllRefreshed, TypeOK
  <2>4. runtime' \in [Entries -> Clients \cup {NoClient}]
    BY <1>9 DEF AllRefreshed, TypeOK
  <2>5. conn' \in [Clients -> Connections]
    BY <1>9, ReturnsType DEF AllRefreshed
  <2>6. listening' \subseteq Entries /\ services' \in BOOLEAN /\ stripped' \subseteq Entries
    BY <1>9 DEF AllRefreshed, TypeOK
  <2> QED
    BY <1>9, <2>1, <2>2, <2>3, <2>4, <2>5, <2>6 DEF AllRefreshed, TypeOK
<1>10. ASSUME NEW e \in Entries, Forwarded(e)  PROVE TypeOK'
  BY <1>10 DEF Forwarded, TypeOK, Move, States, Steps, Connections
<1>11. ASSUME NEW e \in Entries, PlatformsUnloaded(e)  PROVE TypeOK'
  BY <1>11, MoveType, Names DEF PlatformsUnloaded, TypeOK
<1>12. ASSUME NEW e \in Entries, ClientClosed(e)  PROVE TypeOK'
  <2>1. runtime[e] \in Clients
    BY <1>12 DEF ClientClosed, TypeOK, ClientsFit, StepsFit, Held, Unloading
  <2>2. state' \in [Entries -> States] /\ step' \in [Entries -> Steps]
    BY <1>12, MoveType, Names DEF ClientClosed
  <2>3. conn' \in [Clients -> Connections] /\ overtaken' \subseteq Clients
    BY <1>12, <2>1, ConnType DEF ClientClosed, TypeOK, Connections
  <2>4. services' \in BOOLEAN /\ stripped' \subseteq Entries
    BY <1>12 DEF ClientClosed, UnregisterServices, TypeOK
  <2> QED
    BY <1>12, <2>2, <2>3, <2>4 DEF ClientClosed, TypeOK
<1>13. ASSUME NEW e \in Entries, Reload(e)  PROVE TypeOK'
  BY <1>13, MoveType, Names DEF Reload, Loaded, MaxReloads, TypeOK
<1>14. ASSUME NEW e \in Entries, StartUnload(e)  PROVE TypeOK'
  BY <1>14 DEF StartUnload, TypeOK, Move, States, Steps, Connections
<1>15. ASSUME NEW e \in Entries, StopRetrying(e)  PROVE TypeOK'
  BY <1>15 DEF StopRetrying, TypeOK, Move, States, Steps, Connections
<1>16. ASSUME NEW e \in Entries, NEW k \in Keys[e], UpdateKey(e, k)  PROVE TypeOK'
  <2>1. entry' \in [Entries -> [key : AllKeys, opts : Options]]
    BY <1>16, KeyType, RecordType, FieldTypes DEF UpdateKey, TypeOK
  <2>2. reloads[e] + 1 + (IF e \in listening THEN 1 ELSE 0) \in 0 .. MaxReloads
    BY <1>16, ReloadsType DEF MaxReloads, UpdateKey
  <2>3. reloads' = [reloads EXCEPT ![e] = reloads[e] + 1 + (IF e \in listening THEN 1
      ELSE 0)]
    BY <1>16 DEF UpdateKey
  <2>4. reloads' \in [Entries -> 0 .. MaxReloads]
    BY <1>16, <2>2, <2>3 DEF TypeOK
  <2> QED
    BY <1>16, <2>1, <2>2, <2>3, <2>4 DEF UpdateKey, TypeOK
<1>17. ASSUME NEW e \in Entries, NEW k \in Keys[e], RotateKey(e, k)  PROVE TypeOK'
  BY <1>17, KeyType DEF RotateKey, TypeOK
<1>18. ASSUME NEW e \in Entries, NEW o \in Options, SaveOptions(e, o)  PROVE TypeOK'
  <2>1. entry' \in [Entries -> [key : AllKeys, opts : Options]]
    BY <1>18, RecordType, FieldTypes DEF SaveOptions, TypeOK
  <2>2. reloads[e] + (IF e \in listening THEN 1 ELSE 0) \in 0 .. MaxReloads
    BY <1>18, ReloadsType DEF MaxReloads, SaveOptions
  <2>3. reloads' = [reloads EXCEPT ![e] = reloads[e] + (IF e \in listening THEN 1 ELSE
      0)]
    BY <1>18 DEF SaveOptions
  <2>4. reloads' \in [Entries -> 0 .. MaxReloads]
    BY <1>18, <2>2, <2>3 DEF TypeOK
  <2> QED
    BY <1>18, <2>1, <2>2, <2>3, <2>4 DEF SaveOptions, TypeOK
<1>19. ASSUME NEW e \in Entries, NEW w \in Work, StartCall(e, w)  PROVE TypeOK'
  <2>1. runtime[e] \in Clients
    BY <1>19 DEF StartCall, TypeOK, ClientsFit, Held, Loaded
  <2>2. flight' \subseteq Flights
    BY <1>19, <2>1 DEF StartCall, TypeOK, Flights
  <2> QED
    BY <1>19, <2>1, <2>2 DEF StartCall, TypeOK
<1>20. ASSUME NEW f \in flight, CallEnds(f)  PROVE TypeOK'
  BY <1>20, EndsType DEF CallEnds, TypeOK
<1>21. ASSUME NEW f \in flight, CallRejected(f)  PROVE TypeOK'
  <2>1. flight' \subseteq Flights /\ conn' \in [Clients -> Connections]
    BY <1>21, EndsType DEF CallRejected
  <2>2. reauth' \subseteq Entries
    BY <1>21 DEF CallRejected, TypeOK, Flights
  <2> QED
    BY <1>21, <2>1, <2>2 DEF CallRejected, TypeOK
<1>22. ASSUME NEW c \in Clients, ConnectionDrops(c)  PROVE TypeOK'
  BY <1>22, ConnType DEF ConnectionDrops, TypeOK, Connections
<1>23. CASE UNCHANGED vars
  BY <1>23 DEF TypeOK, vars
<1> QED
  BY <1>1, <1>2, <1>3, <1>4, <1>5, <1>6, <1>7, <1>8, <1>9, <1>10, <1>11, <1>12, <1>13,
     <1>14, <1>15, <1>16, <1>17, <1>18, <1>19, <1>20, <1>21, <1>22, <1>23 DEF Next, SetupSteps,
     UnloadSteps, UserSteps, CallSteps


\* State and step move together.
LEMMA StepsFitStep == TypeOK /\ StepsFit /\ [Next]_vars => StepsFit'
<1> SUFFICES ASSUME TypeOK, StepsFit, [Next]_vars  PROVE StepsFit'
  OBVIOUS
<1> USE LifecycleAssumption
<1>1. CASE UNCHANGED <<state, step>>
  BY <1>1 DEF StepsFit
<1>2. ASSUME NEW e \in Entries, NEW c \in Clients, StartSetup(e, c)  PROVE StepsFit'
  BY <1>2 DEF StartSetup, Free, Move, TypeOK, StepsFit, Connecting, Unloading
<1>3. ASSUME NEW e \in Entries, Identified(e)  PROVE StepsFit'
  BY <1>3 DEF Identified, Move, TypeOK, StepsFit, Connecting, Unloading
<1>4. ASSUME NEW e \in Entries, NotIdentified(e)  PROVE StepsFit'
  BY <1>4, ZenonT(60) DEF NotIdentified, Torn, Move, TypeOK, StepsFit, Connecting, Unloading
<1>5. ASSUME NEW e \in Entries, IdentifyCrashes(e)  PROVE StepsFit'
  BY <1>5 DEF IdentifyCrashes, Torn, Move, TypeOK, StepsFit, Connecting, Unloading
<1>6. ASSUME NEW e \in Entries, CloseRejected(e)  PROVE StepsFit'
  BY <1>6 DEF CloseRejected, Move, TypeOK, StepsFit, Connecting, Unloading
<1>7. ASSUME NEW e \in Entries, CloseNotReady(e)  PROVE StepsFit'
  BY <1>7 DEF CloseNotReady, Move, TypeOK, StepsFit, Connecting, Unloading
<1>8. ASSUME NEW e \in Entries, RefreshFails(e)  PROVE StepsFit'
  BY <1>8, ZenonT(60) DEF RefreshFails, Move, TypeOK, StepsFit, Connecting, Unloading
<1>9. ASSUME NEW e \in Entries, AllRefreshed(e)  PROVE StepsFit'
  BY <1>9 DEF AllRefreshed, Move, TypeOK, StepsFit, Connecting, Unloading
<1>10. ASSUME NEW e \in Entries, Forwarded(e)  PROVE StepsFit'
  BY <1>10 DEF Forwarded, Move, TypeOK, StepsFit, Connecting, Unloading
<1>11. ASSUME NEW e \in Entries, PlatformsUnloaded(e)  PROVE StepsFit'
  BY <1>11, ZenonT(60) DEF PlatformsUnloaded, Move, TypeOK, StepsFit, Connecting, Unloading
<1>12. ASSUME NEW e \in Entries, ClientClosed(e)  PROVE StepsFit'
  BY <1>12 DEF ClientClosed, UnregisterServices, Move, TypeOK, StepsFit, Connecting,
     Unloading
<1>13. ASSUME NEW e \in Entries, Reload(e)  PROVE StepsFit'
  BY <1>13 DEF Reload, Loaded, Move, TypeOK, StepsFit, Connecting, Unloading
<1>14. ASSUME NEW e \in Entries, StartUnload(e)  PROVE StepsFit'
  BY <1>14 DEF StartUnload, Loaded, Move, TypeOK, StepsFit, Connecting, Unloading
<1>15. ASSUME NEW e \in Entries, StopRetrying(e)  PROVE StepsFit'
  BY <1>15 DEF StopRetrying, Move, TypeOK, StepsFit, Connecting, Unloading
<1> QED
  BY <1>1, <1>2, <1>3, <1>4, <1>5, <1>6, <1>7, <1>8, <1>9, <1>10, <1>11, <1>12, <1>13,
     <1>14, <1>15 DEF Next, SetupSteps, UnloadSteps, UserSteps, CallSteps,
     vars, Refreshed, UpdateKey, RotateKey, SaveOptions, StartCall, CallEnds,
         CallRejected, ConnectionDrops

\* A coroutine that goes on keeps its clients while it stays among the awaits, and
\* the states, that have them.
LEMMA ClientsFitMove ==
  ASSUME TypeOK, ClientsFit, NEW e \in Entries, NEW s, NEW p, Move(e, s, p),
         UNCHANGED <<local, runtime>>,
         p \in Connecting <=> step[e] \in Connecting,
         (p = "forward" \/ s \in Held) <=> (step[e] = "forward" \/ state[e] \in Held)
  PROVE  ClientsFit'
<1>1. state'[e] = s /\ step'[e] = p
  BY DEF Move, TypeOK
<1>2. \A o \in Entries : o # e => state'[o] = state[o] /\ step'[o] = step[o]
  BY DEF Move, TypeOK
<1> QED
  BY <1>1, <1>2 DEF ClientsFit

\* A client is bound where the code has bound it.
LEMMA ClientsFitStep == TypeOK /\ StepsFit /\ ClientsFit /\ [Next]_vars => ClientsFit'
<1> SUFFICES ASSUME TypeOK, StepsFit, ClientsFit, [Next]_vars  PROVE ClientsFit'
  OBVIOUS
<1> USE LifecycleAssumption
<1>1. CASE UNCHANGED <<state, step, local, runtime>>
  BY <1>1 DEF ClientsFit
<1>2. ASSUME NEW e \in Entries, NEW c \in Clients, StartSetup(e, c)  PROVE ClientsFit'
  BY <1>2 DEF StartSetup, Free, Move, TypeOK, StepsFit, ClientsFit, Connecting,
     Unloading, Held
<1>3. ASSUME NEW e \in Entries, Identified(e)  PROVE ClientsFit'
  BY <1>3, ClientsFitMove DEF Identified, StepsFit, Connecting, Unloading, Held
<1>4. ASSUME NEW e \in Entries, NotIdentified(e)  PROVE ClientsFit'
  BY <1>4, ClientsFitMove DEF NotIdentified, StepsFit, Connecting, Unloading, Held
<1>5. ASSUME NEW e \in Entries, IdentifyCrashes(e)  PROVE ClientsFit'
  BY <1>5 DEF IdentifyCrashes, Torn, Move, TypeOK, StepsFit, ClientsFit, Connecting,
     Unloading, Held
<1>6. ASSUME NEW e \in Entries, CloseRejected(e)  PROVE ClientsFit'
  BY <1>6 DEF CloseRejected, Move, TypeOK, StepsFit, ClientsFit, Connecting, Unloading,
     Held
<1>7. ASSUME NEW e \in Entries, CloseNotReady(e)  PROVE ClientsFit'
  BY <1>7 DEF CloseNotReady, Move, TypeOK, StepsFit, ClientsFit, Connecting, Unloading,
     Held
<1>8. ASSUME NEW e \in Entries, RefreshFails(e)  PROVE ClientsFit'
  BY <1>8 DEF RefreshFails, Move, TypeOK, StepsFit, ClientsFit, Connecting, Unloading,
     Held
<1>9. ASSUME NEW e \in Entries, AllRefreshed(e)  PROVE ClientsFit'
  BY <1>9 DEF AllRefreshed, Move, TypeOK, StepsFit, ClientsFit, Connecting, Unloading,
     Held
<1>10. ASSUME NEW e \in Entries, Forwarded(e)  PROVE ClientsFit'
  BY <1>10, ClientsFitMove DEF Forwarded, StepsFit, Connecting, Unloading, Held
<1>11. ASSUME NEW e \in Entries, PlatformsUnloaded(e)  PROVE ClientsFit'
  BY <1>11, ClientsFitMove DEF PlatformsUnloaded, StepsFit, Connecting, Unloading, Held
<1>12. ASSUME NEW e \in Entries, ClientClosed(e)  PROVE ClientsFit'
  BY <1>12 DEF ClientClosed, UnregisterServices, Move, TypeOK, StepsFit, ClientsFit,
     Connecting, Unloading, Held
<1>13. ASSUME NEW e \in Entries, Reload(e)  PROVE ClientsFit'
  <2>1. CASE Loaded(e)
    BY <1>13, <2>1, ClientsFitMove DEF Reload, Loaded, StepsFit, Connecting, Unloading, Held
  <2>2. CASE state[e] = "failed_unload"
    BY <1>13, <2>2 DEF Reload, Loaded, ClientsFit
  <2>3. CASE ~Loaded(e) /\ state[e] # "failed_unload"
    <3>1. Move(e, "not_loaded", "restart") /\ UNCHANGED <<local, runtime>>
      BY <1>13, <2>3 DEF Reload, Loaded
    <3> QED
      BY <1>13, <2>3, <3>1, ClientsFitMove DEF Reload, Loaded, StepsFit, Connecting,
         Unloading, Held
  <2> QED
    BY <2>1, <2>2, <2>3
<1>14. ASSUME NEW e \in Entries, StartUnload(e)  PROVE ClientsFit'
  BY <1>14, ClientsFitMove DEF StartUnload, Loaded, StepsFit, Connecting, Unloading, Held
<1>15. ASSUME NEW e \in Entries, StopRetrying(e)  PROVE ClientsFit'
  BY <1>15, ClientsFitMove DEF StopRetrying, StepsFit, Connecting, Unloading, Held
<1> QED
  BY <1>1, <1>2, <1>3, <1>4, <1>5, <1>6, <1>7, <1>8, <1>9, <1>10, <1>11, <1>12, <1>13,
     <1>14, <1>15 DEF Next, SetupSteps, UnloadSteps, UserSteps, CallSteps,
     vars, Refreshed, UpdateKey, RotateKey, SaveOptions, StartCall, CallEnds,
         CallRejected, ConnectionDrops

\* Clients stay apart: a setup takes one that nobody holds.
LEMMA ClientsApartStep ==
  TypeOK /\ ClientsFit /\ ClientsApart /\ [Next]_vars => ClientsApart'
<1> SUFFICES ASSUME TypeOK, ClientsFit, ClientsApart, [Next]_vars  PROVE ClientsApart'
  OBVIOUS
<1> USE LifecycleAssumption
<1>1. CASE UNCHANGED <<local, runtime, dropped>>
  BY <1>1 DEF ClientsApart
<1>2. ASSUME NEW e \in Entries, NEW c \in Clients, StartSetup(e, c)  PROVE ClientsApart'
  BY <1>2 DEF StartSetup, Free, TypeOK, ClientsFit, ClientsApart, Connecting
<1>3. ASSUME NEW e \in Entries, IdentifyCrashes(e)  PROVE ClientsApart'
  BY <1>3 DEF IdentifyCrashes, Torn, TypeOK, ClientsFit, ClientsApart, Connecting
<1>4. ASSUME NEW e \in Entries, CloseRejected(e)  PROVE ClientsApart'
  BY <1>4 DEF CloseRejected, TypeOK, ClientsFit, ClientsApart, Connecting
<1>5. ASSUME NEW e \in Entries, CloseNotReady(e)  PROVE ClientsApart'
  BY <1>5 DEF CloseNotReady, TypeOK, ClientsFit, ClientsApart, Connecting
<1>6. ASSUME NEW e \in Entries, RefreshFails(e)  PROVE ClientsApart'
  BY <1>6 DEF RefreshFails, TypeOK, ClientsFit, ClientsApart, Connecting
<1>7. ASSUME NEW e \in Entries, AllRefreshed(e)  PROVE ClientsApart'
  BY <1>7 DEF AllRefreshed, TypeOK, ClientsFit, ClientsApart, Connecting
<1>8. ASSUME NEW e \in Entries, ClientClosed(e)  PROVE ClientsApart'
  BY <1>8 DEF ClientClosed, UnregisterServices, TypeOK, ClientsFit, ClientsApart,
     Connecting
<1> QED
  BY <1>1, <1>2, <1>3, <1>4, <1>5, <1>6, <1>7, <1>8 DEF Next, SetupSteps, UnloadSteps,
     UserSteps, CallSteps,
     vars, Identified, NotIdentified, Refreshed, Forwarded, PlatformsUnloaded, Reload,
         StartUnload, StopRetrying, UpdateKey, RotateKey, SaveOptions, StartCall,
         CallEnds, CallRejected, ConnectionDrops

\* A connection that changes for one of its clients, to a usable state or not at
\* the expense of anybody who holds it, leaves the others as they were.
LEMMA ConnectedByChange ==
  ASSUME TypeOK, ClientsConnected, NEW c \in Clients, NEW x \in Connections,
         conn' = [conn EXCEPT ![c] = x], UNCHANGED <<step, local, runtime>>,
         \/ x \in Usable
         \/ \A e \in Entries : c # runtime[e] /\ (step[e] = "refresh" => c # local[e])
  PROVE  ClientsConnected'
  BY DEF TypeOK, ClientsConnected

\* What holds a connection keeps it.
LEMMA ClientsConnectedStep ==
  TypeOK /\ StepsFit /\ ClientsFit /\ ClientsApart /\ ClientsConnected /\ [Next]_vars
    => ClientsConnected'
<1> SUFFICES ASSUME TypeOK, StepsFit, ClientsFit, ClientsApart, ClientsConnected, [Next]_vars
             PROVE  ClientsConnected'
  OBVIOUS
<1> USE LifecycleAssumption
<1>0. Usable \subseteq Connections
  BY DEF Usable, Connections
<1>1. CASE UNCHANGED <<step, local, runtime, conn>>
  BY <1>1 DEF ClientsConnected
<1>2. ASSUME NEW e \in Entries, NEW c \in Clients, StartSetup(e, c)
      PROVE  ClientsConnected'
  BY <1>2 DEF StartSetup, Free, Move, TypeOK, StepsFit, ClientsFit, ClientsApart,
     ClientsConnected, Connecting, Held
<1>3. ASSUME NEW e \in Entries, Identified(e)  PROVE ClientsConnected'
  BY <1>3 DEF Identified, Move, TypeOK, StepsFit, ClientsFit, ClientsApart,
     ClientsConnected, Connecting, Held, Usable
<1>4. ASSUME NEW e \in Entries, NotIdentified(e)  PROVE ClientsConnected'
  BY <1>4 DEF NotIdentified, Torn, Move, TypeOK, StepsFit, ClientsFit, ClientsApart,
     ClientsConnected, Connecting, Held
<1>5. ASSUME NEW e \in Entries, IdentifyCrashes(e)  PROVE ClientsConnected'
  BY <1>5 DEF IdentifyCrashes, Torn, Move, TypeOK, StepsFit, ClientsFit, ClientsApart,
     ClientsConnected, Connecting, Held
<1>6. ASSUME NEW e \in Entries, CloseRejected(e)  PROVE ClientsConnected'
  BY <1>6 DEF CloseRejected, Move, TypeOK, StepsFit, ClientsFit, ClientsApart,
     ClientsConnected, Connecting, Held
<1>7. ASSUME NEW e \in Entries, CloseNotReady(e)  PROVE ClientsConnected'
  BY <1>7 DEF CloseNotReady, Move, TypeOK, StepsFit, ClientsFit, ClientsApart,
     ClientsConnected, Connecting, Held
<1>8. ASSUME NEW e \in Entries, RefreshFails(e)  PROVE ClientsConnected'
  BY <1>8 DEF RefreshFails, Move, TypeOK, StepsFit, ClientsFit, ClientsApart,
     ClientsConnected, Connecting, Held, Usable
<1>9. ASSUME NEW e \in Entries, Refreshed(e)  PROVE ClientsConnected'
  <2>1. local[e] \in Clients
    BY <1>9 DEF Refreshed, ClientsFit, Connecting, TypeOK
  <2> QED
    BY <1>0, <1>1, <1>9, <2>1, ReturnsIs, ConnectedByChange DEF Refreshed
<1>10. ASSUME NEW e \in Entries, AllRefreshed(e)  PROVE ClientsConnected'
  <2>1. local[e] \in Clients /\ conn[local[e]] \in Usable
    BY <1>10 DEF AllRefreshed, ClientsFit, Connecting, TypeOK, ClientsConnected
  <2>2. \A c \in Clients : conn'[c] = conn[c] \/ conn'[c] \in Usable
    BY <1>10, ReturnsIs DEF AllRefreshed, TypeOK
  <2>3. conn'[local[e]] \in Usable
    BY <2>1, <2>2
  <2>4. runtime'[e] = local[e] /\ step'[e] = "forward"
    BY <1>10 DEF AllRefreshed, Move, TypeOK
  <2>5. \A o \in Entries : o # e =>
          step'[o] = step[o] /\ local'[o] = local[o] /\ runtime'[o] = runtime[o]
    BY <1>10 DEF AllRefreshed, Move, TypeOK
  <2>6. ASSUME NEW o \in Entries, o # e, step[o] = "refresh"  PROVE local[o] \in Clients
    BY <2>6 DEF ClientsFit, Connecting, TypeOK
  <2>7. ASSUME NEW o \in Entries, o # e, runtime[o] # NoClient  PROVE runtime[o] \in Clients
    BY <2>7 DEF TypeOK
  <2> QED
    BY <2>1, <2>2, <2>3, <2>4, <2>5, <2>6, <2>7, <1>0 DEF ClientsConnected
<1>11. ASSUME NEW e \in Entries, Forwarded(e)  PROVE ClientsConnected'
  BY <1>11 DEF Forwarded, Move, TypeOK, StepsFit, ClientsFit, ClientsApart,
     ClientsConnected, Connecting, Held
<1>12. ASSUME NEW e \in Entries, PlatformsUnloaded(e)  PROVE ClientsConnected'
  BY <1>12 DEF PlatformsUnloaded, Move, TypeOK, StepsFit, ClientsFit, ClientsApart,
     ClientsConnected, Connecting, Held
<1>13. ASSUME NEW e \in Entries, ClientClosed(e)  PROVE ClientsConnected'
  BY <1>13 DEF ClientClosed, Move, TypeOK, StepsFit, ClientsFit,
     ClientsApart, ClientsConnected, Connecting, Held
<1>14. ASSUME NEW e \in Entries, Reload(e)  PROVE ClientsConnected'
  BY <1>14 DEF Reload, Loaded, Move, TypeOK, StepsFit, ClientsFit, ClientsApart,
     ClientsConnected, Connecting, Held
<1>15. ASSUME NEW e \in Entries, StartUnload(e) \/ StopRetrying(e)  PROVE ClientsConnected'
  BY <1>15 DEF StartUnload, StopRetrying, Loaded, Move, TypeOK, StepsFit, ClientsFit,
     ClientsConnected, Connecting, Held
<1>16. ASSUME NEW f \in flight, CallEnds(f) \/ CallRejected(f)  PROVE ClientsConnected'
  <2>1. PICK s \in ConnAfter(f) : conn' = [conn EXCEPT ![f.client] = s]
    BY <1>16 DEF CallEnds, CallRejected, Ends
  <2>2. s \in Connections /\ (conn[f.client] \in Usable => s \in Usable)
    BY ConnAfterType
  <2>3. f.client \in Clients /\ UNCHANGED <<step, local, runtime>>
    BY <1>16 DEF CallEnds, CallRejected, TypeOK, Flights
  <2> QED
    BY <2>1, <2>2, <2>3 DEF TypeOK, ClientsConnected
<1>17. ASSUME NEW c \in Clients, ConnectionDrops(c)  PROVE ClientsConnected'
  BY <1>0, <1>17, ConnectedByChange DEF ConnectionDrops, Usable
<1> QED
  BY <1>1, <1>2, <1>3, <1>4, <1>5, <1>6, <1>7, <1>8, <1>9, <1>10, <1>11, <1>12, <1>13,
     <1>14, <1>15, <1>16, <1>17 DEF Next, SetupSteps, UnloadSteps, UserSteps, CallSteps,
     vars, UpdateKey, RotateKey, SaveOptions, StartCall

\* The reload that a new key asks for is taken by a setup that reads it.
LEMMA KeysFitStep == TypeOK /\ StepsFit /\ KeysFit /\ [Next]_vars => KeysFit'
<1> SUFFICES ASSUME TypeOK, StepsFit, KeysFit, [Next]_vars  PROVE KeysFit'
  OBVIOUS
<1> USE LifecycleAssumption
<1>1. CASE UNCHANGED <<state, step, entry, used, reloads>>
  BY <1>1 DEF KeysFit, Loaded
<1>2. ASSUME NEW e \in Entries, NEW c \in Clients, StartSetup(e, c)  PROVE KeysFit'
  BY <1>2 DEF StartSetup, Free, Move, TypeOK, StepsFit, KeysFit, Connecting, Loaded
<1>3. ASSUME NEW e \in Entries, Identified(e)  PROVE KeysFit'
  BY <1>3 DEF Identified, Move, TypeOK, StepsFit, KeysFit, Connecting, Loaded
<1>4. ASSUME NEW e \in Entries, NotIdentified(e)  PROVE KeysFit'
  BY <1>4 DEF NotIdentified, Torn, Move, TypeOK, StepsFit, KeysFit, Connecting, Loaded
<1>5. ASSUME NEW e \in Entries, IdentifyCrashes(e)  PROVE KeysFit'
  BY <1>5 DEF IdentifyCrashes, Torn, Move, TypeOK, StepsFit, KeysFit, Connecting, Loaded
<1>6. ASSUME NEW e \in Entries, CloseRejected(e)  PROVE KeysFit'
  BY <1>6 DEF CloseRejected, Move, TypeOK, StepsFit, KeysFit, Connecting, Loaded
<1>7. ASSUME NEW e \in Entries, CloseNotReady(e)  PROVE KeysFit'
  BY <1>7 DEF CloseNotReady, Move, TypeOK, StepsFit, KeysFit, Connecting, Loaded
<1>8. ASSUME NEW e \in Entries, RefreshFails(e)  PROVE KeysFit'
  BY <1>8 DEF RefreshFails, Move, TypeOK, StepsFit, KeysFit, Connecting, Loaded
<1>9. ASSUME NEW e \in Entries, Refreshed(e)  PROVE KeysFit'
  BY <1>9 DEF Refreshed, Move, TypeOK, StepsFit, KeysFit, Connecting, Loaded
<1>10. ASSUME NEW e \in Entries, AllRefreshed(e)  PROVE KeysFit'
  BY <1>10 DEF AllRefreshed, Move, TypeOK, StepsFit, KeysFit, Connecting, Loaded
<1>11. ASSUME NEW e \in Entries, Forwarded(e)  PROVE KeysFit'
  BY <1>11 DEF Forwarded, Move, TypeOK, StepsFit, KeysFit, Connecting, Loaded
<1>12. ASSUME NEW e \in Entries, PlatformsUnloaded(e)  PROVE KeysFit'
  BY <1>12 DEF PlatformsUnloaded, Move, TypeOK, StepsFit, KeysFit, Connecting, Loaded
<1>13. ASSUME NEW e \in Entries, ClientClosed(e)  PROVE KeysFit'
  BY <1>13 DEF ClientClosed, UnregisterServices, Move, TypeOK, StepsFit, KeysFit,
     Connecting, Loaded
<1>14. ASSUME NEW e \in Entries, Reload(e)  PROVE KeysFit'
  BY <1>14 DEF Reload, Move, TypeOK, StepsFit, KeysFit, Connecting, Loaded
<1>15. ASSUME NEW e \in Entries, StartUnload(e)  PROVE KeysFit'
  BY <1>15 DEF StartUnload, Move, TypeOK, StepsFit, KeysFit, Connecting, Loaded
<1>16. ASSUME NEW e \in Entries, StopRetrying(e)  PROVE KeysFit'
  BY <1>16 DEF StopRetrying, Move, TypeOK, StepsFit, KeysFit, Connecting, Loaded
<1>17. ASSUME NEW e \in Entries, NEW k \in Keys[e], UpdateKey(e, k)  PROVE KeysFit'
  BY <1>17 DEF UpdateKey, Move, TypeOK, StepsFit, KeysFit, Connecting, Loaded
<1>18. ASSUME NEW e \in Entries, NEW o \in Options, SaveOptions(e, o)  PROVE KeysFit'
  BY <1>18 DEF SaveOptions, Move, TypeOK, StepsFit, KeysFit, Connecting, Loaded
<1> QED
  BY <1>1, <1>2, <1>3, <1>4, <1>5, <1>6, <1>7, <1>8, <1>9, <1>10, <1>11, <1>12, <1>13,
     <1>14, <1>15, <1>16, <1>17, <1>18 DEF Next, SetupSteps, UnloadSteps, UserSteps,
     CallSteps, vars, RotateKey, StartCall, CallEnds, CallRejected,
     ConnectionDrops

\* Removing the services marks who is to lose them.
LEMMA ServicesFitStep ==
  TypeOK /\ StepsFit /\ ServicesFit /\ [Next]_vars => ServicesFit'
<1> SUFFICES ASSUME TypeOK, StepsFit, ServicesFit, [Next]_vars  PROVE ServicesFit'
  OBVIOUS
<1> USE LifecycleAssumption
<1>1. CASE UNCHANGED <<state, step, services, stripped>>
  BY <1>1 DEF ServicesFit, Loaded
<1>2. ASSUME NEW e \in Entries, NEW c \in Clients, StartSetup(e, c)  PROVE ServicesFit'
  BY <1>2 DEF StartSetup, Free, Move, TypeOK, StepsFit, ServicesFit, Connecting,
     Unloading, Loaded
<1>3. ASSUME NEW e \in Entries, Identified(e)  PROVE ServicesFit'
  BY <1>3 DEF Identified, Move, TypeOK, StepsFit, ServicesFit, Connecting, Unloading,
     Loaded
<1>4. ASSUME NEW e \in Entries, NotIdentified(e)  PROVE ServicesFit'
  BY <1>4 DEF NotIdentified, Torn, Move, TypeOK, StepsFit, ServicesFit, Connecting,
     Unloading, Loaded
<1>5. ASSUME NEW e \in Entries, IdentifyCrashes(e)  PROVE ServicesFit'
  BY <1>5 DEF IdentifyCrashes, Torn, Move, TypeOK, StepsFit, ServicesFit, Connecting,
     Unloading, Loaded
<1>6. ASSUME NEW e \in Entries, CloseRejected(e)  PROVE ServicesFit'
  BY <1>6 DEF CloseRejected, Move, TypeOK, StepsFit, ServicesFit, Connecting, Unloading,
     Loaded
<1>7. ASSUME NEW e \in Entries, CloseNotReady(e)  PROVE ServicesFit'
  BY <1>7 DEF CloseNotReady, Move, TypeOK, StepsFit, ServicesFit, Connecting, Unloading,
     Loaded
<1>8. ASSUME NEW e \in Entries, RefreshFails(e)  PROVE ServicesFit'
  BY <1>8 DEF RefreshFails, Move, TypeOK, StepsFit, ServicesFit, Connecting, Unloading,
     Loaded
<1>9. ASSUME NEW e \in Entries, AllRefreshed(e)  PROVE ServicesFit'
  BY <1>9 DEF AllRefreshed, Move, TypeOK, StepsFit, ServicesFit, Connecting, Unloading,
     Loaded
<1>10. ASSUME NEW e \in Entries, Forwarded(e)  PROVE ServicesFit'
  BY <1>10 DEF Forwarded, Move, TypeOK, StepsFit, ServicesFit, Connecting, Unloading,
     Loaded
<1>11. ASSUME NEW e \in Entries, PlatformsUnloaded(e)  PROVE ServicesFit'
  BY <1>11 DEF PlatformsUnloaded, Move, TypeOK, StepsFit, ServicesFit, Connecting,
     Unloading, Loaded
<1>12. ASSUME NEW e \in Entries, ClientClosed(e)  PROVE ServicesFit'
  BY <1>12 DEF ClientClosed, UnregisterServices, Move, TypeOK, StepsFit, ServicesFit,
     Connecting, Unloading, Loaded
<1>13. ASSUME NEW e \in Entries, Reload(e)  PROVE ServicesFit'
  BY <1>13 DEF Reload, Move, TypeOK, StepsFit, ServicesFit, Connecting, Unloading,
     Loaded
<1>14. ASSUME NEW e \in Entries, StartUnload(e)  PROVE ServicesFit'
  BY <1>14 DEF StartUnload, Move, TypeOK, StepsFit, ServicesFit, Connecting, Unloading,
     Loaded
<1>15. ASSUME NEW e \in Entries, StopRetrying(e)  PROVE ServicesFit'
  BY <1>15 DEF StopRetrying, Move, TypeOK, StepsFit, ServicesFit, Connecting, Unloading,
     Loaded
<1> QED
  BY <1>1, <1>2, <1>3, <1>4, <1>5, <1>6, <1>7, <1>8, <1>9, <1>10, <1>11, <1>12, <1>13,
     <1>14, <1>15 DEF Next, SetupSteps, UnloadSteps, UserSteps, CallSteps,
     vars, Refreshed, UpdateKey, RotateKey, SaveOptions, StartCall, CallEnds,
         CallRejected, ConnectionDrops

\* Registered services have an entry in each step.
LEMMA ServicesHaveAnEntryStep ==
  TypeOK /\ StepsFit /\ ServicesHaveAnEntry /\ [Next]_vars => ServicesHaveAnEntry'
<1> SUFFICES ASSUME TypeOK, StepsFit, ServicesHaveAnEntry, [Next]_vars
             PROVE  ServicesHaveAnEntry'
  OBVIOUS
<1> USE LifecycleAssumption
<1>1. CASE UNCHANGED <<state, step, services>>
  BY <1>1 DEF ServicesHaveAnEntry
<1>2. ASSUME NEW e \in Entries, NEW c \in Clients, StartSetup(e, c)
      PROVE  ServicesHaveAnEntry'
  BY <1>2 DEF StartSetup, Free, Move, TypeOK, StepsFit, ServicesHaveAnEntry, Connecting,
     Unloading, Loaded
<1>3. ASSUME NEW e \in Entries, Identified(e)  PROVE ServicesHaveAnEntry'
  BY <1>3 DEF Identified, Move, TypeOK, StepsFit, ServicesHaveAnEntry, Connecting,
     Unloading, Loaded
<1>4. ASSUME NEW e \in Entries, NotIdentified(e)  PROVE ServicesHaveAnEntry'
  BY <1>4 DEF NotIdentified, Torn, Move, TypeOK, StepsFit, ServicesHaveAnEntry,
     Connecting, Unloading, Loaded
<1>5. ASSUME NEW e \in Entries, IdentifyCrashes(e)  PROVE ServicesHaveAnEntry'
  BY <1>5 DEF IdentifyCrashes, Torn, Move, TypeOK, StepsFit, ServicesHaveAnEntry,
     Connecting, Unloading, Loaded
<1>6. ASSUME NEW e \in Entries, CloseRejected(e)  PROVE ServicesHaveAnEntry'
  BY <1>6 DEF CloseRejected, Move, TypeOK, StepsFit, ServicesHaveAnEntry, Connecting,
     Unloading, Loaded
<1>7. ASSUME NEW e \in Entries, CloseNotReady(e)  PROVE ServicesHaveAnEntry'
  BY <1>7 DEF CloseNotReady, Move, TypeOK, StepsFit, ServicesHaveAnEntry, Connecting,
     Unloading, Loaded
<1>8. ASSUME NEW e \in Entries, RefreshFails(e)  PROVE ServicesHaveAnEntry'
  BY <1>8 DEF RefreshFails, Move, TypeOK, StepsFit, ServicesHaveAnEntry, Connecting,
     Unloading, Loaded
<1>9. ASSUME NEW e \in Entries, AllRefreshed(e)  PROVE ServicesHaveAnEntry'
  BY <1>9 DEF AllRefreshed, Move, TypeOK, StepsFit, ServicesHaveAnEntry, Connecting,
     Unloading, Loaded
<1>10. ASSUME NEW e \in Entries, Forwarded(e)  PROVE ServicesHaveAnEntry'
  BY <1>10 DEF Forwarded, Move, TypeOK, StepsFit, ServicesHaveAnEntry, Connecting,
     Unloading, Loaded
<1>11. ASSUME NEW e \in Entries, PlatformsUnloaded(e)  PROVE ServicesHaveAnEntry'
  BY <1>11 DEF PlatformsUnloaded, Move, TypeOK, StepsFit, ServicesHaveAnEntry,
     Connecting, Unloading, Loaded
<1>12. ASSUME NEW e \in Entries, ClientClosed(e)  PROVE ServicesHaveAnEntry'
  BY <1>12 DEF ClientClosed, UnregisterServices, Move, TypeOK, StepsFit,
     ServicesHaveAnEntry, Connecting, Unloading, Loaded
<1>13. ASSUME NEW e \in Entries, Reload(e)  PROVE ServicesHaveAnEntry'
  BY <1>13 DEF Reload, Move, TypeOK, StepsFit, ServicesHaveAnEntry, Connecting,
     Unloading, Loaded
<1>14. ASSUME NEW e \in Entries, StartUnload(e)  PROVE ServicesHaveAnEntry'
  BY <1>14 DEF StartUnload, Move, TypeOK, StepsFit, ServicesHaveAnEntry, Connecting,
     Unloading, Loaded
<1>15. ASSUME NEW e \in Entries, StopRetrying(e)  PROVE ServicesHaveAnEntry'
  BY <1>15 DEF StopRetrying, Move, TypeOK, StepsFit, ServicesHaveAnEntry, Connecting,
     Unloading, Loaded
<1> QED
  BY <1>1, <1>2, <1>3, <1>4, <1>5, <1>6, <1>7, <1>8, <1>9, <1>10, <1>11, <1>12, <1>13,
     <1>14, <1>15 DEF Next, SetupSteps, UnloadSteps, UserSteps, CallSteps,
     vars, Refreshed, UpdateKey, RotateKey, SaveOptions, StartCall, CallEnds,
         CallRejected, ConnectionDrops

\* A call stays on its client until an unload closes it, which marks the client.
LEMMA FlightsFitStep ==
  TypeOK /\ StepsFit /\ ClientsFit /\ FlightsFit /\ [Next]_vars => FlightsFit'
<1> SUFFICES ASSUME TypeOK, StepsFit, ClientsFit, FlightsFit, [Next]_vars  PROVE FlightsFit'
  OBVIOUS
<1> USE LifecycleAssumption
<1>1. CASE UNCHANGED <<runtime, overtaken, flight>>
  BY <1>1 DEF FlightsFit
<1>2. ASSUME NEW e \in Entries, NEW c \in Clients, StartSetup(e, c)  PROVE FlightsFit'
  BY <1>2 DEF StartSetup, Free, FlightsFit
<1>3. ASSUME NEW e \in Entries, AllRefreshed(e)  PROVE FlightsFit'
  <2>1. runtime[e] = NoClient
    BY <1>3 DEF AllRefreshed, StepsFit, ClientsFit, Connecting, Held
  <2>2. \A f \in flight : f.client # NoClient
    BY DEF TypeOK, Flights
  <2> QED
    BY <1>3, <2>1, <2>2 DEF AllRefreshed, TypeOK, FlightsFit
<1>4. ASSUME NEW e \in Entries, ClientClosed(e)  PROVE FlightsFit'
  <2> SUFFICES ASSUME NEW f \in flight
               PROVE  f.client \in overtaken' \/ \E o \in Entries : runtime'[o] = f.client
    BY <1>4 DEF ClientClosed, FlightsFit
  <2>1. CASE f.client = runtime[e]
    BY <1>4, <2>1 DEF ClientClosed
  <2>2. CASE f.client # runtime[e] /\ f.client \in overtaken
    BY <1>4, <2>2 DEF ClientClosed
  <2>3. CASE f.client # runtime[e] /\ \E o \in Entries : runtime[o] = f.client
    BY <1>4, <2>3 DEF ClientClosed, TypeOK
  <2> QED
    BY <2>1, <2>2, <2>3 DEF FlightsFit
<1>5. ASSUME NEW e \in Entries, NEW w \in Work, StartCall(e, w)  PROVE FlightsFit'
  BY <1>5 DEF StartCall, FlightsFit
<1>6. ASSUME NEW f \in flight, CallEnds(f) \/ CallRejected(f)  PROVE FlightsFit'
  BY <1>6 DEF CallEnds, CallRejected, Ends, FlightsFit
<1> QED
  BY <1>1, <1>2, <1>3, <1>4, <1>5, <1>6 DEF Next, SetupSteps, UnloadSteps, UserSteps,
     CallSteps, vars, Identified, NotIdentified, IdentifyCrashes, CloseRejected,
     CloseNotReady, RefreshFails, Refreshed, Forwarded, PlatformsUnloaded, Reload,
     StartUnload, StopRetrying, UpdateKey, RotateKey, SaveOptions, ConnectionDrops

\* A connection that changes for a client that somebody owns, or that is accounted
\* for, or that ends, is no new leak.
LEMMA OwnedByChange ==
  ASSUME TypeOK, OpenClientsAreOwned, NEW c \in Clients, NEW x,
         UNCHANGED conn \/ conn' = [conn EXCEPT ![c] = x],
         UNCHANGED <<local, runtime, dropped, overtaken>>,
         \/ x \in {"closed", "lost"}
         \/ c \in dropped \cup overtaken
         \/ \E e \in Entries : c \in {local[e], runtime[e]}
  PROVE  OpenClientsAreOwned'
  BY DEF TypeOK, OpenClientsAreOwned

\* No step but the failed first refresh, the crash and the unload beside a call
\* leaves a connection behind.
LEMMA OpenClientsAreOwnedStep ==
  TypeOK /\ StepsFit /\ ClientsFit /\ FlightsFit /\ OpenClientsAreOwned /\ [Next]_vars
    => OpenClientsAreOwned'
<1> SUFFICES ASSUME TypeOK, StepsFit, ClientsFit, FlightsFit, OpenClientsAreOwned, [Next]_vars
             PROVE  OpenClientsAreOwned'
  OBVIOUS
<1> USE LifecycleAssumption
<1>0. \A e \in Entries : step[e] \in Connecting => local[e] \in Clients
  BY DEF TypeOK, ClientsFit
<1>1. CASE UNCHANGED <<local, runtime, conn, dropped, overtaken>>
  BY <1>1 DEF OpenClientsAreOwned
<1>2. ASSUME NEW e \in Entries, NEW c \in Clients, StartSetup(e, c)
      PROVE  OpenClientsAreOwned'
  <2>1. local[e] = NoClient
    BY <1>2 DEF StartSetup, ClientsFit, Connecting
  <2> QED
    BY <1>2, <2>1 DEF StartSetup, Free, TypeOK, OpenClientsAreOwned
<1>3. ASSUME NEW e \in Entries, Identified(e) \/ NotIdentified(e)  PROVE OpenClientsAreOwned'
  <2>1. local[e] \in Clients
    BY <1>0, <1>3 DEF Identified, NotIdentified, Connecting
  <2>2. \E x : conn' = [conn EXCEPT ![local[e]] = x]
    BY <1>3 DEF Identified, NotIdentified, Torn
  <2> QED
    BY <1>3, <2>1, <2>2, OwnedByChange DEF Identified, NotIdentified
<1>5. ASSUME NEW e \in Entries, IdentifyCrashes(e)  PROVE OpenClientsAreOwned'
  BY <1>5 DEF IdentifyCrashes, Torn, TypeOK, ClientsFit, OpenClientsAreOwned,
     Connecting, Held
<1>6. ASSUME NEW e \in Entries, CloseRejected(e)  PROVE OpenClientsAreOwned'
  BY <1>6 DEF CloseRejected, TypeOK, ClientsFit, OpenClientsAreOwned, Connecting, Held
<1>7. ASSUME NEW e \in Entries, CloseNotReady(e)  PROVE OpenClientsAreOwned'
  BY <1>7 DEF CloseNotReady, TypeOK, ClientsFit, OpenClientsAreOwned, Connecting, Held
<1>8. ASSUME NEW e \in Entries, RefreshFails(e)  PROVE OpenClientsAreOwned'
  BY <1>8 DEF RefreshFails, TypeOK, ClientsFit, OpenClientsAreOwned, Connecting, Held
<1>9. ASSUME NEW e \in Entries, Refreshed(e)  PROVE OpenClientsAreOwned'
  <2>1. local[e] \in Clients
    BY <1>0, <1>9 DEF Refreshed, Connecting
  <2>2. \E x : UNCHANGED conn \/ conn' = [conn EXCEPT ![local[e]] = x]
    BY <1>9, ReturnsIs DEF Refreshed
  <2> QED
    BY <1>9, <2>1, <2>2, OwnedByChange DEF Refreshed
<1>10. ASSUME NEW e \in Entries, AllRefreshed(e)  PROVE OpenClientsAreOwned'
  <2>1. runtime[e] = NoClient /\ local[e] \in Clients
    BY <1>0, <1>10 DEF AllRefreshed, StepsFit, ClientsFit, Connecting, Held
  <2>2. \A c \in Clients : c # local[e] => conn'[c] = conn[c]
    BY <1>10, ReturnsIs DEF AllRefreshed, TypeOK
  <2> QED
    BY <1>10, <2>1, <2>2 DEF AllRefreshed, TypeOK, OpenClientsAreOwned
<1>11. ASSUME NEW e \in Entries, ClientClosed(e)  PROVE OpenClientsAreOwned'
  <2>1. \A c \in Clients : c # runtime[e] => conn'[c] = conn[c]
    BY <1>11 DEF ClientClosed, TypeOK
  <2>2. \A c \in Clients : c = runtime[e] => conn'[c] = "closed"
    BY <1>11 DEF ClientClosed, TypeOK
  <2>3. overtaken \subseteq overtaken' /\ UNCHANGED <<local, dropped>>
    BY <1>11 DEF ClientClosed
  <2>4. \A o \in Entries : runtime[o] # runtime[e] => runtime'[o] = runtime[o]
    BY <1>11 DEF ClientClosed, TypeOK
  <2> QED
    BY <2>1, <2>2, <2>3, <2>4 DEF OpenClientsAreOwned
<1>12. ASSUME NEW f \in flight, CallEnds(f) \/ CallRejected(f)  PROVE OpenClientsAreOwned'
  <2>1. PICK s \in ConnAfter(f) : conn' = [conn EXCEPT ![f.client] = s]
    BY <1>12 DEF CallEnds, CallRejected, Ends
  <2>2. /\ f.client \in Clients
        /\ f.client \in overtaken \/ \E e \in Entries : runtime[e] = f.client
        /\ UNCHANGED <<local, runtime, dropped, overtaken>>
    BY <1>12 DEF CallEnds, CallRejected, TypeOK, Flights, FlightsFit
  <2> QED
    BY <2>1, <2>2, OwnedByChange
<1>13. ASSUME NEW c \in Clients, ConnectionDrops(c)  PROVE OpenClientsAreOwned'
  BY <1>13, OwnedByChange DEF ConnectionDrops
<1> QED
  BY <1>1, <1>2, <1>3, <1>5, <1>6, <1>7, <1>8, <1>9, <1>10, <1>11, <1>12, <1>13 DEF Next,
     SetupSteps, UnloadSteps, UserSteps, CallSteps,
     vars, Forwarded, PlatformsUnloaded, Reload, StartUnload, StopRetrying,
     UpdateKey, RotateKey, SaveOptions, StartCall

-----------------------------------------------------------------------------
(* The inductive invariant, and what follows from it                       *)

\* Every entry starts out not loaded, without a client.
LEMMA InitIInv == Init => IInv
<1> SUFFICES ASSUME Init  PROVE IInv
  OBVIOUS
<1> USE LifecycleAssumption DEF Init
<1>1. TypeOK
  <2>1. state \in [Entries -> States] /\ step \in [Entries -> Steps]
    BY DEF States, Steps
  <2>2. at \in [Entries -> 0 .. Len(Coordinators)] /\ reloads \in [Entries -> 0 ..
      MaxReloads]
    BY DEF MaxReloads
  <2>3. conn \in [Clients -> Connections]
    BY DEF Connections
  <2>4. \A e \in Entries : entry[e].key \in AllKeys
    OBVIOUS
  <2>5. valid \in [Entries -> SUBSET AllKeys]
    BY <2>4
  <2> QED
    BY <2>1, <2>2, <2>3, <2>5 DEF TypeOK
<1>2. StepsFit /\ ClientsFit
  BY DEF StepsFit, ClientsFit, Connecting, Unloading, Held
<1>3. ClientsApart /\ ClientsConnected
  BY DEF ClientsApart, ClientsConnected
<1>4. KeysFit /\ ServicesFit /\ ServicesHaveAnEntry /\ FlightsFit /\ OpenClientsAreOwned
  BY DEF KeysFit, ServicesFit, ServicesHaveAnEntry, FlightsFit, OpenClientsAreOwned,
     Loaded, Connecting
<1> QED
  BY <1>1, <1>2, <1>3, <1>4 DEF IInv

\* No step breaks it: each part needs the ones before it.
LEMMA StepIInv == IInv /\ [Next]_vars => IInv'
  BY TypeStep, StepsFitStep, ClientsFitStep, ClientsApartStep, ClientsConnectedStep,
     KeysFitStep, ServicesFitStep, ServicesHaveAnEntryStep, FlightsFitStep,
     OpenClientsAreOwnedStep DEF IInv

\* The inductive invariant holds in every reachable state.
THEOREM Inductive == Spec => []IInv
  BY InitIInv, StepIInv, PTL DEF Spec

\* Every variable keeps its type, for any number of entries, clients and keys.
THEOREM TypeCorrect == Spec => []TypeOK
<1>1. IInv => TypeOK
  BY DEF IInv
<1> QED
  BY <1>1, Inductive, PTL

\* Loaded entries have the two services (services.py), except those whose platforms
\* were being set up when the unload of another entry removed them.
THEOREM ServicesStay == Spec => []ServicesLostOnlyInSetup
<1>1. IInv => ServicesLostOnlyInSetup
  BY DEF IInv, ServicesFit, ServicesLostOnlyInSetup
<1> QED
  BY <1>1, Inductive, PTL

\* The services are registered only while an entry is there for them.
THEOREM ServicesGo == Spec => []ServicesHaveAnEntry
<1>1. IInv => ServicesHaveAnEntry
  BY DEF IInv
<1> QED
  BY <1>1, Inductive, PTL

\* The only connections nobody owns are those that a first refresh that failed, or an
\* exception the setup does not catch, gave up without close(), and those that a call
\* opened again which was running when an unload closed its client.
THEOREM NoOtherLeak == Spec => []OpenClientsAreOwned
<1>1. IInv => OpenClientsAreOwned
  BY DEF IInv
<1> QED
  BY <1>1, Inductive, PTL

\* A loaded entry, and one that failed to unload, has a client of its own that nothing
\* has closed, whatever reloads and other entries do.
THEOREM ClientKept == Spec => []LoadedEntryKeepsItsClient
<1>1. IInv => LoadedEntryKeepsItsClient
  <2> SUFFICES ASSUME IInv, NEW e \in Entries, state[e] \in {"loaded", "failed_unload"}
               PROVE  /\ runtime[e] \in Clients \ dropped
                      /\ conn[runtime[e]] \in {"open", "lost"}
                      /\ \A o \in Entries : runtime[e] # local[o]
                                            /\ (o # e => runtime[e] # runtime[o])
    BY DEF LoadedEntryKeepsItsClient
  <2>1. runtime[e] # NoClient
    BY DEF IInv, ClientsFit, Held
  <2>2. runtime[e] \in Clients \ dropped
    BY <2>1 DEF IInv, TypeOK, ClientsApart
  <2>3. conn[runtime[e]] \in {"open", "lost"}
    BY <2>1 DEF IInv, ClientsConnected, Usable
  <2>4. ASSUME NEW o \in Entries
        PROVE  runtime[e] # local[o] /\ (o # e => runtime[e] # runtime[o])
    BY <2>1 DEF IInv, ClientsApart
  <2> QED
    BY <2>2, <2>3, <2>4
<1> QED
  BY <1>1, Inductive, PTL

\* A loaded entry runs on the stored API key or has a reload waiting for it.
THEOREM KeyUsed == Spec => []StoredKeyIsUsed
<1>1. IInv => StoredKeyIsUsed
  BY DEF IInv, KeysFit, StoredKeyIsUsed, Loaded
<1> QED
  BY <1>1, Inductive, PTL

=============================================================================
