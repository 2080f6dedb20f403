------------------------------- MODULE Entity -------------------------------
(***************************************************************************)
(* An object of the NAS (a pool, a disk, a dataset, a service, an app, a   *)
(* VM, or the system itself) and one of its entities in Home Assistant, of *)
(* any class of sensor.py, binary_sensor.py, switch.py, button.py and      *)
(* update.py: the polls of its coordinator, the entity made of the first   *)
(* of them, and its control.                                               *)
(*                                                                         *)
(* The polls of the timer and of a request may overlap and end in any      *)
(* order. A call may reach the server twice (TrueNASClient.call tries      *)
(* again after an error), and may have reached it although it raises.      *)
(***************************************************************************)
EXTENDS Naturals

VARIABLES
  class,     \* the entity class
  object,    \* the state of the object on the NAS
  polling,   \* where each poll is
  read,      \* the state each poll has read
  since,     \* the states the object had since each poll began
  shown,     \* the object in coordinator.data
  updated,   \* last_update_success
  window,    \* the states the object had during the last poll that ended
  added,     \* whether the platform has added the entity
  control,   \* where its control is
  verb,      \* what it was asked to do
  executed,  \* how often the server has carried that out
  failure    \* why its call raised

evars == <<class, object, polling, read, since, shown, updated, window, added, control,
           verb, executed, failure>>

Running == {"timer", "request"}

ObjectStates == {"absent", "STOPPED", "RUNNING"}

-----------------------------------------------------------------------------
(* The entity classes. "always": its object, the system, is always there;  *)
(* "keyed": available only while the object is in the data; "optional":    *)
(* made only if the options have its group; "tolerant": the fetch of its   *)
(* coordinator turns an error into an empty dict; "refreshes": its control *)
(* requests a refresh; "assumes": see InstallAssumed. The methods of a     *)
(* control other than start and stop are one verb, "run".                  *)

Thing(tolerant, optional) ==
  [always |-> FALSE, keyed |-> TRUE, optional |-> optional, tolerant |-> tolerant,
   verbs |-> {}, refreshes |-> FALSE, assumes |-> FALSE]

Hub(optional) ==
  [Thing(FALSE, optional) EXCEPT !.always = TRUE, !.keyed = FALSE]

\* A control that requests a refresh, and one that awaits nothing but the call.
Does(reads, verbs) == [reads EXCEPT !.verbs = verbs, !.refreshes = TRUE]

DoesOnly(reads) == [reads EXCEPT !.verbs = {"run"}]

SystemSensor == Hub(FALSE)
AlertsSensor == Hub(FALSE)
ReportingSensor == Hub(TRUE)
PoolSensor == Thing(FALSE, FALSE)
DiskSensor == Thing(FALSE, TRUE)
DatasetSensor == Thing(FALSE, TRUE)
AppSensor == Thing(TRUE, TRUE)
VMSensor == Thing(TRUE, TRUE)
PoolHealthBinarySensor == Thing(FALSE, FALSE)
DiskProblemBinarySensor == Thing(FALSE, TRUE)
ServiceRunningBinarySensor == Thing(FALSE, FALSE)
CriticalAlertBinarySensor == Hub(FALSE)

ServiceSwitch == Does(Thing(FALSE, TRUE), {"start", "stop"})
AppSwitch == Does(Thing(TRUE, TRUE), {"start", "stop"})
VMSwitch == Does(Thing(TRUE, TRUE), {"start", "stop"})
\* Its available is that of the coordinator: the pool may be gone.
ScrubButton == DoesOnly([Thing(FALSE, FALSE) EXCEPT !.keyed = FALSE])
SystemButton == DoesOnly(Hub(FALSE))
ServiceRestartButton == Does(Thing(FALSE, TRUE), {"run"})
AppRedeployButton == Does(Thing(TRUE, TRUE), {"run"})
VMRestartButton == Does(Thing(TRUE, TRUE), {"run"})
OSUpdateEntity == [DoesOnly(Hub(FALSE)) EXCEPT !.assumes = TRUE]
AppUpdateEntity == Does(Thing(TRUE, TRUE), {"run"})

Classes ==
  {SystemSensor, AlertsSensor, ReportingSensor, PoolSensor, DiskSensor, DatasetSensor,
   AppSensor, VMSensor, PoolHealthBinarySensor, DiskProblemBinarySensor,
   ServiceRunningBinarySensor, CriticalAlertBinarySensor, ServiceSwitch, AppSwitch,
   VMSwitch, ScrubButton, SystemButton, ServiceRestartButton, AppRedeployButton,
   VMRestartButton, OSUpdateEntity, AppUpdateEntity}

EntityInit ==
  /\ class \in Classes
  /\ object \in ObjectStates
  /\ object = "absent" => ~class.always
  /\ polling = [p \in Running |-> "idle"]
  /\ read = [p \in Running |-> "absent"]
  /\ since = [p \in Running |-> {}]
  /\ shown = "absent"
  /\ updated = FALSE
  /\ window = {}
  /\ added = FALSE
  /\ control = "none"
  /\ verb = "none"
  /\ executed = 0
  /\ failure = "none"

\* No control runs.
Idle ==
  /\ control' = "none"
  /\ verb' = "none"
  /\ executed' = 0
  /\ failure' = "none"

-----------------------------------------------------------------------------
(* The NAS.                                                                *)

Turns(s) ==
  /\ object' = s
  /\ since' = [p \in Running |-> IF polling[p] = "idle" THEN {} ELSE since[p] \cup {s}]

ObjectChanges ==
  /\ \E s \in ObjectStates \ {object} : (s = "absent" => ~class.always) /\ Turns(s)
  /\ UNCHANGED <<class, polling, read, shown, updated, window, added, control, verb,
                 executed, failure>>

-----------------------------------------------------------------------------
(* The coordinator.                                                        *)

Asked(p) ==
  /\ polling' = [polling EXCEPT ![p] = "asked"]
  /\ since' = [since EXCEPT ![p] = {object}]

BeginPoll ==
  /\ polling["timer"] = "idle"
  /\ Asked("timer")
  /\ UNCHANGED <<class, object, read, shown, updated, window, added, control, verb,
                 executed, failure>>

ReadObject(p) ==
  /\ polling[p] = "asked"
  /\ polling' = [polling EXCEPT ![p] = "read"]
  /\ read' = [read EXCEPT ![p] = object]
  /\ UNCHANGED <<class, object, since, shown, updated, window, added, control, verb,
                 executed, failure>>

EndPoll(p) ==
  /\ polling' = [polling EXCEPT ![p] = "idle"]
  /\ read' = [read EXCEPT ![p] = "absent"]
  /\ since' = [since EXCEPT ![p] = {}]
  /\ window' = since[p]

\* _fetch returned; the object is in its result if it was on the NAS when read.
Fetched(p) ==
  /\ polling[p] = "read"
  /\ EndPoll(p)
  /\ shown' = read[p]
  /\ updated' = TRUE
  /\ UNCHANGED <<class, object, added, control, verb, executed, failure>>

\* Mutant of FetchRaises: apps and VMs stay as they were when the query fails.
FetchRaisesKeeping(p) ==
  /\ polling[p] \in {"asked", "read"}
  /\ EndPoll(p)
  /\ updated' = class.tolerant
  /\ UNCHANGED shown
  /\ UNCHANGED <<class, object, added, control, verb, executed, failure>>

\* A call raised a TrueNASError: an empty dict for apps and VMs, else UpdateFailed
\* or ConfigEntryAuthFailed, and the data stay, as they do after any other exception.
FetchRaises(p) ==
  /\ polling[p] \in {"asked", "read"}
  /\ EndPoll(p)
  /\ \E mapped \in BOOLEAN :
       /\ updated' = (mapped /\ class.tolerant)
       /\ shown' = IF updated' THEN "absent" ELSE shown
  /\ UNCHANGED <<class, object, added, control, verb, executed, failure>>

-----------------------------------------------------------------------------
(* The platforms.                                                          *)

\* async_setup_entry of the platform: entities for what the first refresh found,
\* of the groups that the options have.
AddEntities ==
  /\ ~added
  /\ updated
  /\ ~class.always => shown # "absent"
  /\ \E enabled \in BOOLEAN : class.optional => enabled
  /\ added' = TRUE
  /\ UNCHANGED <<class, object, polling, read, since, shown, updated, window, control,
                 verb, executed, failure>>

\* A reload: the next setup has new coordinators and new entities. A control that
\* still runs is no longer followed.
RemoveEntities ==
  /\ added
  /\ added' = FALSE
  /\ updated' = FALSE
  /\ shown' = "absent"
  /\ polling' = [p \in Running |-> "idle"]
  /\ read' = [p \in Running |-> "absent"]
  /\ since' = [p \in Running |-> {}]
  /\ window' = {}
  /\ Idle
  /\ UNCHANGED <<class, object>>

\* CoordinatorEntity.available, and the key check of the classes that have one.
Available == added /\ updated /\ (class.keyed => shown # "absent")

-----------------------------------------------------------------------------
(* Controls.                                                               *)

\* Home Assistant calls a service of an entity only while it is available.
Press(v) ==
  /\ control = "none"
  /\ Available
  /\ v \in class.verbs
  /\ control' = "calling"
  /\ verb' = v
  /\ executed' = 0
  /\ UNCHANGED <<class, object, polling, read, since, shown, updated, window, added, failure>>

\* What the server should make of the object.
Effect(v) == CASE v = "start" -> "RUNNING" [] v = "stop" -> "STOPPED" [] OTHER -> object

\* The server carries the call out, and the object gets there or stays as it is.
Execute ==
  /\ control = "calling"
  /\ executed < 2
  /\ object # "absent"
  /\ \E s \in {Effect(verb), object} : Turns(s)
  /\ executed' = executed + 1
  /\ UNCHANGED <<class, polling, read, shown, updated, window, added, control, verb, failure>>

\* client.call returned; nobody looks at what. The handlers of switches and of most
\* buttons request a refresh, which is dropped if one is under way.
CallReturns ==
  /\ control = "calling"
  /\ executed > 0
  /\ control' = "done"
  /\ IF class.refreshes /\ polling["request"] = "idle" /\ added
     THEN Asked("request") ELSE UNCHANGED <<polling, since>>
  /\ UNCHANGED <<class, object, read, shown, updated, window, added, verb, executed,
                 failure>>

\* _map_errors: only ENOTAUTHENTICATED is a TrueNASAuthError, and every other error
\* that the server answers is a TrueNASConnectionError, as a lost connection is.
Failures == {"rejected", "refused", "lost"}

IsConnectionError(f) == f \in {"refused", "lost"}

\* client.call raised: the user gets a HomeAssistantError, or, from the buttons that
\* catch nothing, the error itself.
CallFails ==
  /\ control = "calling"
  /\ \E f \in Failures : class.assumes => ~IsConnectionError(f)
  /\ Idle
  /\ UNCHANGED <<class, object, polling, read, since, shown, updated, window, added>>

\* The install of an OS update takes a TrueNASConnectionError for the reboot.
InstallAssumed ==
  /\ control = "calling"
  /\ class.assumes
  /\ \E f \in Failures : IsConnectionError(f) /\ failure' = f
  /\ control' = "assumed"
  /\ UNCHANGED <<class, object, polling, read, since, shown, updated, window, added, verb,
                 executed>>

\* The user has seen that the control ended.
Acknowledge ==
  /\ control \in {"done", "assumed"}
  /\ Idle
  /\ UNCHANGED <<class, object, polling, read, since, shown, updated, window, added>>

EntityNext ==
  \/ ObjectChanges \/ BeginPoll \/ AddEntities \/ RemoveEntities
  \/ \E p \in Running : ReadObject(p) \/ Fetched(p) \/ FetchRaises(p)
  \/ \E v \in class.verbs : Press(v)
  \/ Execute \/ CallReturns \/ CallFails \/ InstallAssumed \/ Acknowledge

EntitySpec == EntityInit /\ [][EntityNext]_evars

\* Polls end, well or badly. The timer polls again after one that did not raise; after
\* one that raised nothing is asked of it, as a rejected key stops it.
EntityFairness ==
  /\ WF_evars(updated /\ BeginPoll)
  /\ \A p \in Running : WF_evars(ReadObject(p)) /\ WF_evars(Fetched(p) \/ FetchRaises(p))

-----------------------------------------------------------------------------
(* Properties                                                              *)

\* An entity is unavailable rather than stale: while it is available it shows a
\* state that its object had during the last poll to end, although polls overlap,
\* end out of order and fail, and the fetches of apps and VMs never raise.
NoStaleState == Available => shown \in window

\* Whatever a control did to an object, and however its polls overlap and fail: if the
\* object stays as it is, its entity does not go on showing anything else. No refresh
\* that a control requests is needed for this, as that may be dropped.
StateIsShownInTheEnd == \A s \in ObjectStates :
  <>[](object = s) => <>[](Available => shown = s)

\* TrueNASUpdateEntity.async_install: only a lost connection is taken for an update
\* under way, and a non-transport failure is a real error.
InstallErrorsSurface == control = "assumed" => failure = "lost"

=============================================================================
