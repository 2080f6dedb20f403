---------------------------- MODULE MCEventLoop ----------------------------
(***************************************************************************)
(* Small instances of EntryLifecycle, AlertRepairs and Entity for TLC, one *)
(* in each behaviour: the others stand still in a state in which none of   *)
(* their steps is owed to fairness.                                        *)
(***************************************************************************)
EXTENDS MCEntryLifecycle, AlertRepairs, Entity

VARIABLE subject  \* the component that moves

\* All alerts are those of the first entry.
AlertSource == [a \in Alerts |-> e1]

lvars == <<vars, avars, evars, subject>>

\* An entry that will not be set up again: disabled, or given up for good.
EntriesStandStill ==
  /\ state = [e \in Entries |-> "setup_error"]
  /\ step = [e \in Entries |-> "idle"]
  /\ at = [e \in Entries |-> 0]
  /\ local = [e \in Entries |-> NoClient]
  /\ runtime = [e \in Entries |-> NoClient]
  /\ entry = [e \in Entries |-> [key |-> "old", opts |-> CHOOSE o \in Options : TRUE]]
  /\ used = entry
  /\ listening = {}
  /\ reloads = [e \in Entries |-> 0]
  /\ reloading = {}
  /\ reauth = {}
  /\ services = FALSE
  /\ stripped = {}
  /\ conn = [c \in Clients |-> "closed"]
  /\ dropped = {}
  /\ overtaken = {}
  /\ flight = {}
  /\ valid = Keys

\* Entries that are gone: their coordinators do not poll.
AlertsStandStill ==
  /\ alert = [a \in Alerts |-> "none"]
  /\ setUp = [e \in Sources |-> "removed"]
  /\ poll = [e \in Sources |-> [p \in Polls |-> "idle"]]
  /\ seen = [p \in Polls |-> alert]
  /\ data = alert
  /\ issues = {}
  /\ fix = alert
  /\ settled = {}

\* An entity whose coordinator does not poll.
EntityStandsStill ==
  /\ class = SystemSensor
  /\ object = "RUNNING"
  /\ EntityInit

\* Classes for each kind of coordinator, of availability and of control. A switch does
\* no more to its object than somebody else may.
LoopClasses == {SystemSensor, PoolSensor, ScrubButton, OSUpdateEntity, AppRedeployButton}

EntityMoves == class \in LoopClasses /\ EntityInit

LoopInit ==
  \/ subject = "entries" /\ Init /\ AlertsStandStill /\ EntityStandsStill
  \/ subject = "alerts" /\ EntriesStandStill /\ AlertInit /\ EntityStandsStill
  \/ subject = "entity" /\ EntriesStandStill /\ AlertsStandStill /\ EntityMoves

LoopNext ==
  /\ UNCHANGED subject
  /\ \/ subject = "entries" /\ Next /\ UNCHANGED <<avars, evars>>
     \/ subject = "alerts" /\ AlertNext /\ UNCHANGED <<vars, evars>>
     \/ subject = "entity" /\ EntityNext /\ UNCHANGED <<vars, avars>>

LoopSpec ==
  LoopInit /\ [][LoopNext]_lvars /\ LoopFairness /\ AlertFairness /\ EntityFairness
============================================================================
