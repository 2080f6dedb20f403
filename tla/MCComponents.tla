---------------------------- MODULE MCComponents ----------------------------
(***************************************************************************)
(* Small instances, for TLC, of the components that can be checked one by  *)
(* one: in each behaviour one of them moves and the others stand still in  *)
(* an initial state.                                                       *)
(***************************************************************************)
EXTENDS MCEntryLifecycle, AlertRepairs, ConfigFlow, ApiKeyAuth, Storage, Values

VARIABLE subject  \* the component that moves

\* All alerts are those of the first entry.
AlertSource == [a \in Alerts |-> e1]

\* Around whole seconds, before and after the epoch.
AroundSeconds == {-1500, -1000, -1, 0, 1, 999, 1000, 1600, 1999}

mvars == <<vars, avars, cvars, kvars, svars, answer, subject>>

Subjects == {"entries", "alerts", "flows", "login", "storage", "values"}

\* Of the initial states of the components that stand still, one.
StandStill ==
  /\ IF subject = "entries" THEN TRUE
     ELSE entry = [e \in Entries |-> [key |-> CHOOSE k \in Keys[e] : TRUE,
                                      opts |-> CHOOSE o \in Options : TRUE]]
  /\ IF subject = "alerts" THEN TRUE ELSE alert = [a \in Alerts |-> "none"]
  /\ IF subject = "login" THEN TRUE
     ELSE /\ given = [mech |-> "AUTO", username |-> "user", key |-> [form |-> "odd"]]
          /\ server = [offers |-> "plain", salt |-> CHOOSE s \in Salts : TRUE,
                       iterations |-> CHOOSE n \in Iterations : TRUE, genuine |-> TRUE]
  /\ IF subject = "storage" THEN TRUE
     ELSE /\ devname = [d \in Disks |-> Nothing]
          /\ leaf = [d \in Disks |-> [c \in Categories |-> Nothing]]

ComponentsInit ==
  /\ subject \in Subjects
  /\ StandStill
  /\ Init /\ AlertInit /\ CfgInit /\ AuthInit
  /\ StorageInit /\ ValuesInit

ComponentsNext ==
  /\ UNCHANGED subject
  /\ \/ /\ subject = "entries" /\ Next
        /\ UNCHANGED <<avars, cvars, kvars, svars, answer>>
     \/ /\ subject = "alerts" /\ AlertNext
        /\ UNCHANGED <<vars, cvars, kvars, svars, answer>>
     \/ /\ subject = "flows" /\ CfgNext
        /\ UNCHANGED <<vars, avars, kvars, svars, answer>>
     \/ /\ subject = "login" /\ AuthNext
        /\ UNCHANGED <<vars, avars, cvars, svars, answer>>
     \/ /\ subject = "storage" /\ StorageNext
        /\ UNCHANGED <<vars, avars, cvars, kvars, answer>>
     \/ /\ subject = "values" /\ ValuesNext
        /\ UNCHANGED <<vars, avars, cvars, kvars, svars>>

ComponentsSpec == ComponentsInit /\ [][ComponentsNext]_mvars
=============================================================================
