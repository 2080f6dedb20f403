---------------------------- MODULE AlertRepairs ----------------------------
(***************************************************************************)
(* repairs.py with the alert actions of services.py: the alerts of each    *)
(* server, the copy the system coordinator of its entry last fetched, and  *)
(* the issues that Home Assistant shows.                                   *)
(*                                                                         *)
(* A poll reads alert.list at one moment and is applied at a later one.    *)
(* The poll of the timer and one that was requested may overlap, and then  *)
(* end in any order; a request made while another one runs is dropped.     *)
(* Home Assistant calls the listeners of a coordinator after a poll that   *)
(* succeeds, and after one that fails when the one before it did not; the  *)
(* data are then those of the last good poll.                              *)
(***************************************************************************)
EXTENDS Naturals

CONSTANTS
  Sources,  \* config entries of the domain, whose servers raise the alerts
  Alerts,   \* alert uuids
  Source    \* the entry whose server raises each alert

ASSUME SourceAssumption == Source \in [Alerts -> Sources]

VARIABLES
  alert,    \* each alert on its server
  setUp,    \* what Home Assistant holds of each entry
  poll,     \* where the polls of its system coordinator are
  seen,     \* what each poll has read of each alert
  data,     \* coordinator.data.alerts
  issues,   \* the alerts with an issue in the issue registry
  fix,      \* the fix flow of each alert
  settled   \* not raised since, and seen so by every poll that may still be applied

avars == <<alert, setUp, poll, seen, data, issues, fix, settled>>

\* "info": a level that is neither WARNING nor CRITICAL.
AlertStates == {"none", "info", "raised", "dismissed"}

Polls == {"timer", "request"}

Of(e) == {a \in Alerts : Source[a] = e}

AlertInit ==
  /\ alert \in [Alerts -> {"none", "raised"}]
  /\ setUp = [e \in Sources |-> "unloaded"]
  /\ poll = [e \in Sources |-> [p \in Polls |-> "idle"]]
  /\ seen = [p \in Polls |-> [a \in Alerts |-> "none"]]
  /\ data = [a \in Alerts |-> "none"]
  /\ issues = {}
  /\ fix = [a \in Alerts |-> "none"]
  /\ settled = {}

-----------------------------------------------------------------------------
(* The server.                                                             *)

\* An alert that is raised, again or anew, is news to Home Assistant.
Becomes(a, s) ==
  /\ alert' = [alert EXCEPT ![a] = s]
  /\ settled' = IF s = "raised" THEN settled \ {a} ELSE settled

\* An alert comes, goes, changes its level, or is dismissed or restored elsewhere.
AlertChanges(a) ==
  /\ \E s \in AlertStates \ {alert[a]} : Becomes(a, s)
  /\ UNCHANGED <<setUp, poll, seen, data, issues, fix>>

-----------------------------------------------------------------------------
(* The polls.                                                              *)

\* Mutant of Synced: an alert that went away keeps its issue.
SyncedCreatesOnly(e, d) == issues \cup {a \in Of(e) : d[a] = "raised"}

\* Mutant of Synced: the issues of other entries count as existing too.
SyncedAllEntries(e, d) == {a \in Of(e) : d[a] = "raised"}

\* async_sync_alert_issues: an issue for every alert of level WARNING or CRITICAL
\* that is not dismissed; no other issue that names this entry.
Synced(e, d) == (issues \ Of(e)) \cup {a \in Of(e) : d[a] = "raised"}

\* The poll timer, or the first refresh of a setup.
StartPoll(e) ==
  /\ poll[e]["timer"] = "idle"
  /\ setUp[e] # "removed"
  /\ poll' = [poll EXCEPT ![e]["timer"] = "asked"]
  /\ UNCHANGED <<alert, setUp, seen, data, issues, fix, settled>>

\* The server answers alert.list.
ReadAlerts(e, p) ==
  /\ poll[e][p] = "asked"
  /\ poll' = [poll EXCEPT ![e][p] = "read"]
  /\ seen' = [seen EXCEPT ![p] = [a \in Alerts |-> IF a \in Of(e) THEN alert[a] ELSE @[a]]]
  /\ UNCHANGED <<alert, setUp, data, issues, fix, settled>>

\* No poll under way read a as raised.
Unraised(e, a) == \A p \in Polls : poll[e][p] = "read" => seen[p][a] # "raised"

\* Mutant of PollEnds: the listeners run before the data are replaced.
PollEndsListenersFirst(e, p) ==
  /\ poll[e][p] = "read"
  /\ poll' = [poll EXCEPT ![e][p] = "idle"]
  /\ data' = [a \in Alerts |-> IF a \in Of(e) THEN seen[p][a] ELSE data[a]]
  /\ setUp' = [setUp EXCEPT ![e] = "loaded"]
  /\ issues' = Synced(e, data)
  /\ settled' = settled \cup {a \in Of(e) : Unraised(e, a) /\ alert[a] # "raised"}
  /\ UNCHANGED <<alert, seen, fix>>

\* A poll succeeds: new data, then the listeners.  In a setup
\* async_setup_alert_issues does the first sync, after the other first refreshes.
PollEnds(e, p) ==
  /\ poll[e][p] = "read"
  /\ poll' = [poll EXCEPT ![e][p] = "idle"]
  /\ data' = [a \in Alerts |-> IF a \in Of(e) THEN seen[p][a] ELSE data[a]]
  /\ setUp' = [setUp EXCEPT ![e] = "loaded"]
  /\ issues' = Synced(e, data')
  /\ settled' = settled \cup {a \in Of(e) : Unraised(e, a) /\ alert[a] # "raised"}
  /\ UNCHANGED <<alert, seen, fix>>

\* Mutant of PollFails: the data are lost with the poll.
PollFailsWithoutData(e, p) ==
  /\ poll[e][p] \in {"asked", "read"}
  /\ poll' = [poll EXCEPT ![e][p] = "idle"]
  /\ data' = [a \in Alerts |-> IF a \in Of(e) THEN "unknown" ELSE data[a]]
  /\ UNCHANGED issues
  /\ UNCHANGED <<alert, setUp, seen, fix, settled>>

\* A poll fails: the listeners may run, on the old data.  A setup fails with it.
PollFails(e, p) ==
  /\ poll[e][p] \in {"asked", "read"}
  /\ poll' = [poll EXCEPT ![e][p] = "idle"]
  /\ \/ UNCHANGED issues
     \/ setUp[e] = "loaded" /\ issues' = Synced(e, data)
  /\ UNCHANGED <<alert, setUp, seen, data, fix, settled>>

\* The listener goes with the entry, and so does its coordinator; its issues stay.
Leave(e, s) ==
  /\ setUp[e] = "loaded"
  /\ setUp' = [setUp EXCEPT ![e] = s]
  /\ poll' = [poll EXCEPT ![e] = [p \in Polls |-> "idle"]]
  /\ UNCHANGED <<alert, seen, data, issues, fix, settled>>

EntryUnloads(e) == Leave(e, "unloaded")

EntryRemoved(e) == Leave(e, "removed")

-----------------------------------------------------------------------------
(* The fix flow of an issue, TrueNASAlertRepairsFlow.                      *)

OpenFix(a) ==
  /\ a \in issues
  /\ fix[a] = "none"
  /\ fix' = [fix EXCEPT ![a] = "form"]
  /\ UNCHANGED <<alert, setUp, poll, seen, data, issues, settled>>

\* The user confirms.  The alert of an entry that is gone cannot be dismissed: its
\* issue just goes.  Of an unloaded entry Home Assistant may still have the runtime
\* data, and then its client connects again; without them the form stays.
Confirm(a) ==
  /\ fix[a] = "form"
  /\ IF setUp[Source[a]] = "removed"
     THEN /\ issues' = issues \ {a}
          /\ fix' = [fix EXCEPT ![a] = "none"]
     ELSE /\ fix' = [fix EXCEPT ![a] = "calling"]
          /\ UNCHANGED issues
  /\ UNCHANGED <<alert, setUp, poll, seen, data, settled>>

\* alert.dismiss at the server, which knows the uuid; the answer may be lost.
Dismisses(a) ==
  /\ alert[a] # "none"
  /\ Becomes(a, "dismissed")

FixServed(a) ==
  /\ fix[a] = "calling"
  /\ Dismisses(a)
  /\ \E s \in {"answered", "form"} : fix' = [fix EXCEPT ![a] = s]
  /\ UNCHANGED <<setUp, poll, seen, data, issues>>

\* client.call raised: the flow ends in an error before the issue is deleted.
FixFails(a) ==
  /\ fix[a] = "calling"
  /\ fix' = [fix EXCEPT ![a] = "form"]
  /\ UNCHANGED <<alert, setUp, poll, seen, data, issues, settled>>

\* Back on the event loop; no refresh is requested.
FixEnds(a) ==
  /\ fix[a] = "answered"
  /\ fix' = [fix EXCEPT ![a] = "none"]
  /\ issues' = issues \ {a}
  /\ UNCHANGED <<alert, setUp, poll, seen, data, settled>>

-----------------------------------------------------------------------------
(* The services dismiss_alert and restore_alert.                           *)

\* _resolve_entry: the entry named in the call, or else the only loaded one.
Targets(named) ==
  LET loaded == {e \in Sources : setUp[e] = "loaded"}
  IN IF named \in Sources THEN loaded \cap {named}
     ELSE {e \in loaded : loaded = {e}}

\* A server that does not know the uuid answers with an error, and nothing more
\* happens; else the alert changes and a refresh is requested.
AlertAction(named, a) ==
  \E e \in Targets(named) :
    /\ a \in Of(e) /\ alert[a] # "none"
    /\ \/ Becomes(a, "dismissed")
       \/ alert[a] = "dismissed" /\ Becomes(a, "raised")
    /\ poll' = [poll EXCEPT ![e]["request"] = IF @ = "idle" THEN "asked" ELSE @]
    /\ UNCHANGED <<setUp, seen, data, issues, fix>>

-----------------------------------------------------------------------------
PollSteps(e, p) == ReadAlerts(e, p) \/ PollEnds(e, p) \/ PollFails(e, p)

FixSteps(a) == FixServed(a) \/ FixFails(a) \/ FixEnds(a)

AlertNext ==
  \/ \E e \in Sources :
       \/ StartPoll(e) \/ EntryUnloads(e) \/ EntryRemoved(e)
       \/ \E p \in Polls : PollSteps(e, p)
       \/ \E a \in Alerts : AlertAction(e, a)
  \/ \E a \in Alerts :
       AlertChanges(a) \/ OpenFix(a) \/ Confirm(a) \/ FixSteps(a) \/ AlertAction("any", a)

AlertSpec == AlertInit /\ [][AlertNext]_avars

\* Home Assistant polls on its timer, every call of a poll returns, and the polls of
\* the timer do not fail for ever.
AlertFairness == \A e \in Sources :
  /\ WF_avars(StartPoll(e))
  /\ \A p \in Polls : WF_avars(PollSteps(e, p))
  /\ SF_avars(ReadAlerts(e, "timer"))
  /\ SF_avars(PollEnds(e, "timer"))

AlertFairSpec == AlertSpec /\ AlertFairness

-----------------------------------------------------------------------------
(* Properties                                                              *)

\* Every variable keeps its type.
AlertTypeOK ==
  /\ alert \in [Alerts -> AlertStates]
  /\ setUp \in [Sources -> {"unloaded", "loaded", "removed"}]
  /\ poll \in [Sources -> [Polls -> {"idle", "asked", "read"}]]
  /\ seen \in [Polls -> [Alerts -> AlertStates]]
  /\ data \in [Alerts -> AlertStates]
  /\ issues \subseteq Alerts
  /\ fix \in [Alerts -> {"none", "form", "calling", "answered"}]
  /\ settled \subseteq Alerts

\* The issue of an alert that was dismissed or went away may come back, from data
\* read before that, by a poll under way or by one that fails.  It never does once a
\* poll that read the alert later has ended and none that read it before is under way,
\* whatever polls, flows and reloads follow.
SettledStaysGone == settled \cap issues = {}

\* An issue is deleted for two reasons only: the last data of its own entry do not
\* have the alert as raised, or its fix flow ended, which, while the entry exists,
\* means that the server took the dismissal.
IssuesGoForAReason ==
  [][\A a \in issues \ issues' :
       \/ data'[a] # "raised" /\ setUp'[Source[a]] = "loaded"
       \/ fix[a] = "answered"
       \/ setUp[Source[a]] = "removed"]_avars

\* Issues follow alerts: of an entry that stays loaded, an alert that stays raised
\* has its issue in the end, and one that stays away or dismissed has none.
IssuesFollowAlerts ==
  \A a \in Alerts :
    /\ <>[](setUp[Source[a]] = "loaded" /\ alert[a] = "raised" /\ fix[a] = "none")
         => <>[](a \in issues)
    /\ <>[](setUp[Source[a]] = "loaded" /\ alert[a] # "raised") => <>[](a \notin issues)

=============================================================================
