------------------------- MODULE AlertRepairsProofs -------------------------
(***************************************************************************)
(* Proofs about AlertRepairs, for any number of entries and alerts: issues *)
(* of settled alerts do not come back, and no issue goes without a reason. *)
(***************************************************************************)
EXTENDS AlertRepairs, TLAPS

\* A settled alert is raised nowhere: not on the server, nor in the last data, nor in
\* what a poll under way has read.  Any of the three could bring its issue back.
Settled(a) ==
  /\ alert[a] # "raised"
  /\ data[a] # "raised"
  /\ Unraised(Source[a], a)
  /\ a \notin issues

SettledIsNowhere == \A a \in settled : Settled(a)

AInv == AlertTypeOK /\ SettledIsNowhere

-----------------------------------------------------------------------------
(* Types                                                                   *)

\* A change of an alert keeps the types of what it changes.
LEMMA BecomesType ==
  ASSUME AlertTypeOK, NEW a \in Alerts, NEW s \in AlertStates, Becomes(a, s)
  PROVE  alert' \in [Alerts -> AlertStates] /\ settled' \subseteq Alerts
  BY DEF AlertTypeOK, Becomes

\* The alerts of an entry are alerts; a sync leaves issues of alerts.
LEMMA SyncedType ==
  ASSUME AlertTypeOK, NEW e, NEW d
  PROVE  Of(e) \subseteq Alerts /\ Synced(e, d) \subseteq Alerts
  BY DEF AlertTypeOK, Synced, Of

\* No step changes the type of a variable.
LEMMA AlertTypeStep == AlertTypeOK /\ [AlertNext]_avars => AlertTypeOK'
<1> SUFFICES ASSUME AlertTypeOK, [AlertNext]_avars  PROVE AlertTypeOK'
  OBVIOUS
<1>1. ASSUME NEW e \in Sources, StartPoll(e)  PROVE AlertTypeOK'
  BY <1>1 DEF StartPoll, AlertTypeOK, Polls
<1>2. ASSUME NEW e \in Sources, NEW p \in Polls, ReadAlerts(e, p)  PROVE AlertTypeOK'
  <2>1. seen' \in [Polls -> [Alerts -> AlertStates]]
    BY <1>2 DEF ReadAlerts, AlertTypeOK
  <2> QED
    BY <1>2, <2>1 DEF ReadAlerts, AlertTypeOK
<1>3. ASSUME NEW e \in Sources, NEW p \in Polls, PollEnds(e, p)  PROVE AlertTypeOK'
  <2>1. data' \in [Alerts -> AlertStates]
    BY <1>3 DEF PollEnds, AlertTypeOK
  <2>2. issues' \subseteq Alerts /\ settled' \subseteq Alerts
    BY <1>3, SyncedType DEF PollEnds, AlertTypeOK
  <2> QED
    BY <1>3, <2>1, <2>2 DEF PollEnds, AlertTypeOK
<1>4. ASSUME NEW e \in Sources, NEW p \in Polls, PollFails(e, p)  PROVE AlertTypeOK'
  BY <1>4, SyncedType DEF PollFails, AlertTypeOK
<1>5. ASSUME NEW e \in Sources, EntryUnloads(e) \/ EntryRemoved(e)  PROVE AlertTypeOK'
  <2>1. PICK s \in {"unloaded", "removed"} : Leave(e, s)
    BY <1>5 DEF EntryUnloads, EntryRemoved
  <2>2. setUp' \in [Sources -> {"unloaded", "loaded", "removed"}]
    BY <2>1 DEF Leave, AlertTypeOK
  <2>3. poll' \in [Sources -> [Polls -> {"idle", "asked", "read"}]]
    BY <2>1 DEF Leave, AlertTypeOK
  <2> QED
    BY <2>1, <2>2, <2>3 DEF Leave, AlertTypeOK
<1>6. ASSUME NEW n, NEW a \in Alerts, AlertAction(n, a)  PROVE AlertTypeOK'
  <2>1. PICK e \in Sources :
          /\ Becomes(a, "dismissed") \/ Becomes(a, "raised")
          /\ poll' = [poll EXCEPT ![e]["request"] = IF @ = "idle" THEN "asked" ELSE @]
          /\ UNCHANGED <<setUp, seen, data, issues, fix>>
    BY <1>6 DEF AlertAction, Targets
  <2>2. alert' \in [Alerts -> AlertStates] /\ settled' \subseteq Alerts
    BY <2>1, BecomesType DEF AlertStates
  <2>3. poll' \in [Sources -> [Polls -> {"idle", "asked", "read"}]]
    BY <2>1 DEF AlertTypeOK, Polls
  <2> QED
    BY <2>1, <2>2, <2>3 DEF AlertTypeOK
<1>7. ASSUME NEW a \in Alerts, AlertChanges(a)  PROVE AlertTypeOK'
  BY <1>7, BecomesType DEF AlertChanges, AlertTypeOK
<1>8. ASSUME NEW a \in Alerts, OpenFix(a) \/ Confirm(a) \/ FixFails(a) \/ FixEnds(a)
      PROVE  AlertTypeOK'
  BY <1>8 DEF OpenFix, Confirm, FixFails, FixEnds, AlertTypeOK
<1>9. ASSUME NEW a \in Alerts, FixServed(a)  PROVE AlertTypeOK'
  BY <1>9, BecomesType DEF FixServed, Dismisses, AlertTypeOK, AlertStates
<1>10. CASE UNCHANGED avars
  BY <1>10 DEF AlertTypeOK, avars
<1> QED
  BY <1>1, <1>2, <1>3, <1>4, <1>5, <1>6, <1>7, <1>8, <1>9, <1>10
  DEF AlertNext, PollSteps, FixSteps

-----------------------------------------------------------------------------
(* Settled alerts                                                          *)

\* A step that raises nothing and reads nothing leaves an alert settled.
LEMMA StaysSettled ==
  ASSUME NEW a, Settled(a), UNCHANGED <<alert, data, seen>>,
         poll'[Source[a]] = poll[Source[a]], a \notin issues'
  PROVE  Settled(a)'
  BY DEF Settled, Unraised

\* An alert is no longer settled when it is raised, and only then.
LEMMA BecomesSettled ==
  ASSUME AlertTypeOK, NEW b \in Alerts, NEW s, Becomes(b, s), NEW a \in settled'
  PROVE  a \in settled /\ (alert[a] # "raised" => alert'[a] # "raised")
  BY DEF AlertTypeOK, Becomes

\* Whatever happens, a settled alert is raised nowhere.
LEMMA SettledStep == AInv /\ [AlertNext]_avars => SettledIsNowhere'
<1> SUFFICES ASSUME AInv, [AlertNext]_avars, NEW a \in settled'  PROVE Settled(a)'
  BY DEF SettledIsNowhere
<1> USE SourceAssumption DEF AInv
<1>1. ASSUME NEW e \in Sources, StartPoll(e)  PROVE Settled(a)'
  BY <1>1 DEF StartPoll, AlertTypeOK, SettledIsNowhere, Settled, Unraised, Polls
<1>2. ASSUME NEW e \in Sources, NEW p \in Polls, ReadAlerts(e, p)  PROVE Settled(a)'
  BY <1>2 DEF ReadAlerts, AlertTypeOK, SettledIsNowhere, Settled, Unraised, Of
<1>3. ASSUME NEW e \in Sources, NEW p \in Polls, PollEnds(e, p)  PROVE Settled(a)'
  <2>1. a \in Alerts /\ alert'[a] = alert[a] /\ seen' = seen
    BY <1>3, SyncedType DEF PollEnds, AlertTypeOK
  <2>2. \A q \in Polls : poll'[Source[a]][q] = "read" => poll[Source[a]][q] = "read"
    BY <1>3, <2>1 DEF PollEnds, AlertTypeOK
  <2>3. CASE a \in Of(e)
    <3>1. alert[a] # "raised" /\ Unraised(e, a) /\ Source[a] = e
      BY <1>3, <2>3 DEF PollEnds, SettledIsNowhere, Settled, Of
    <3>2. data'[a] # "raised"
      BY <1>3, <2>1, <2>3, <3>1 DEF PollEnds, Unraised
    <3>3. a \notin issues'
      BY <1>3, <2>3, <3>2 DEF PollEnds, Synced
    <3> QED
      BY <2>1, <2>2, <3>1, <3>2, <3>3 DEF Settled, Unraised
  <2>4. CASE a \notin Of(e)
    <3>1. Settled(a)
      BY <1>3, <2>4 DEF PollEnds, SettledIsNowhere
    <3>2. data'[a] = data[a] /\ a \notin issues'
      BY <1>3, <2>1, <2>4, <3>1 DEF PollEnds, Synced, Settled
    <3> QED
      BY <2>1, <2>2, <3>1, <3>2 DEF Settled, Unraised
  <2> QED
    BY <2>3, <2>4
<1>4. ASSUME NEW e \in Sources, NEW p \in Polls, PollFails(e, p)  PROVE Settled(a)'
  <2>1. Settled(a) /\ a \in Alerts /\ UNCHANGED <<alert, seen, data>>
    BY <1>4 DEF PollFails, SettledIsNowhere, AlertTypeOK
  <2>2. \A q \in Polls : poll'[Source[a]][q] = "read" => poll[Source[a]][q] = "read"
    BY <1>4, <2>1 DEF PollFails, AlertTypeOK
  <2>3. a \notin issues'
    BY <1>4, <2>1 DEF PollFails, Synced, Settled
  <2> QED
    BY <2>1, <2>2, <2>3 DEF Settled, Unraised
<1>5. ASSUME NEW e \in Sources, EntryUnloads(e) \/ EntryRemoved(e)  PROVE Settled(a)'
  <2>1. PICK s : Leave(e, s)
    BY <1>5 DEF EntryUnloads, EntryRemoved
  <2>2. Settled(a) /\ a \in Alerts /\ UNCHANGED <<alert, seen, data, issues>>
    BY <2>1 DEF Leave, SettledIsNowhere, AlertTypeOK
  <2>3. \A q \in Polls : poll'[Source[a]][q] = "read" => poll[Source[a]][q] = "read"
    BY <2>1, <2>2 DEF Leave, AlertTypeOK
  <2> QED
    BY <2>2, <2>3 DEF Settled, Unraised
<1>6. ASSUME NEW n, NEW b \in Alerts, AlertAction(n, b)  PROVE Settled(a)'
  <2>1. PICK e \in Sources :
          /\ Becomes(b, "dismissed") \/ Becomes(b, "raised")
          /\ poll' = [poll EXCEPT ![e]["request"] = IF @ = "idle" THEN "asked" ELSE @]
          /\ UNCHANGED <<setUp, seen, data, issues, fix>>
    BY <1>6 DEF AlertAction, Targets
  <2>2. Settled(a) /\ a \in Alerts /\ alert'[a] # "raised"
    BY <2>1, BecomesSettled DEF SettledIsNowhere, Settled, AlertTypeOK
  <2>3. \A q \in Polls : poll'[Source[a]][q] = "read" => poll[Source[a]][q] = "read"
    BY <2>1, <2>2 DEF AlertTypeOK, Polls
  <2> QED
    BY <2>1, <2>2, <2>3 DEF Settled, Unraised
<1>7. ASSUME NEW b \in Alerts, AlertChanges(b) \/ FixServed(b)  PROVE Settled(a)'
  <2>1. PICK s : Becomes(b, s) /\ UNCHANGED <<poll, seen, data, issues>>
    BY <1>7 DEF AlertChanges, FixServed, Dismisses
  <2>2. Settled(a) /\ alert'[a] # "raised"
    BY <2>1, BecomesSettled DEF SettledIsNowhere, Settled
  <2> QED
    BY <2>1, <2>2 DEF Settled, Unraised
<1>8. ASSUME NEW b \in Alerts, OpenFix(b) \/ Confirm(b) \/ FixFails(b) \/ FixEnds(b)
      PROVE  Settled(a)'
  <2>1. UNCHANGED <<alert, data, seen, poll, settled>> /\ issues' \subseteq issues
    BY <1>8 DEF OpenFix, Confirm, FixFails, FixEnds
  <2> QED
    BY <2>1, StaysSettled DEF SettledIsNowhere, Settled
<1>9. CASE UNCHANGED avars
  BY <1>9 DEF avars, SettledIsNowhere, Settled, Unraised
<1> QED
  BY <1>1, <1>2, <1>3, <1>4, <1>5, <1>6, <1>7, <1>8, <1>9
  DEF AlertNext, PollSteps, FixSteps

\* The invariant holds in every reachable state.
THEOREM AlertInductive == AlertSpec => []AInv
<1>1. AlertInit => AInv
  BY DEF AlertInit, AInv, AlertTypeOK, SettledIsNowhere, AlertStates
<1>2. AInv /\ [AlertNext]_avars => AInv'
  BY AlertTypeStep, SettledStep DEF AInv
<1> QED
  BY <1>1, <1>2, PTL DEF AlertSpec

\* Every variable keeps its type, for any number of entries and alerts.
THEOREM AlertTypeCorrect == AlertSpec => []AlertTypeOK
<1>1. AInv => AlertTypeOK
  BY DEF AInv
<1> QED
  BY <1>1, AlertInductive, PTL

\* An alert that is settled has no issue: nothing brings one back.
THEOREM SettledIsGone == AlertSpec => []SettledStaysGone
<1>1. AInv => SettledStaysGone
  BY DEF AInv, SettledIsNowhere, Settled, SettledStaysGone
<1> QED
  BY <1>1, AlertInductive, PTL

-----------------------------------------------------------------------------
(* Why issues go                                                           *)

\* The conditions under which the issue of an alert may be deleted.
HasAReason(a) ==
  \/ data'[a] # "raised" /\ setUp'[Source[a]] = "loaded"
  \/ fix[a] = "answered"
  \/ setUp[Source[a]] = "removed"

\* A sync deletes the issues of its entry for which the data have no raised alert.
LEMMA SyncDeletes ==
  ASSUME NEW e, NEW d, NEW a \in issues \ Synced(e, d), issues \subseteq Alerts
  PROVE  Source[a] = e /\ d[a] # "raised"
  BY DEF Synced, Of

\* An issue is deleted because its own entry says so, or because its fix flow ended.
THEOREM IssuesGoRightly == AlertSpec => IssuesGoForAReason
<1>1. AlertTypeOK /\ [AlertNext]_avars => \A a \in issues \ issues' : HasAReason(a)
  <2> SUFFICES ASSUME AlertTypeOK, [AlertNext]_avars, NEW a \in issues \ issues'
               PROVE  HasAReason(a)
    OBVIOUS
  <2> a \in Alerts /\ issues \subseteq Alerts
    BY DEF AlertTypeOK
  <2>1. ASSUME NEW e \in Sources, NEW p \in Polls, PollEnds(e, p)  PROVE HasAReason(a)
    <3>1. Source[a] = e /\ data'[a] # "raised"
      BY <2>1, SyncDeletes DEF PollEnds
    <3>2. setUp'[e] = "loaded"
      BY <2>1 DEF PollEnds, AlertTypeOK
    <3> QED
      BY <3>1, <3>2 DEF HasAReason
  <2>2. ASSUME NEW e \in Sources, NEW p \in Polls, PollFails(e, p)  PROVE HasAReason(a)
    <3>1. setUp'[e] = "loaded" /\ issues' = Synced(e, data) /\ data' = data
      BY <2>2 DEF PollFails
    <3> QED
      BY <3>1, SyncDeletes DEF HasAReason
  <2>3. ASSUME NEW b \in Alerts, Confirm(b) \/ FixEnds(b)  PROVE HasAReason(a)
    BY <2>3 DEF Confirm, FixEnds, HasAReason
  <2>4. CASE issues \subseteq issues'
    BY <2>4
  <2> QED
    BY <2>1, <2>2, <2>3, <2>4
    DEF AlertNext, PollSteps, FixSteps, StartPoll, ReadAlerts, EntryUnloads,
        EntryRemoved, Leave, AlertAction, AlertChanges, OpenFix, FixServed, FixFails,
        avars
<1> QED
  BY <1>1, AlertTypeCorrect, PTL DEF AlertSpec, IssuesGoForAReason, HasAReason
=============================================================================
