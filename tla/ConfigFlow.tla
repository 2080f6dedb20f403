----------------------------- MODULE ConfigFlow -----------------------------
(***************************************************************************)
(* config_flow.py: the flows that add a NAS, rotate its API key and change *)
(* its address, side by side, and the config entries they write.           *)
(*                                                                         *)
(* A step of a flow runs on the event loop up to the probe of the NAS,     *)
(* which runs on a worker thread, and goes on when the probe is over: in   *)
(* between, other flows run.  Home Assistant keeps the flows in progress;  *)
(* a flow that is dismissed is no longer one of them, but a step of it     *)
(* that waits for its probe goes on.                                       *)
(***************************************************************************)
EXTENDS Naturals

CONSTANTS
  Ids,       \* config entries; an id is used once
  Machines,  \* the answers of system.host_id
  Hosts,     \* the addresses that users type
  ApiKeys,   \* the API keys that users type
  Flows      \* flows that may be there at one time

VARIABLES
  stored,  \* the config entries
  flow     \* the flows

cvars == <<stored, flow>>

\* host stands for the host, port, username and verify_ssl of the form.
Data == [host : Hosts, key : ApiKeys]

Unused == [status |-> "unused"]

Removed == [status |-> "removed"]

\* unique_id: the host_id that was read when the entry was made.
Entry(m, d) == [status |-> "there", unique_id |-> m, data |-> d]

There == {i \in Ids : stored[i].status = "there"}

NoFlow == [stage |-> "none"]

\* A flow that shows its form; a user flow has no entry.
Form(source, i) == [stage |-> "form", source |-> source, entry |-> i]

\* A flow whose step waits for the probe of d.
Probing(source, i, d) ==
  [stage |-> "probing", source |-> source, entry |-> i, data |-> d,
   dismissed |-> FALSE, answer |-> "awaited"]

InProgress(f) ==
  \/ flow[f].stage = "form"
  \/ flow[f].stage = "probing" /\ ~flow[f].dismissed

CfgInit ==
  /\ stored = [i \in Ids |-> Unused]
  /\ flow = [f \in Flows |-> NoFlow]

SetFlow(f, r) == flow' = [flow EXCEPT ![f] = r]

-----------------------------------------------------------------------------
(* Flows begin.                                                            *)

StartUser(f) ==
  /\ flow[f] = NoFlow
  /\ SetFlow(f, Form("user", "none"))
  /\ UNCHANGED stored

StartReconfigure(f, i) ==
  /\ flow[f] = NoFlow
  /\ i \in There
  /\ SetFlow(f, Form("reconfigure", i))
  /\ UNCHANGED stored

\* ConfigEntryAuthFailed: Home Assistant starts a reauth flow unless a reauth or
\* reconfigure flow of the entry is in progress.
StartReauth(f, i) ==
  /\ flow[f] = NoFlow
  /\ i \in There
  /\ \A g \in Flows : InProgress(g) => flow[g].entry # i
  /\ SetFlow(f, Form("reauth", i))
  /\ UNCHANGED stored

-----------------------------------------------------------------------------
(* A form is submitted.  The user and reconfigure forms hold everything;   *)
(* the reauth form asks for the key alone, the rest is that of the entry   *)
(* now.  The step of an entry that was removed raises.                     *)

Submit(f, d) ==
  /\ flow[f].stage = "form"
  /\ flow[f].entry \in There \cup {"none"}
  /\ flow[f].source = "reauth" => d.host = stored[flow[f].entry].data.host
  /\ SetFlow(f, Probing(flow[f].source, flow[f].entry, d))
  /\ UNCHANGED stored

\* _validate on the worker: which machine an address reaches and which keys it takes
\* may change at any time.  Whatever the error, _async_probe returns None.
ProbeEnds(f, answer) ==
  /\ flow[f].stage = "probing"
  /\ flow[f].answer = "awaited"
  /\ SetFlow(f, [flow[f] EXCEPT !.answer = answer])
  /\ UNCHANGED stored

\* No host_id: the form again, with an error.  A dismissed flow has no form.
ShowError(f) ==
  /\ flow[f].stage = "probing"
  /\ flow[f].answer = "failed"
  /\ SetFlow(f, IF InProgress(f) THEN Form(flow[f].source, flow[f].entry) ELSE NoFlow)
  /\ UNCHANGED stored

-----------------------------------------------------------------------------
(* The host_id is known.  The rest of the step does not suspend.           *)

\* Mutant of HasHostId: the None of a failed probe is taken for a host_id.
HasHostIdAlways(f) == flow[f].stage = "probing" /\ flow[f].answer # "awaited"

HasHostId(f) == flow[f].stage = "probing" /\ flow[f].answer \in Machines

\* The unique id in the context of a flow, between its steps: a reauth flow has that
\* of its entry from the start.
ContextOf(g) ==
  {stored[i].unique_id : i \in {j \in There : flow[g].source = "reauth" /\ flow[g].entry = j}}

\* async_set_unique_id aborts when another flow in progress has the host_id.
AlreadyInProgress(f) ==
  \E g \in Flows \ {f} : InProgress(g) /\ flow[f].answer \in ContextOf(g)

\* _abort_if_unique_id_configured.
Configured(f) == \E i \in There : stored[i].unique_id = flow[f].answer

\* _abort_if_unique_id_mismatch; the entry may have been removed meanwhile, and then
\* Home Assistant does not know it.
Mismatch(f) ==
  flow[f].entry \in There => stored[flow[f].entry].unique_id # flow[f].answer

Refused(f) ==
  \/ AlreadyInProgress(f)
  \/ IF flow[f].source = "user" THEN Configured(f) ELSE Mismatch(f)

Abort(f) ==
  /\ HasHostId(f)
  /\ Refused(f)
  /\ SetFlow(f, NoFlow)
  /\ UNCHANGED stored

\* Mutant of CreateEntry: the unique id is not checked before the entry is made.
CreateEntryUnchecked(f, i) ==
  /\ HasHostId(f) /\ flow[f].source = "user"
  /\ stored[i] = Unused
  /\ stored' = [stored EXCEPT ![i] = Entry(flow[f].answer, flow[f].data)]
  /\ SetFlow(f, NoFlow)

\* Home Assistant makes the entry from the result of the step, if the flow is still
\* in progress.
CreateEntry(f, i) ==
  /\ HasHostId(f) /\ flow[f].source = "user"
  /\ ~Refused(f)
  /\ stored[i] = Unused
  /\ IF InProgress(f)
     THEN stored' = [stored EXCEPT ![i] = Entry(flow[f].answer, flow[f].data)]
     ELSE UNCHANGED stored
  /\ SetFlow(f, NoFlow)

\* Mutant of Updates: a reconfigure writes the key alone, as a reauth does.
UpdatesKeyOnly(f) == [stored[flow[f].entry].data EXCEPT !.key = flow[f].data.key]

\* data_updates: a reauth flow writes the key, a reconfigure flow everything.
Updates(f) ==
  IF flow[f].source = "reauth"
  THEN [stored[flow[f].entry].data EXCEPT !.key = flow[f].data.key]
  ELSE flow[f].data

\* async_update_reload_and_abort runs in the step: also when the flow was dismissed.
UpdateEntry(f) ==
  /\ HasHostId(f) /\ flow[f].source # "user"
  /\ ~Refused(f)
  /\ stored' = [stored EXCEPT ![flow[f].entry].data = Updates(f)]
  /\ SetFlow(f, NoFlow)

-----------------------------------------------------------------------------
(* The user closes the dialog of a flow that the user started, or removes  *)
(* an entry: its reauth flow goes with it.                                 *)

Dismissed(f) ==
  IF flow[f].stage = "probing" THEN [flow[f] EXCEPT !.dismissed = TRUE] ELSE NoFlow

Dismiss(f) ==
  /\ InProgress(f)
  /\ flow[f].source # "reauth"
  /\ SetFlow(f, Dismissed(f))
  /\ UNCHANGED stored

RemoveEntry(i) ==
  /\ i \in There
  /\ stored' = [stored EXCEPT ![i] = Removed]
  /\ flow' = [f \in Flows |->
                IF InProgress(f) /\ flow[f].source = "reauth" /\ flow[f].entry = i
                THEN Dismissed(f) ELSE flow[f]]

-----------------------------------------------------------------------------
CfgNext ==
  \/ \E f \in Flows :
       \/ StartUser(f)
       \/ \E i \in Ids : StartReconfigure(f, i) \/ StartReauth(f, i) \/ CreateEntry(f, i)
       \/ \E d \in Data : Submit(f, d)
       \/ \E answer \in Machines \cup {"failed"} : ProbeEnds(f, answer)
       \/ ShowError(f) \/ Abort(f) \/ UpdateEntry(f) \/ Dismiss(f)
  \/ \E i \in Ids : RemoveEntry(i)

CfgSpec == CfgInit /\ [][CfgNext]_cvars

-----------------------------------------------------------------------------
(* Properties                                                              *)

\* Every variable keeps its type.
CfgTypeOK ==
  /\ stored \in [Ids -> {Unused, Removed} \cup {Entry(m, d) : m \in Machines, d \in Data}]
  /\ \A f \in Flows :
       \/ flow[f] = NoFlow
       \/ /\ flow[f].stage \in {"form", "probing"}
          /\ \/ flow[f].source = "user" /\ flow[f].entry = "none"
             \/ flow[f].source \in {"reauth", "reconfigure"} /\ flow[f].entry \in Ids
          /\ flow[f].stage = "probing" =>
               /\ flow[f].data \in Data
               /\ flow[f].dismissed \in BOOLEAN
               /\ flow[f].answer \in Machines \cup {"awaited", "failed"}

\* No NAS is configured twice, however the flows that add it overlap.
OneEntryPerMachine ==
  \A i, j \in There : stored[i].unique_id = stored[j].unique_id => i = j

\* What an entry comes to hold was tried, all of it together, by the flow that writes
\* it, and the NAS that answered is the one of the entry.  A reauth flow tries its new
\* key with an address it read before the probe, and writes the key alone after it.
StoredDataWereProbed ==
  [][\A i \in Ids :
       stored'[i] # stored[i] /\ stored'[i].status = "there" =>
         \E f \in Flows :
           /\ flow[f].stage = "probing"
           /\ flow[f].data = stored'[i].data
           /\ flow[f].answer = stored'[i].unique_id]_cvars

=============================================================================
