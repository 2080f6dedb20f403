-------------------------- MODULE ConfigFlowProofs --------------------------
(***************************************************************************)
(* Proofs about ConfigFlow, for any number of entries, flows, machines,    *)
(* addresses and keys: no machine is configured twice, and what is stored  *)
(* was probed.                                                             *)
(***************************************************************************)
EXTENDS ConfigFlow, TLAPS

Answers == Machines \cup {"awaited", "failed"}

\* Who may have started a flow, and for which entry.
Origins == {<<"user", "none">>} \cup ({"reauth", "reconfigure"} \X Ids)

\* A flow at its probe: dismissed or not, and what the probe has answered.
AtProbe(source, i, d, x, a) ==
  [stage |-> "probing", source |-> source, entry |-> i, data |-> d,
   dismissed |-> x, answer |-> a]

Forms == {Form(o[1], o[2]) : o \in Origins}

Probes == {AtProbe(o[1], o[2], d, x, a) :
             o \in Origins, d \in Data, x \in BOOLEAN, a \in Answers}

Made == {Entry(m, d) : m \in Machines, d \in Data}

\* What flows and entries look like.
Shapes ==
  /\ flow \in [Flows -> {NoFlow} \cup Forms \cup Probes]
  /\ stored \in [Ids -> {Unused, Removed} \cup Made]

\* A reauth flow is in progress as long as its entry is there: it is not dismissed
\* otherwise, and the entry does not come back.  While it is at its probe, the address
\* in the entry is the one it took from there: a reconfigure flow that would change it
\* finds the reauth flow in progress.
ReauthFits == \A f \in Flows :
  flow[f] # NoFlow /\ flow[f].source = "reauth" =>
    /\ stored[flow[f].entry] # Unused
    /\ flow[f].entry \in There =>
         /\ InProgress(f)
         /\ flow[f].stage = "probing" =>
              flow[f].data.host = stored[flow[f].entry].data.host

CInv == Shapes /\ ReauthFits /\ OneEntryPerMachine

-----------------------------------------------------------------------------
(* Shapes                                                                  *)

\* An entry that is there was made, and its fields are of their types.
LEMMA ThereIsMade ==
  ASSUME Shapes, NEW i \in There
  PROVE  /\ i \in Ids /\ stored[i] \in Made
         /\ stored[i].unique_id \in Machines /\ stored[i].data \in Data
         /\ stored[i] = Entry(stored[i].unique_id, stored[i].data)
<1>1. i \in Ids /\ stored[i].status = "there"
  BY DEF There
<1>2. stored[i] \in {Unused, Removed} \cup Made
  BY <1>1 DEF Shapes
<1>3. stored[i] # Unused /\ stored[i] # Removed
  BY <1>1 DEF Unused, Removed
<1>4. PICK m \in Machines, d \in Data : stored[i] = Entry(m, d)
  BY <1>2, <1>3 DEF Made
<1> QED
  BY <1>1, <1>4 DEF Entry, Made

\* A flow at its probe has the shape of one.
LEMMA ProbeShape ==
  ASSUME Shapes, NEW f \in Flows, flow[f].stage = "probing"
  PROVE  \E o \in Origins, d \in Data, x \in BOOLEAN, a \in Answers :
           flow[f] = AtProbe(o[1], o[2], d, x, a)
<1>1. flow[f] \in {NoFlow} \cup Forms \cup Probes
  BY DEF Shapes
<1>2. flow[f] # NoFlow
  BY DEF NoFlow
<1>3. flow[f] \notin Forms
  BY DEF Forms, Form
<1> QED
  BY <1>1, <1>2, <1>3 DEF Probes

\* A flow that shows its form has the shape of one.
LEMMA FormShape ==
  ASSUME Shapes, NEW f \in Flows, flow[f].stage = "form"
  PROVE  \E o \in Origins : flow[f] = Form(o[1], o[2])
<1>1. flow[f] \in {NoFlow} \cup Forms \cup Probes
  BY DEF Shapes
<1>2. flow[f] # NoFlow
  BY DEF NoFlow
<1>3. flow[f] \notin Probes
  BY DEF Probes, AtProbe
<1> QED
  BY <1>1, <1>2, <1>3 DEF Forms

\* Every flow at its probe is a probe.
LEMMA ProbesHave ==
  ASSUME NEW o \in Origins, NEW d \in Data, NEW x \in BOOLEAN, NEW a \in Answers
  PROVE  AtProbe(o[1], o[2], d, x, a) \in Probes
  BY DEF Probes

\* A new probe is one that nobody dismissed and nothing answered.
LEMMA NewProbe ==
  ASSUME NEW s, NEW i, NEW d
  PROVE  Probing(s, i, d) = AtProbe(s, i, d, FALSE, "awaited")
  BY DEF Probing, AtProbe

\* The results of the operations on flows and entries have their shapes.
LEMMA NewFlows ==
  /\ NoFlow \in {NoFlow} \cup Forms \cup Probes
  /\ \A o \in Origins : Form(o[1], o[2]) \in Forms
  /\ \A o \in Origins, d \in Data : Probing(o[1], o[2], d) \in Probes
<1>1. NoFlow \in {NoFlow} \cup Forms \cup Probes
  OBVIOUS
<1>2. \A o \in Origins : Form(o[1], o[2]) \in Forms
  BY DEF Forms
<1>3. ASSUME NEW o \in Origins, NEW d \in Data  PROVE Probing(o[1], o[2], d) \in Probes
  <2>1. AtProbe(o[1], o[2], d, FALSE, "awaited") \in Probes
    BY ProbesHave DEF Answers
  <2> QED
    BY <2>1, NewProbe
<1> QED
  BY <1>1, <1>2, <1>3

\* A flow in its form or at its probe has an origin, which its fields name.
LEMMA FlowOrigin ==
  ASSUME Shapes, NEW f \in Flows, flow[f].stage \in {"form", "probing"}
  PROVE  <<flow[f].source, flow[f].entry>> \in Origins
<1>1. CASE flow[f].stage = "form"
  <2>1. PICK o \in Origins : flow[f] = Form(o[1], o[2])
    BY <1>1, FormShape
  <2> QED
    BY <2>1 DEF Origins, Form
<1>2. CASE flow[f].stage = "probing"
  <2>1. PICK o \in Origins, d \in Data, x \in BOOLEAN, a \in Answers :
          flow[f] = AtProbe(o[1], o[2], d, x, a)
    BY <1>2, ProbeShape
  <2> QED
    BY <2>1 DEF Origins, AtProbe
<1> QED
  BY <1>1, <1>2

\* Dismissing a flow and answering its probe leave one of a known shape.
LEMMA ProbeUpdates ==
  ASSUME Shapes, NEW f \in Flows, flow[f].stage = "probing", NEW a \in Answers
  PROVE  /\ [flow[f] EXCEPT !.answer = a] \in Probes
         /\ [flow[f] EXCEPT !.dismissed = TRUE] \in Probes
         /\ flow[f].data \in Data /\ flow[f].answer \in Answers
<1>1. PICK o \in Origins, d \in Data, x \in BOOLEAN, b \in Answers :
        flow[f] = AtProbe(o[1], o[2], d, x, b)
  BY ProbeShape
<1>2. [flow[f] EXCEPT !.answer = a] = AtProbe(o[1], o[2], d, x, a)
  BY <1>1 DEF AtProbe
<1>3. ASSUME NEW r, r = [flow[f] EXCEPT !.dismissed = TRUE]  PROVE r \in Probes
  <2>1. PICK p : p = flow[f]
    OBVIOUS
  <2>2. p = AtProbe(o[1], o[2], d, x, b) /\ r = [p EXCEPT !.dismissed = TRUE]
    BY <1>1, <1>3, <2>1
  <2>3. r = AtProbe(o[1], o[2], d, TRUE, b)
    BY <2>2 DEF AtProbe
  <2> QED
    BY <2>3, ProbesHave
<1>4. AtProbe(o[1], o[2], d, x, a) \in Probes
  BY ProbesHave
<1> QED
  BY <1>1, <1>2, <1>3, <1>4 DEF AtProbe

\* Setting one flow to a known shape keeps the shapes.
LEMMA SetFlowShapes ==
  ASSUME Shapes, NEW f \in Flows, NEW r \in {NoFlow} \cup Forms \cup Probes, SetFlow(f, r)
  PROVE  flow' \in [Flows -> {NoFlow} \cup Forms \cup Probes]
  BY DEF Shapes, SetFlow

\* A flow that writes its entry leaves it as it was, but for the data.
LEMMA UpdateWrites ==
  ASSUME Shapes, NEW f \in Flows, UpdateEntry(f)
  PROVE  /\ flow[f].entry \in There
         /\ stored[flow[f].entry].unique_id = flow[f].answer
         /\ Updates(f) \in Data
         /\ stored' = [stored EXCEPT ![flow[f].entry] = Entry(flow[f].answer, Updates(f))]
<1>1. flow[f].entry \in There /\ stored[flow[f].entry].unique_id = flow[f].answer
  BY DEF UpdateEntry, Refused, Mismatch
<1>2. flow[f].stage = "probing"
  BY DEF UpdateEntry, HasHostId
<1>3. flow[f].data \in Data
  BY <1>2, ProbeUpdates DEF Answers
<1>4. stored[flow[f].entry] = Entry(flow[f].answer, stored[flow[f].entry].data)
      /\ stored[flow[f].entry].data \in Data
  BY <1>1, ThereIsMade
<1>5. Updates(f) \in Data
  BY <1>3, <1>4 DEF Updates, Data
<1>6. [stored[flow[f].entry] EXCEPT !.data = Updates(f)] = Entry(flow[f].answer, Updates(f))
  BY <1>4 DEF Entry
<1>7. stored' = [stored EXCEPT ![flow[f].entry] =
                   [stored[flow[f].entry] EXCEPT !.data = Updates(f)]]
  BY DEF UpdateEntry
<1> QED
  BY <1>1, <1>5, <1>6, <1>7

\* Every step keeps the shapes.
LEMMA ShapesStep == Shapes /\ [CfgNext]_cvars => Shapes'
<1> SUFFICES ASSUME Shapes, [CfgNext]_cvars  PROVE Shapes'
  OBVIOUS
<1>1. ASSUME NEW f \in Flows, StartUser(f)  PROVE Shapes'
  <2>1. <<"user", "none">> \in Origins
    BY DEF Origins
  <2>2. Form("user", "none") \in Forms
    BY <2>1, NewFlows
  <2> QED
    BY <1>1, <2>2, SetFlowShapes DEF StartUser, Shapes
<1>2. ASSUME NEW f \in Flows, NEW i \in Ids, StartReconfigure(f, i) \/ StartReauth(f, i)
      PROVE  Shapes'
  <2>1. PICK s \in {"reauth", "reconfigure"} : SetFlow(f, Form(s, i)) /\ UNCHANGED stored
    BY <1>2 DEF StartReconfigure, StartReauth
  <2>2. <<s, i>> \in Origins
    BY DEF Origins
  <2>3. Form(s, i) \in Forms
    BY <2>2, NewFlows
  <2> QED
    BY <2>1, <2>3, SetFlowShapes DEF Shapes
<1>3. ASSUME NEW f \in Flows, NEW d \in Data, Submit(f, d)  PROVE Shapes'
  <2>1. <<flow[f].source, flow[f].entry>> \in Origins
    BY <1>3, FlowOrigin DEF Submit
  <2>2. Probing(flow[f].source, flow[f].entry, d) \in Probes
    BY <2>1, NewFlows
  <2> QED
    BY <1>3, <2>2, SetFlowShapes DEF Submit, Shapes
<1>4. ASSUME NEW f \in Flows, NEW a \in Machines \cup {"failed"}, ProbeEnds(f, a)
      PROVE  Shapes'
  <2>1. [flow[f] EXCEPT !.answer = a] \in Probes
    BY <1>4, ProbeUpdates DEF ProbeEnds, Answers
  <2> QED
    BY <1>4, <2>1, SetFlowShapes DEF ProbeEnds, Shapes
<1>5. ASSUME NEW f \in Flows, ShowError(f)  PROVE Shapes'
  <2>1. <<flow[f].source, flow[f].entry>> \in Origins
    BY <1>5, FlowOrigin DEF ShowError
  <2>2. Form(flow[f].source, flow[f].entry) \in Forms
    BY <2>1, NewFlows
  <2> QED
    BY <1>5, <2>2, SetFlowShapes, NewFlows DEF ShowError, Shapes
<1>6. ASSUME NEW f \in Flows, Abort(f)  PROVE Shapes'
  BY <1>6, SetFlowShapes, NewFlows DEF Abort, Shapes
<1>7. ASSUME NEW f \in Flows, NEW i \in Ids, CreateEntry(f, i)  PROVE Shapes'
  <2>1. flow[f].answer \in Machines /\ flow[f].data \in Data
    BY <1>7, ProbeUpdates DEF CreateEntry, HasHostId, Answers
  <2>2. Entry(flow[f].answer, flow[f].data) \in Made
    BY <2>1 DEF Made
  <2>3. stored' \in [Ids -> {Unused, Removed} \cup Made]
    BY <1>7, <2>2 DEF CreateEntry, Shapes
  <2> QED
    BY <1>7, <2>3, SetFlowShapes, NewFlows DEF CreateEntry, Shapes
<1>8. ASSUME NEW f \in Flows, UpdateEntry(f)  PROVE Shapes'
  <2>1. flow[f].answer \in Machines
    BY <1>8 DEF UpdateEntry, HasHostId
  <2>2. Entry(flow[f].answer, Updates(f)) \in Made
    BY <1>8, <2>1, UpdateWrites DEF Made
  <2>3. stored' \in [Ids -> {Unused, Removed} \cup Made]
    BY <1>8, <2>2, UpdateWrites DEF Shapes
  <2> QED
    BY <1>8, <2>3, SetFlowShapes, NewFlows DEF UpdateEntry, Shapes
<1>9. \A f \in Flows : InProgress(f) => Dismissed(f) \in {NoFlow} \cup Forms \cup Probes
  BY ProbeUpdates, NewFlows DEF Dismissed, Answers
<1>10. ASSUME NEW f \in Flows, Dismiss(f)  PROVE Shapes'
  BY <1>9, <1>10, SetFlowShapes DEF Dismiss, Shapes
<1>11. ASSUME NEW i \in Ids, RemoveEntry(i)  PROVE Shapes'
  BY <1>9, <1>11 DEF RemoveEntry, Shapes
<1>12. CASE UNCHANGED cvars
  BY <1>12 DEF cvars, Shapes
<1> QED
  BY <1>1, <1>2, <1>3, <1>4, <1>5, <1>6, <1>7, <1>8, <1>10, <1>11, <1>12 DEF CfgNext

-----------------------------------------------------------------------------
(* Reauth flows                                                            *)

\* What ReauthFits says of one flow.
Fits(f) ==
  flow[f] # NoFlow /\ flow[f].source = "reauth" =>
    /\ stored[flow[f].entry] # Unused
    /\ flow[f].entry \in There =>
         /\ InProgress(f)
         /\ flow[f].stage = "probing" =>
              flow[f].data.host = stored[flow[f].entry].data.host

\* A step that sets another flow and leaves the entry of this one alone.
LEMMA Untouched ==
  ASSUME NEW g, Fits(g), flow'[g] = flow[g],
         flow[g] # NoFlow /\ flow[g].source = "reauth" =>
           stored'[flow[g].entry] = stored[flow[g].entry]
  PROVE  Fits(g)'
  BY DEF Fits, InProgress, There

\* The entry of a reauth flow is one.
LEMMA ReauthEntry ==
  ASSUME Shapes, NEW g \in Flows, flow[g] # NoFlow, flow[g].source = "reauth"
  PROVE  flow[g].entry \in Ids
<1>1. flow[g].stage \in {"form", "probing"}
  BY DEF Shapes, Forms, Probes, Form, AtProbe
<1> QED
  BY <1>1, FlowOrigin DEF Origins

\* A flow that is over, or that the user started, has nothing to fit.
LEMMA NothingToFit ==
  ASSUME NEW g, flow'[g] = NoFlow \/ flow'[g].source # "reauth"
  PROVE  Fits(g)'
  BY DEF Fits

\* Every step keeps the reauth flows fitting.
LEMMA ReauthFitsStep == Shapes /\ ReauthFits /\ [CfgNext]_cvars => ReauthFits'
<1> SUFFICES ASSUME Shapes, ReauthFits, [CfgNext]_cvars, NEW g \in Flows  PROVE Fits(g)'
  BY DEF ReauthFits, Fits
<1> Fits(g)
  BY DEF ReauthFits, Fits
<1>1. ASSUME NEW f \in Flows, NEW r, SetFlow(f, r), UNCHANGED stored,
             r = NoFlow \/ r.source # "reauth"
      PROVE  Fits(g)'
  <2>1. CASE g = f
    BY <1>1, <2>1, NothingToFit DEF SetFlow, Shapes
  <2>2. CASE g # f
    BY <1>1, <2>2, Untouched DEF SetFlow, Shapes
  <2> QED
    BY <2>1, <2>2
<1>2. ASSUME NEW f \in Flows, StartUser(f) \/ Abort(f)  PROVE Fits(g)'
  BY <1>1, <1>2 DEF StartUser, Abort, Form
<1>3. ASSUME NEW f \in Flows, NEW i \in Ids, StartReconfigure(f, i)  PROVE Fits(g)'
  BY <1>1, <1>3 DEF StartReconfigure, Form
<1>4. ASSUME NEW f \in Flows, NEW i \in Ids, StartReauth(f, i)  PROVE Fits(g)'
  <2>1. CASE g = f
    <3>1. flow'[g] = Form("reauth", i) /\ UNCHANGED stored /\ i \in There
      BY <1>4, <2>1 DEF StartReauth, SetFlow, Shapes
    <3> QED
      BY <3>1 DEF Fits, InProgress, There, Form, Unused
  <2>2. CASE g # f
    BY <1>4, <2>2, Untouched DEF StartReauth, SetFlow, Shapes
  <2> QED
    BY <2>1, <2>2
<1>5. ASSUME NEW f \in Flows, NEW d \in Data, Submit(f, d)  PROVE Fits(g)'
  <2>1. CASE g = f
    <3>1. flow'[g] = Probing(flow[g].source, flow[g].entry, d) /\ UNCHANGED stored
      BY <1>5, <2>1 DEF Submit, SetFlow, Shapes
    <3>2. flow[g] # NoFlow
      BY <1>5, <2>1 DEF Submit, NoFlow
    <3> QED
      BY <1>5, <2>1, <3>1, <3>2 DEF Submit, Fits, InProgress, There, Probing
  <2>2. CASE g # f
    BY <1>5, <2>2, Untouched DEF Submit, SetFlow, Shapes
  <2> QED
    BY <2>1, <2>2
<1>6. ASSUME NEW f \in Flows, NEW a \in Machines \cup {"failed"}, ProbeEnds(f, a)
      PROVE  Fits(g)'
  <2>1. CASE g = f
    <3>1. flow'[g] = [flow[g] EXCEPT !.answer = a] /\ UNCHANGED stored
      BY <1>6, <2>1 DEF ProbeEnds, SetFlow, Shapes
    <3>2. PICK o \in Origins, d \in Data, x \in BOOLEAN, b \in Answers :
            flow[g] = AtProbe(o[1], o[2], d, x, b)
      BY <1>6, <2>1, ProbeShape DEF ProbeEnds
    <3>3. flow'[g] = AtProbe(o[1], o[2], d, x, a)
      BY <3>1, <3>2 DEF AtProbe
    <3> QED
      BY <3>1, <3>2, <3>3 DEF Fits, InProgress, There, AtProbe, NoFlow
  <2>2. CASE g # f
    BY <1>6, <2>2, Untouched DEF ProbeEnds, SetFlow, Shapes
  <2> QED
    BY <2>1, <2>2
<1>7. ASSUME NEW f \in Flows, ShowError(f)  PROVE Fits(g)'
  <2>1. CASE g = f /\ InProgress(f)
    <3>1. flow'[g] = Form(flow[g].source, flow[g].entry) /\ UNCHANGED stored
      BY <1>7, <2>1 DEF ShowError, SetFlow, Shapes
    <3>2. flow[g] # NoFlow
      BY <1>7, <2>1 DEF ShowError, NoFlow
    <3> QED
      BY <3>1, <3>2 DEF Fits, InProgress, There, Form
  <2>2. CASE g # f \/ ~InProgress(f)
    BY <1>1, <1>7, <2>2, Untouched DEF ShowError, SetFlow, Shapes
  <2> QED
    BY <2>1, <2>2
<1>8. ASSUME NEW f \in Flows, NEW i \in Ids, CreateEntry(f, i)  PROVE Fits(g)'
  <2>1. flow' = [flow EXCEPT ![f] = NoFlow] /\ stored[i] = Unused
        /\ \A j \in Ids : j # i => stored'[j] = stored[j]
    BY <1>8 DEF CreateEntry, SetFlow, Shapes
  <2>2. CASE g = f
    BY <2>1, <2>2, NothingToFit DEF Shapes
  <2>3. CASE g # f
    BY <2>1, <2>3, Untouched, ReauthEntry DEF Fits, Shapes
  <2> QED
    BY <2>2, <2>3
<1>9. ASSUME NEW f \in Flows, UpdateEntry(f)  PROVE Fits(g)'
  <2>1. flow' = [flow EXCEPT ![f] = NoFlow] /\ flow[f].entry \in There
        /\ stored[flow[f].entry].unique_id = flow[f].answer
        /\ \A j \in Ids : j # flow[f].entry => stored'[j] = stored[j]
    BY <1>9, UpdateWrites DEF UpdateEntry, SetFlow, Shapes
  <2>2. CASE g = f
    BY <2>1, <2>2, NothingToFit DEF Shapes
  <2>3. CASE g # f
    <3>1. ASSUME flow[g] # NoFlow, flow[g].source = "reauth", flow[g].entry = flow[f].entry
          PROVE  FALSE
      <4>1. InProgress(g)
        BY <2>1, <3>1 DEF Fits
      <4>2. flow[f].answer \in ContextOf(g)
        BY <2>1, <3>1 DEF ContextOf
      <4> QED
        BY <1>9, <2>3, <4>1, <4>2 DEF UpdateEntry, Refused, AlreadyInProgress
    <3> QED
      BY <2>1, <2>3, <3>1, Untouched, ReauthEntry DEF Shapes
  <2> QED
    BY <2>2, <2>3
<1>10. ASSUME NEW f \in Flows, Dismiss(f)  PROVE Fits(g)'
  <2>1. Dismissed(f) = NoFlow \/ Dismissed(f).source # "reauth"
    <3>1. CASE flow[f].stage = "probing"
      <4>1. PICK o \in Origins, d \in Data, x \in BOOLEAN, a \in Answers :
              flow[f] = AtProbe(o[1], o[2], d, x, a)
        BY <3>1, ProbeShape
      <4>2. PICK r : r = [flow[f] EXCEPT !.dismissed = TRUE]
        OBVIOUS
      <4>3. r.source = flow[f].source
        BY <4>1, <4>2 DEF AtProbe
      <4> QED
        BY <1>10, <3>1, <4>2, <4>3 DEF Dismiss, Dismissed
    <3>2. CASE flow[f].stage # "probing"
      BY <3>2 DEF Dismissed
    <3> QED
      BY <3>1, <3>2
  <2> QED
    BY <1>1, <1>10, <2>1 DEF Dismiss
<1>11. ASSUME NEW i \in Ids, RemoveEntry(i)  PROVE Fits(g)'
  <2>1. stored' = [stored EXCEPT ![i] = Removed]
    BY <1>11 DEF RemoveEntry
  <2>2. CASE flow'[g] = flow[g]
    <3>1. CASE flow[g] # NoFlow /\ flow[g].source = "reauth" /\ flow[g].entry = i
      <4>1. stored'[i] = Removed
        BY <2>1 DEF Shapes
      <4> QED
        BY <2>2, <3>1, <4>1 DEF Fits, There, Removed, Unused
    <3>2. CASE ~(flow[g] # NoFlow /\ flow[g].source = "reauth" /\ flow[g].entry = i)
      BY <2>1, <2>2, <3>2, Untouched DEF Shapes
    <3> QED
      BY <3>1, <3>2
  <2>3. CASE flow'[g] = Dismissed(g) /\ flow[g].stage = "probing" /\ flow[g].entry = i
    <3>1. PICK o \in Origins, d \in Data, x \in BOOLEAN, a \in Answers :
            flow[g] = AtProbe(o[1], o[2], d, x, a)
      BY <2>3, ProbeShape
    <3>2. PICK r : r = [flow[g] EXCEPT !.dismissed = TRUE]
      OBVIOUS
    <3>3. r.entry = flow[g].entry
      BY <3>1, <3>2 DEF AtProbe
    <3>4. flow'[g].entry = i
      BY <2>3, <3>2, <3>3 DEF Dismissed
    <3>5. stored'[i] = Removed
      BY <2>1 DEF Shapes
    <3> QED
      BY <3>4, <3>5 DEF Fits, There, Removed, Unused
  <2>4. CASE flow'[g] = NoFlow
    BY <2>4, NothingToFit
  <2> QED
    BY <1>11, <2>2, <2>3, <2>4 DEF RemoveEntry, Dismissed
<1>12. CASE UNCHANGED cvars
  BY <1>12, Untouched DEF cvars
<1> QED
  BY <1>2, <1>3, <1>4, <1>5, <1>6, <1>7, <1>8, <1>9, <1>10, <1>11, <1>12 DEF CfgNext

-----------------------------------------------------------------------------
(* The entries                                                             *)

\* Every step keeps the machines of the entries apart.
LEMMA OneEntryStep == Shapes /\ OneEntryPerMachine /\ [CfgNext]_cvars => OneEntryPerMachine'
<1> SUFFICES ASSUME Shapes, OneEntryPerMachine, [CfgNext]_cvars  PROVE OneEntryPerMachine'
  OBVIOUS
<1>1. CASE UNCHANGED stored
  BY <1>1 DEF OneEntryPerMachine, There
<1>2. ASSUME NEW f \in Flows, NEW i \in Ids, CreateEntry(f, i)  PROVE OneEntryPerMachine'
  <2>1. CASE stored' = [stored EXCEPT ![i] = Entry(flow[f].answer, flow[f].data)]
    <3>1. \A j \in There' : j = i \/ (j \in There /\ stored'[j] = stored[j])
      BY <2>1 DEF There
    <3>2. stored'[i].unique_id = flow[f].answer
      BY <2>1 DEF Shapes, Entry
    <3>3. \A j \in There : stored[j].unique_id # flow[f].answer
      BY <1>2 DEF CreateEntry, Refused, Configured
    <3> QED
      BY <3>1, <3>2, <3>3 DEF OneEntryPerMachine
  <2> QED
    BY <1>1, <1>2, <2>1 DEF CreateEntry
<1>3. ASSUME NEW f \in Flows, UpdateEntry(f)  PROVE OneEntryPerMachine'
  <2>1. \A j \in There' : j \in There /\ stored'[j].unique_id = stored[j].unique_id
    <3>1. stored' = [stored EXCEPT ![flow[f].entry] = Entry(flow[f].answer, Updates(f))]
          /\ flow[f].entry \in There /\ stored[flow[f].entry].unique_id = flow[f].answer
      BY <1>3, UpdateWrites
    <3>2. \A j \in Ids : j # flow[f].entry => stored'[j] = stored[j]
      BY <3>1 DEF Shapes
    <3>3. stored'[flow[f].entry] = Entry(flow[f].answer, Updates(f))
      BY <3>1 DEF Shapes, There
    <3> QED
      BY <3>1, <3>2, <3>3 DEF There, Entry
  <2> QED
    BY <2>1 DEF OneEntryPerMachine
<1>4. ASSUME NEW i \in Ids, RemoveEntry(i)  PROVE OneEntryPerMachine'
  <2>1. \A j \in There' : j \in There /\ stored'[j] = stored[j]
    BY <1>4 DEF RemoveEntry, There, Shapes, Removed
  <2> QED
    BY <2>1 DEF OneEntryPerMachine
<1> QED
  BY <1>1, <1>2, <1>3, <1>4 DEF CfgNext, cvars, StartUser, StartReconfigure, StartReauth,
     Submit, ProbeEnds, ShowError, Abort, Dismiss

\* The invariant holds in every reachable state.
THEOREM CfgInductive == CfgSpec => []CInv
<1>1. CfgInit => CInv
  BY DEF CfgInit, CInv, Shapes, ReauthFits, OneEntryPerMachine, There, Unused
<1>2. CInv /\ [CfgNext]_cvars => CInv'
  BY ShapesStep, ReauthFitsStep, OneEntryStep DEF CInv
<1> QED
  BY <1>1, <1>2, PTL DEF CfgSpec

\* Every variable keeps its type.
THEOREM CfgTypeCorrect == CfgSpec => []CfgTypeOK
<1>1. CInv => CfgTypeOK
  <2> SUFFICES ASSUME Shapes  PROVE CfgTypeOK
    BY DEF CInv
  <2>1. ASSUME NEW f \in Flows, flow[f] # NoFlow
        PROVE  /\ flow[f].stage \in {"form", "probing"}
               /\ \/ flow[f].source = "user" /\ flow[f].entry = "none"
                  \/ flow[f].source \in {"reauth", "reconfigure"} /\ flow[f].entry \in Ids
               /\ flow[f].stage = "probing" =>
                    /\ flow[f].data \in Data
                    /\ flow[f].dismissed \in BOOLEAN
                    /\ flow[f].answer \in Machines \cup {"awaited", "failed"}
    <3>1. flow[f].stage \in {"form", "probing"}
      BY <2>1 DEF Shapes, Forms, Probes, Form, AtProbe
    <3>2. <<flow[f].source, flow[f].entry>> \in Origins
      BY <3>1, FlowOrigin
    <3>3. ASSUME flow[f].stage = "probing"
          PROVE  /\ flow[f].data \in Data
                 /\ flow[f].dismissed \in BOOLEAN
                 /\ flow[f].answer \in Machines \cup {"awaited", "failed"}
      <4>1. PICK o \in Origins, d \in Data, x \in BOOLEAN, a \in Answers :
              flow[f] = AtProbe(o[1], o[2], d, x, a)
        BY <3>3, ProbeShape
      <4>2. flow[f].data = d /\ flow[f].dismissed = x /\ flow[f].answer = a
        BY <4>1 DEF AtProbe
      <4> QED
        BY <4>2 DEF Answers
    <3> QED
      BY <3>1, <3>2, <3>3 DEF Origins
  <2> QED
    BY <2>1 DEF CfgTypeOK, Shapes, Made
<1> QED
  BY <1>1, CfgInductive, PTL

\* No NAS is configured twice, whatever flows overlap (config_flow.py).
THEOREM MachinesApart == CfgSpec => []OneEntryPerMachine
<1>1. CInv => OneEntryPerMachine
  BY DEF CInv
<1> QED
  BY <1>1, CfgInductive, PTL

\* What an entry comes to hold was tried as a whole by the flow that writes it, also
\* when a reauth flow writes the key alone.
THEOREM StoredWereProbed == CfgSpec => StoredDataWereProbed
<1>1. ASSUME CInv, CfgNext, NEW i \in Ids,
             stored'[i] # stored[i], stored'[i].status = "there"
      PROVE  \E f \in Flows :
               /\ flow[f].stage = "probing"
               /\ flow[f].data = stored'[i].data
               /\ flow[f].answer = stored'[i].unique_id
  <2> USE <1>1 DEF CInv
  <2>1. ASSUME NEW f \in Flows, NEW j \in Ids, CreateEntry(f, j)
        PROVE  /\ flow[f].stage = "probing"
               /\ flow[f].data = stored'[i].data
               /\ flow[f].answer = stored'[i].unique_id
    <3>1. stored' = [stored EXCEPT ![j] = Entry(flow[f].answer, flow[f].data)]
      BY <2>1 DEF CreateEntry
    <3>2. i = j /\ stored'[i] = Entry(flow[f].answer, flow[f].data)
      BY <3>1 DEF Shapes
    <3> QED
      BY <2>1, <3>2 DEF CreateEntry, HasHostId, Entry
  <2>2. ASSUME NEW f \in Flows, UpdateEntry(f)
        PROVE  /\ flow[f].stage = "probing"
               /\ flow[f].data = stored'[i].data
               /\ flow[f].answer = stored'[i].unique_id
    <3>1. flow[f].stage = "probing" /\ flow[f].source # "user"
      BY <2>2 DEF UpdateEntry, HasHostId
    <3>2. i = flow[f].entry /\ stored'[i] = Entry(flow[f].answer, Updates(f))
      BY <2>2, UpdateWrites DEF Shapes
    <3>3. Updates(f) = flow[f].data
      <4>1. CASE flow[f].source = "reauth"
        <5>1. stored[i].data \in Data /\ flow[f].data \in Data
          BY <2>2, <3>1, <3>2, UpdateWrites, ThereIsMade, ProbeUpdates DEF Answers
        <5>2. flow[f].data.host = stored[i].data.host
          BY <2>2, <3>1, <3>2, <4>1, UpdateWrites DEF ReauthFits, NoFlow
        <5> QED
          BY <3>2, <4>1, <5>1, <5>2 DEF Updates, Data
      <4>2. CASE flow[f].source # "reauth"
        BY <4>2 DEF Updates
      <4> QED
        BY <4>1, <4>2
    <3> QED
      BY <3>1, <3>2, <3>3 DEF Entry
  <2>3. ASSUME NEW j \in Ids, RemoveEntry(j)  PROVE FALSE
    <3>1. stored'[i] = Removed
      BY <2>3 DEF RemoveEntry, Shapes
    <3> QED
      BY <3>1 DEF Removed
  <2> QED
    BY <2>1, <2>2, <2>3 DEF CfgNext, StartUser, StartReconfigure, StartReauth, Submit,
       ProbeEnds, ShowError, Abort, Dismiss
<1>2. CInv /\ [CfgNext]_cvars =>
        \A i \in Ids : stored'[i] # stored[i] /\ stored'[i].status = "there" =>
          \E f \in Flows :
            /\ flow[f].stage = "probing"
            /\ flow[f].data = stored'[i].data
            /\ flow[f].answer = stored'[i].unique_id
  BY <1>1 DEF cvars
<1> QED
  BY <1>2, CfgInductive, PTL DEF CfgSpec, StoredDataWereProbed
=============================================================================
