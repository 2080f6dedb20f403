---------------------------- MODULE EntityProofs ----------------------------
(***************************************************************************)
(* Proofs about Entity, for entities of every class: what is shown while   *)
(* available is not stale, however polls overlap, fail, and are requested. *)
(* And about Storage, whose snapshots the entities of the disks show, for  *)
(* every set of disks: a disk that keeps its name from one call to the     *)
(* next gets what is its own, whatever happens to the others.              *)
(***************************************************************************)
EXTENDS Entity, Storage, TLAPS

\* What the properties need of the types.
EntityTypes ==
  /\ class \in Classes
  /\ polling \in [Running -> {"idle", "asked", "read"}]
  /\ read \in [Running -> ObjectStates]
  /\ since \in [Running -> SUBSET ObjectStates]
  /\ object \in ObjectStates

\* A poll under way remembers every state since it began, the one it read included.
PollsRemember == \A p \in Running :
  /\ polling[p] # "idle" => object \in since[p]
  /\ polling[p] = "read" => read[p] \in since[p]

\* What is shown after a success was there during the poll, or was made absent by a
\* fetch that turned its error into an empty dict.
ShownFits == updated => shown \in window \/ (shown = "absent" /\ class.keyed)

EInv == EntityTypes /\ PollsRemember /\ ShownFits

-----------------------------------------------------------------------------
(* The classes                                                             *)

\* What a fetch hides by its empty dict is keyed, and so becomes unavailable.
LEMMA TolerantIsKeyed ==
  ASSUME NEW c \in Classes, c.tolerant  PROVE c.keyed
<1>1. \A v : \A t, o \in BOOLEAN :
        /\ Thing(t, o).keyed
        /\ Does(Thing(t, o), v).keyed
        /\ ~Hub(o).tolerant
        /\ ~DoesOnly(Hub(o)).tolerant
  BY DEF Thing, Hub, Does, DoesOnly
<1>2. ~ScrubButton.tolerant /\ ~OSUpdateEntity.tolerant
  BY DEF ScrubButton, OSUpdateEntity, Thing, Hub, DoesOnly
<1> QED
  BY <1>1, <1>2, ZenonT(60)
     DEF Classes, SystemSensor, AlertsSensor, ReportingSensor, PoolSensor, DiskSensor,
         DatasetSensor, AppSensor, VMSensor, PoolHealthBinarySensor,
         DiskProblemBinarySensor, ServiceRunningBinarySensor, CriticalAlertBinarySensor,
         ServiceSwitch, AppSwitch, VMSwitch, SystemButton, ServiceRestartButton,
         AppRedeployButton, VMRestartButton, AppUpdateEntity

-----------------------------------------------------------------------------
(* Initial states and steps                                                *)

\* Nothing is shown or asked at first.
LEMMA EntityInitially == EntityInit => EInv
BY DEF EntityInit, EInv, EntityTypes, PollsRemember, ShownFits, Running,
       ObjectStates

\* The types are kept by every step.
LEMMA TypesStay == EInv /\ [EntityNext]_evars => EntityTypes'
<1> SUFFICES ASSUME EInv, [EntityNext]_evars  PROVE EntityTypes'
  OBVIOUS
<1> USE DEF EInv, EntityTypes
<1>1. CASE ObjectChanges
  BY <1>1 DEF ObjectChanges, Turns, ObjectStates
<1>2. CASE BeginPoll
  BY <1>2 DEF BeginPoll, Asked, Running
<1>3. CASE AddEntities
  BY <1>3 DEF AddEntities
<1>4. CASE RemoveEntities
  BY <1>4 DEF RemoveEntities, Idle, ObjectStates
<1>5. ASSUME NEW p \in Running, ReadObject(p)  PROVE EntityTypes'
  BY <1>5 DEF ReadObject
<1>6. ASSUME NEW p \in Running, Fetched(p) \/ FetchRaises(p)  PROVE EntityTypes'
  BY <1>6 DEF Fetched, FetchRaises, EndPoll, ObjectStates
<1>7. ASSUME NEW v \in class.verbs, Press(v)  PROVE EntityTypes'
  BY <1>7 DEF Press
<1>8. CASE Execute
  BY <1>8 DEF Execute, Turns, Effect, ObjectStates
<1>9. CASE CallReturns
  BY <1>9 DEF CallReturns, Asked, Running
<1>10. CASE CallFails \/ InstallAssumed \/ Acknowledge
  BY <1>10 DEF CallFails, InstallAssumed, Acknowledge, Idle
<1>11. CASE UNCHANGED evars
  BY <1>11 DEF evars
<1> QED
  BY <1>1, <1>2, <1>3, <1>4, <1>5, <1>6, <1>7, <1>8, <1>9, <1>10, <1>11 DEF EntityNext

\* A poll goes on remembering, while the object changes and while it reads.
LEMMA PollsRememberStep == EInv /\ [EntityNext]_evars => PollsRemember'
<1> SUFFICES ASSUME EInv, [EntityNext]_evars, NEW q \in Running
             PROVE  /\ polling'[q] # "idle" => object' \in since'[q]
                    /\ polling'[q] = "read" => read'[q] \in since'[q]
  BY DEF PollsRemember
<1> USE DEF EInv, EntityTypes, PollsRemember
<1>1. CASE ObjectChanges \/ Execute
  BY <1>1 DEF ObjectChanges, Execute, Turns
<1>2. CASE BeginPoll
  BY <1>2 DEF BeginPoll, Asked
<1>3. CASE RemoveEntities
  BY <1>3 DEF RemoveEntities
<1>4. ASSUME NEW p \in Running, ReadObject(p)
      PROVE  /\ polling'[q] # "idle" => object' \in since'[q]
             /\ polling'[q] = "read" => read'[q] \in since'[q]
  BY <1>4 DEF ReadObject
<1>5. ASSUME NEW p \in Running, Fetched(p) \/ FetchRaises(p)
      PROVE  /\ polling'[q] # "idle" => object' \in since'[q]
             /\ polling'[q] = "read" => read'[q] \in since'[q]
  BY <1>5 DEF Fetched, FetchRaises, EndPoll
<1>6. CASE CallReturns
  BY <1>6 DEF CallReturns, Asked
<1>7. ASSUME UNCHANGED <<polling, read, since, object>>
      PROVE  /\ polling'[q] # "idle" => object' \in since'[q]
             /\ polling'[q] = "read" => read'[q] \in since'[q]
  BY <1>7
<1> QED
  BY <1>1, <1>2, <1>3, <1>4, <1>5, <1>6, <1>7
     DEF EntityNext, evars, AddEntities, Press, CallFails, InstallAssumed, Acknowledge

\* An entity goes on showing what was there, or becomes unavailable.
LEMMA ShownFitsStep == EInv /\ [EntityNext]_evars => ShownFits'
<1> SUFFICES ASSUME EInv, [EntityNext]_evars  PROVE ShownFits'
  OBVIOUS
<1> USE DEF EInv, ShownFits
<1>1. ASSUME NEW p \in Running, Fetched(p)  PROVE ShownFits'
  BY <1>1 DEF Fetched, EndPoll, PollsRemember
<1>2. ASSUME NEW p \in Running, FetchRaises(p)  PROVE ShownFits'
  BY <1>2, TolerantIsKeyed DEF FetchRaises, EntityTypes
<1>3. CASE RemoveEntities
  BY <1>3 DEF RemoveEntities
<1>4. ASSUME UNCHANGED <<updated, shown, window, class>>  PROVE ShownFits'
  BY <1>4
<1> QED
  BY <1>1, <1>2, <1>3, <1>4
     DEF EntityNext, evars, ObjectChanges, BeginPoll, ReadObject, AddEntities, Press,
         Execute, CallReturns, CallFails, InstallAssumed, Acknowledge

-----------------------------------------------------------------------------
(* The theorems                                                            *)

\* Every reachable state satisfies the inductive invariant.
THEOREM EntityInductive == EntitySpec => []EInv
<1>1. EInv /\ [EntityNext]_evars => EInv'
  BY TypesStay, PollsRememberStep, ShownFitsStep DEF EInv
<1> QED
  BY EntityInitially, <1>1, PTL DEF EntitySpec

\* An available entity of sensor.py, binary_sensor.py, switch.py, button.py or
\* update.py shows a state that its object had during the last poll to end, although
\* polls overlap and fail, and the fetches of apps and VMs never raise.
THEOREM NothingIsStale == EntitySpec => []NoStaleState
<1>1. EInv => NoStaleState
  BY DEF EInv, ShownFits, NoStaleState, Available
<1> QED
  BY EntityInductive, <1>1, PTL

-----------------------------------------------------------------------------
(* Three answers of a fetch of the storage coordinator.                    *)

LeafMaps == [Disks -> [Categories -> LeafStates \cup {Nothing}]]

\* What the fetch has been told is what the NAS was at that moment.
AnswersFit ==
  /\ stage \in {"idle", "disk.query", "disk.temperatures"}
  /\ stage # "idle" => /\ asked.names \in Namings
                       /\ asked.leaves \in LeafMaps
                       /\ topology = Walked(asked.names, asked.leaves)
  /\ stage = "disk.temperatures" => rows \in Namings

SInv == devname \in Namings /\ leaf \in LeafMaps /\ AnswersFit

\* No two disks that are there have one id.
LEMMA IdsAreUnique ==
  ASSUME NEW names \in Namings, NEW c \in Present(names), NEW d \in Present(names),
         StableId(c, names) = StableId(d, names)
  PROVE  c = d
<1>1. /\ c \in Disks /\ d \in Disks
      /\ names[c] \in DevNames /\ names[d] \in DevNames
      /\ names[c] = names[d] => c = d
  BY DEF Namings, Present
<1> QED
  BY <1>1, DisksAssumption DEF StableId

\* A device name leads back to the disk that has it.
LEMMA NamesLeadBack ==
  ASSUME NEW names \in Namings, NEW d \in Present(names)
  PROVE  (CHOOSE x \in Disks : names[x] = names[d]) = d
<1>1. d \in Disks /\ \A x \in Disks : names[x] = names[d] => x = d
  BY DEF Namings, Present
<1> QED
  BY <1>1

\* The row of a disk is found under its id.
LEMMA IdsLeadBack ==
  ASSUME NEW names \in Namings, NEW d \in Present(names)
  PROVE  (CHOOSE x \in Present(names) : StableId(x, names) = StableId(d, names)) = d
BY IdsAreUnique

\* What the walk of the topology says of a disk is its last leaf.
LEMMA WalkFindsTheDisk ==
  ASSUME NEW names \in Namings, NEW leaves, NEW d \in Present(names)
  PROVE  /\ names[d] \in DOMAIN Walked(names, leaves)
         /\ Walked(names, leaves)[names[d]] = LastLeaf(leaves[d])
BY NamesLeadBack DEF Walked

\* The last leaf is one of the leaves, if there are any.
LEMMA LastLeafIsOne ==
  ASSUME NEW leaves \in [Categories -> LeafStates \cup {Nothing}]
  PROVE  /\ LastLeaf(leaves) = Nothing \/ LastLeaf(leaves) \in LeafStates
         /\ LastLeaf(leaves) \in {leaves[c] : c \in Categories}
         /\ LastLeaf(leaves) = Nothing => {leaves[c] : c \in Categories} \ {Nothing} = {}
<1>1. \A c \in Categories : leaves[c] = Nothing \/ leaves[c] \in LeafStates
  OBVIOUS
<1> QED
  BY <1>1 DEF LastLeaf, Categories

-----------------------------------------------------------------------------
\* Nothing is asked or shown at first.
LEMMA StorageInitially == StorageInit => SInv
BY DEF StorageInit, SInv, LeafMaps, AnswersFit

\* Every step keeps the invariant.
LEMMA StorageStep == SInv /\ [StorageNext]_svars => SInv'
<1> SUFFICES ASSUME SInv, [StorageNext]_svars  PROVE SInv'
  OBVIOUS
<1> USE DEF SInv
<1>1. ASSUME NEW d \in Disks, NameChanges(d)  PROVE SInv'
  BY <1>1 DEF NameChanges, AnswersFit
<1>2. ASSUME NEW d \in Disks, LeafChanges(d)  PROVE SInv'
  <2>1. PICK c \in Categories, s \in LeafStates \cup {Nothing} :
          leaf' = [leaf EXCEPT ![d][c] = s]
    BY <1>2 DEF LeafChanges
  <2>2. leaf' \in LeafMaps
    BY <2>1 DEF LeafMaps
  <2> QED
    BY <1>2, <2>2 DEF LeafChanges, AnswersFit
<1>3. CASE CallPools
  BY <1>3 DEF CallPools, AnswersFit
<1>4. CASE CallDisks
  BY <1>4 DEF CallDisks, AnswersFit
<1>5. CASE CallTemperatures
  BY <1>5 DEF CallTemperatures, FetchReturns, AnswersFit
<1>6. CASE FetchFails
  BY <1>6 DEF FetchFails, FetchReturns, AnswersFit
<1>7. CASE UNCHANGED svars
  BY <1>7 DEF svars, AnswersFit
<1> QED
  BY <1>1, <1>2, <1>3, <1>4, <1>5, <1>6, <1>7 DEF StorageNext

\* The fetch gives each disk that disk.query lists a row of its own.
LEMMA RowsAreApart ==
  ASSUME SInv, CallTemperatures, NEW d \in Present(rows), NEW i, i = StableId(d, rows)
  PROVE  \E any \in BOOLEAN :
           /\ i \in DOMAIN disks'
           /\ disks'[i] = [disk |-> d, name |-> rows[d], status |-> Status(rows[d]),
                           temperature |-> Measured(rows[d], any)]
<1>1. PICK any \in BOOLEAN :
        disks' = [j \in {StableId(x, rows) : x \in Present(rows)} |->
                   LET e == CHOOSE x \in Present(rows) : StableId(x, rows) = j
                   IN  [disk |-> e, name |-> rows[e], status |-> Status(rows[e]),
                        temperature |-> Measured(rows[e], any)]]
  BY DEF CallTemperatures
<1>2. (CHOOSE x \in Present(rows) : StableId(x, rows) = i) = d
  BY IdsLeadBack DEF CallTemperatures, SInv, AnswersFit
<1> QED
  BY <1>1, <1>2

\* What a disk gets that keeps its name from one call to the next is its own.
LEMMA FetchIsFaithful ==
  ASSUME SInv, CallTemperatures, NEW d \in Present(rows), NEW i, i = StableId(d, rows)
  PROVE  /\ DiskAvailable(i, fetched', disks')
         /\ disks'[i].disk = d
         /\ devname[d] = rows[d] => disks'[i].temperature \in {d, Nothing}
         /\ asked.names[d] = rows[d] =>
              /\ DiskProblem(disks'[i]) => \E s \in Leaves(d) : s # "ONLINE"
              /\ Leaves(d) # {} /\ "ONLINE" \notin Leaves(d) => DiskProblem(disks'[i])
<1>1. PICK any \in BOOLEAN :
        /\ i \in DOMAIN disks'
        /\ disks'[i] = [disk |-> d, name |-> rows[d], status |-> Status(rows[d]),
                        temperature |-> Measured(rows[d], any)]
  BY RowsAreApart
<1>2. /\ devname \in Namings /\ asked.names \in Namings /\ asked.leaves \in LeafMaps
      /\ topology = Walked(asked.names, asked.leaves)
      /\ d \in Disks /\ rows[d] # Nothing
  BY DEF CallTemperatures, SInv, AnswersFit, Present
<1>3. DiskAvailable(i, fetched', disks') /\ disks'[i].disk = d
  BY <1>1 DEF DiskAvailable, CallTemperatures
<1>4. ASSUME devname[d] = rows[d]  PROVE disks'[i].temperature \in {d, Nothing}
  <2>1. d \in Present(devname)
    BY <1>2, <1>4 DEF Present
  <2>2. Measured(rows[d], any) \in {d, Nothing}
    BY <1>2, <1>4, <2>1, NamesLeadBack DEF Measured
  <2> QED
    BY <1>1, <2>2
<1>5. ASSUME asked.names[d] = rows[d]
      PROVE  /\ DiskProblem(disks'[i]) => \E s \in Leaves(d) : s # "ONLINE"
             /\ Leaves(d) # {} /\ "ONLINE" \notin Leaves(d) => DiskProblem(disks'[i])
  <2>1. d \in Present(asked.names)
    BY <1>2, <1>5 DEF Present
  <2>2. disks'[i].status = LastLeaf(asked.leaves[d])
    BY <1>1, <1>2, <1>5, <2>1, WalkFindsTheDisk DEF Status
  <2>3. asked.leaves[d] \in [Categories -> LeafStates \cup {Nothing}]
    BY <1>2 DEF LeafMaps
  <2> QED
    BY <2>2, <2>3, LastLeafIsOne, DisksAssumption DEF DiskProblem, Leaves, LeafStates
<1> QED
  BY <1>3, <1>4, <1>5

\* Of the three answers that _fetch of the storage coordinator joins by device names
\* (coordinator.py), a disk that keeps its own name from one call to the next gets what
\* belongs to it, for any disks and names, and whatever other disks come, go, or take
\* each other's names meanwhile.
THEOREM SnapshotsAreFaithful == StorageSpec => SnapshotIsFaithful
<1> DEFINE Faithful ==
      FetchEnds =>
        \A d \in Present(rows) :
          LET i == StableId(d, rows)
          IN  /\ DiskAvailable(i, fetched', disks')
              /\ disks'[i].disk = d
              /\ devname[d] = rows[d] => disks'[i].temperature \in {d, Nothing}
              /\ asked.names[d] = rows[d] =>
                   /\ DiskProblem(disks'[i]) => \E s \in Leaves(d) : s # "ONLINE"
                   /\ Leaves(d) # {} /\ "ONLINE" \notin Leaves(d) => DiskProblem(disks'[i])
<1>1. StorageSpec => []SInv
  BY StorageInitially, StorageStep, PTL DEF StorageSpec
<1>2. ASSUME SInv, StorageNext  PROVE Faithful
  <2>1. ASSUME FetchEnds  PROVE CallTemperatures
    BY <1>2, <2>1 DEF FetchEnds, StorageNext, NameChanges, LeafChanges, CallPools,
                      CallDisks, FetchFails, FetchReturns
  <2> QED
    BY <1>2, <2>1, FetchIsFaithful
<1>3. SInv /\ [StorageNext]_svars => [Faithful]_svars
  BY <1>2
<1> QED
  BY <1>1, <1>3, PTL DEF StorageSpec, SnapshotIsFaithful

=============================================================================
