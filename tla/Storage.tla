------------------------------ MODULE Storage ------------------------------
(***************************************************************************)
(* The storage coordinator: one fetch is three calls, pool.query,          *)
(* disk.query and disk.temperatures, and the NAS goes on changing between  *)
(* them. The three answers are joined by device name, which the NAS gives  *)
(* anew to its disks; the result is keyed by an id that stays with a disk. *)
(*                                                                         *)
(* A temperature is modelled by the disk it was measured on, and a leaf of *)
(* a pool's topology by what the disk sensors tell apart: ONLINE with no   *)
(* errors, ONLINE with errors counted, or any other status.                *)
(***************************************************************************)
EXTENDS Naturals

CONSTANTS
  Disks,      \* physical disks
  Serialled,  \* those that report a serial number or an identifier
  DevNames,   \* device names
  Spares,     \* those that a pool may have as a spare
  Nothing,    \* None: no device name, no leaf, no temperature
  MaxChanges  \* bound on the changes of the NAS

LeafStates == {"ONLINE", "ERRORS", "FAULTED"}

\* A disk stands for its serial number, too, and no such number is a device name.
ASSUME DisksAssumption ==
  /\ Serialled \subseteq Disks
  /\ Spares \subseteq Disks
  /\ MaxChanges \in Nat
  /\ Nothing \notin Disks \cup DevNames \cup LeafStates
  /\ Disks \cap DevNames = {}

VARIABLES
  devname,    \* the device name of each disk, Nothing for one that is not there
  leaf,       \* the leaves of each disk in the topology of the pools
  stage,      \* the call the fetch waits for
  topology,   \* what pool.query said of each device name
  rows,       \* what disk.query said of each disk
  disks,      \* coordinator.data.disks
  fetched,    \* last_update_success
  asked,      \* the NAS as it was at pool.query
  changes     \* of the NAS so far

svars == <<devname, leaf, stage, topology, rows, disks, fetched, asked, changes>>

\* In the order in which the walk visits them; an active spare has a leaf in both.
\* The other four categories are visited alike.
Categories == {"data", "spare"}

Present(names) == {d \in Disks : names[d] # Nothing}

\* No two disks have the same device name.
Namings ==
  {names \in [Disks -> DevNames \cup {Nothing}] :
     \A c, d \in Present(names) : names[c] = names[d] => c = d}

NoTopology == [n \in {} |-> Nothing]
NoRows == [d \in Disks |-> Nothing]
NotAsked == [names |-> NoRows, leaves |-> [d \in {} |-> Nothing]]

StorageInit ==
  /\ devname \in Namings
  /\ leaf \in [Disks -> [Categories -> LeafStates \cup {Nothing}]]
  /\ \A d \in Disks \ Spares : leaf[d]["spare"] = Nothing
  /\ stage = "idle"
  /\ disks = [i \in {} |-> Nothing]
  /\ fetched = FALSE
  /\ changes = 0
  /\ topology = NoTopology
  /\ rows = NoRows
  /\ asked = NotAsked

-----------------------------------------------------------------------------
(* The NAS.                                                                *)

\* A disk is plugged in, pulled, or found under another name after a rescan.
NameChanges(d) ==
  /\ changes < MaxChanges
  /\ changes' = changes + 1
  /\ \E n \in DevNames \cup {Nothing} :
       /\ n # devname[d]
       /\ devname' = [devname EXCEPT ![d] = n]
       /\ devname' \in Namings
  /\ UNCHANGED <<leaf, stage, topology, rows, disks, fetched, asked>>

\* A disk joins or leaves a pool, fails, recovers, or counts an error.
LeafChanges(d) ==
  /\ changes < MaxChanges
  /\ changes' = changes + 1
  /\ \E c \in Categories, s \in LeafStates \cup {Nothing} :
       /\ c = "spare" => d \in Spares
       /\ leaf[d][c] # s
       /\ leaf' = [leaf EXCEPT ![d][c] = s]
  /\ UNCHANGED <<devname, stage, topology, rows, disks, fetched, asked>>

-----------------------------------------------------------------------------
(* The fetch.                                                              *)

\* Mutant of LastLeaf: the walk never gets to the spares.
LastLeafOfData(leaves) == leaves["data"]

\* _walk_topology_errors: the leaf visited last has the say on its device.
LastLeaf(leaves) ==
  IF leaves["spare"] # Nothing THEN leaves["spare"] ELSE leaves["data"]

\* Leaves of a disk without a device name are skipped.
Walked(names, leaves) ==
  [n \in {names[d] : d \in Present(names)} |->
     LastLeaf(leaves[CHOOSE d \in Disks : names[d] = n])]

\* serial, else identifier, else name.
StableId(d, names) == IF d \in Serialled THEN d ELSE names[d]

\* The answers are local to one run of _fetch.
FetchReturns ==
  /\ stage' = "idle"
  /\ topology' = NoTopology
  /\ rows' = NoRows
  /\ asked' = NotAsked

CallPools ==
  /\ stage = "idle"
  /\ stage' = "disk.query"
  /\ topology' = Walked(devname, leaf)
  /\ asked' = [names |-> devname, leaves |-> leaf]
  /\ UNCHANGED <<devname, leaf, rows, disks, fetched, changes>>

CallDisks ==
  /\ stage = "disk.query"
  /\ stage' = "disk.temperatures"
  /\ rows' = devname
  /\ UNCHANGED <<devname, leaf, topology, disks, fetched, asked, changes>>

\* A device the topology does not name has no status and no errors.
Status(n) == IF n \in DOMAIN topology THEN topology[n] ELSE Nothing

\* The disk whose temperature is filed under a device name, if the answer has any.
Measured(n, any) ==
  IF any /\ \E d \in Disks : devname[d] = n
    THEN CHOOSE d \in Disks : devname[d] = n ELSE Nothing

\* The last call, and the join of the three answers.
CallTemperatures ==
  /\ stage = "disk.temperatures"
  /\ FetchReturns
  /\ fetched' = TRUE
  /\ \E any \in BOOLEAN :
       disks' = [i \in {StableId(d, rows) : d \in Present(rows)} |->
                   LET d == CHOOSE x \in Present(rows) : StableId(x, rows) = i
                   IN  [disk |-> d, name |-> rows[d], status |-> Status(rows[d]),
                        temperature |-> Measured(rows[d], any)]]
  /\ UNCHANGED <<devname, leaf, changes>>

\* Any of the calls raises: the data of the last good fetch stay.
FetchFails ==
  /\ FetchReturns
  /\ fetched' = FALSE
  /\ UNCHANGED <<devname, leaf, disks, changes>>

StorageNext ==
  \/ \E d \in Disks : NameChanges(d) \/ LeafChanges(d)
  \/ CallPools \/ CallDisks \/ CallTemperatures \/ FetchFails

StorageSpec == StorageInit /\ [][StorageNext]_svars

-----------------------------------------------------------------------------
(* The disk entities.                                                      *)

\* TrueNASDiskSensor and TrueNASDiskProblemBinarySensor.
DiskAvailable(i, success, data) == success /\ i \in DOMAIN data

\* TrueNASDiskProblemBinarySensor.is_on
DiskProblem(disk) == disk.status \in {"ERRORS", "FAULTED"}

Leaves(d) == {asked.leaves[d][c] : c \in Categories} \ {Nothing}

FetchEnds == stage = "disk.temperatures" /\ stage' = "idle" /\ fetched'

\* The three answers are joined by names that other disks may bear from one call to
\* the next. Whatever the others do, a disk that has the same name in the first two
\* calls is shown as a problem only if it has a bad leaf, and is if all it has are
\* bad; one that has the same name in the last two is shown with its own temperature
\* or none; and every disk that disk.query lists is available under its own id.
SnapshotIsFaithful ==
  [][FetchEnds =>
       \A d \in Present(rows) :
         LET i == StableId(d, rows)
         IN  /\ DiskAvailable(i, fetched', disks')
             /\ disks'[i].disk = d
             /\ devname[d] = rows[d] => disks'[i].temperature \in {d, Nothing}
             /\ asked.names[d] = rows[d] =>
                  /\ DiskProblem(disks'[i]) => \E s \in Leaves(d) : s # "ONLINE"
                  /\ Leaves(d) # {} /\ "ONLINE" \notin Leaves(d) => DiskProblem(disks'[i])]_svars
=============================================================================
