------------------------------- MODULE Values -------------------------------
(***************************************************************************)
(* What the entities of the integration show, computed from the answers of *)
(* the NAS: the conversions of client.py, the values that coordinator.py   *)
(* derives and the value functions of sensor.py, binary_sensor.py and      *)
(* update.py. One answer of any kind is read. The server may leave out the *)
(* parts that hold a value or send null, a number, an infinite one, digits *)
(* in a string or anything else for them, and null or something else where *)
(* a table or a list should be.                                            *)
(*                                                                         *)
(* Percentages are in tenths, rounded to the nearest; ties go up.          *)
(***************************************************************************)
EXTENDS Integers, Sequences, FiniteSets, SequencesExt, Ejson

CONSTANTS
  None,      \* None: null, or not there
  Other,     \* something of another type than the code expects
  Error,     \* an exception of the code that computes a value
  Numbers,   \* the numbers the server may send
  Versions,  \* version strings
  Datasets,  \* ids of datasets
  Millis,    \* times in milliseconds
  MaxAlerts, \* alerts in one answer
  MaxCores   \* cores whose temperatures are in one answer

ASSUME NumbersAssumption ==
  /\ Numbers \subseteq Nat /\ 0 \in Numbers /\ Millis \subseteq Int
  /\ MaxAlerts \in Nat /\ MaxCores \in Nat

VMStates == {"RUNNING", "STOPPED"}

\* None and an exception are no values, and no NAS has infinitely many datasets.
ASSUME NoValueAssumption ==
  /\ None \notin Int /\ None \notin Versions /\ None \notin VMStates
  /\ Error \notin Int /\ Error \notin Versions /\ Error \notin VMStates
  /\ Error \notin BOOLEAN /\ Other \notin Int
  /\ None # Error /\ None # Other /\ Error # Other
  /\ IsFiniteSet(Datasets)

VARIABLE answer  \* what the server answered, and the kind of answer it is

-----------------------------------------------------------------------------
(* Raw values.                                                             *)

Plain ==
  {[type |-> "number", of |-> n] : n \in Numbers} \cup
  {[type |-> "digits", of |-> n] : n \in Numbers} \cup
  {[type |-> "infinite", of |-> 0], [type |-> "other", of |-> 0], None}

\* Nor is an exception something the server sends.
ASSUME NoErrorAssumption == Error \notin Plain

\* A {parsed, value} composite.
Composite == {[type |-> "composite", of |-> v] : v \in Plain}

\* parsed()
Parsed(v) == IF v # None /\ v.type = "composite" THEN v.of ELSE v

\* (node or {}).get(field)
Get(node, field) ==
  IF node = None THEN None ELSE IF node = Other THEN Error ELSE node[field]

\* int(), with what it makes of an infinite number and of anything else.
AsInt(v, infinite, other) ==
  IF v.type \in {"number", "digits"} THEN v.of
  ELSE IF v.type = "infinite" THEN infinite ELSE other

\* to_int(): TypeError and ValueError give None, OverflowError goes through.
ToInt(v) == IF v \in {None, Error} THEN v ELSE AsInt(v, Error, None)

\* round(100 * a / b, 1)
Percent(a, b) == IF b = 0 THEN Error ELSE (2000 * a + b) \div (2 * b)

\* Mutant of PoolUsedPct: the pool of size 0 is not thought of.
PoolUsedPctUnguarded(pool) ==
  LET used == ToInt(pool.allocated)
      size == ToInt(pool.size)
  IN  IF Error \in {used, size} THEN Error
      ELSE IF None \in {used, size} THEN None ELSE Percent(used, size)

\* _pool_used_pct
PoolUsedPct(pool) ==
  LET used == ToInt(pool.allocated)
      size == ToInt(pool.size)
  IN  IF Error \in {used, size} THEN Error
      ELSE IF used = None \/ size \in {None, 0} THEN None ELSE Percent(used, size)

\* _dataset_used_pct
DatasetUsedPct(ds) ==
  LET used == ToInt(Parsed(ds.used))
      available == ToInt(Parsed(ds.available))
  IN  IF Error \in {used, available} THEN Error
      ELSE IF None \in {used, available} \/ used + available <= 0
      THEN None ELSE Percent(used, used + available)

\* epoch_ms_to_datetime() of what ejson made of a {"$date": ms} node.
Shown(ms) == IF ms \in {None, Error} THEN ms ELSE DecodeDate(ms)

-----------------------------------------------------------------------------
(* The value functions of sensor.py. Values that are shown as they came,   *)
(* versions, names and states, are left out.                               *)

\* _loadavg, of a list or of something else.
LoadAvg(load, index) ==
  IF load \in {None, Other} THEN None
  ELSE IF Len(load) <= index THEN None ELSE load[index + 1]

\* SYSTEM_SENSORS
SystemValues(info) ==
  [cores |-> ToInt(info.cores), memory_total |-> ToInt(info.physmem),
   uptime |-> Shown(info.boottime), load_1m |-> LoadAvg(info.loadavg, 0),
   load_5m |-> LoadAvg(info.loadavg, 1), load_15m |-> LoadAvg(info.loadavg, 2)]

\* POOL_SENSORS; a pool that was never scrubbed has no scan.
PoolValues(pool) ==
  [used |-> ToInt(pool.allocated), total |-> ToInt(pool.size),
   used_pct |-> PoolUsedPct(pool),
   scrub_finished |-> Shown(Get(pool.scan, "end_time")),
   scrub_errors |-> ToInt(Get(pool.scan, "errors"))]

\* DATASET_SENSORS
DatasetValues(ds) ==
  [used |-> ToInt(Parsed(ds.used)), available |-> ToInt(Parsed(ds.available)),
   used_pct |-> DatasetUsedPct(ds), snapshots |-> ToInt(ds.snapshot_count)]

\* VM_SENSORS; the status may be null.
VMValues(vm) ==
  [state |-> Get(vm.status, "state"),
   memory |-> ToInt(vm.memory), vcpus |-> ToInt(vm.vcpus)]

\* TrueNASVMSwitch.is_on
VMIsOn(vm) ==
  IF Get(vm.status, "state") = Error THEN Error ELSE Get(vm.status, "state") = "RUNNING"

-----------------------------------------------------------------------------
(* ReportingCoordinator._fetch                                             *)

Column(graph, name) == CHOOSE i \in DOMAIN graph.legend : graph.legend[i] = name

\* _latest: the last row of a graph, in the column of that name; no data or no such
\* column is None. A legend that is null and a row without that column raise.
Latest(graph, name) ==
  IF graph.data = <<>> THEN None
  ELSE IF graph.legend = None THEN Error
  ELSE IF name \notin ToSet(graph.legend) THEN None
  ELSE IF Column(graph, name) > Len(Last(graph.data)) THEN Error
  ELSE Last(graph.data)[Column(graph, name)]

Known(row) == {i \in DOMAIN row : row[i] # None}

\* cpu_temp: the average, in tenths, of the last row without its time and its nulls;
\* what is no number cannot be added.
CpuTemp(graph) ==
  LET row == Tail(Last(graph.data))
  IN  IF graph.data = <<>> THEN None
      ELSE IF Other \in ToSet(row) THEN Error
      ELSE IF Known(row) = {} THEN None
      ELSE (10 * SumFunctionOnSet(row, Known(row))) \div Cardinality(Known(row))

\* memory_free, memory_used and memory_used_percent; a free memory that int() cannot
\* read raises.
Memory(graph, physmem) ==
  LET latest == Latest(graph, "available")
      free == IF latest \in {None, Error} THEN latest ELSE AsInt(latest, Error, Error)
      used == IF free \in {None, Error} THEN free ELSE physmem - free
  IN  [free |-> free, used |-> used,
       percent |-> IF free \in {None, Error} THEN free
                   ELSE IF physmem = 0 THEN None ELSE Percent(used, physmem)]

-----------------------------------------------------------------------------
(* UpdateCoordinator, the app update entity, DatasetCoordinator, alerts.   *)

\* _extract_new_version: a string, a dict with a version or a name, or something else.
NewVersion(new) ==
  IF new = None THEN None
  ELSE CASE new.type = "string" -> new.version
         [] new.type = "dict" -> IF new.version # None THEN new.version ELSE new.name
         [] OTHER -> None

\* UpdateCoordinator._fetch
LatestVersion(status, installed) ==
  LET new == NewVersion(Get(status, "new_version"))
  IN  IF status = Other THEN Error ELSE IF new # None THEN new ELSE installed

\* TrueNASAppUpdateEntity.latest_version
LatestAppVersion(app) ==
  IF app.upgrade_available /\ app.latest # None THEN app.latest ELSE app.installed

\* The walk over the tree: the roots, then the children of what is visited. A tree is a
\* parent for each dataset, itself for a root.
Visited(parent) ==
  LET visit[depth \in 0 .. Cardinality(Datasets)] ==
        IF depth = 0 THEN {d \in Datasets : parent[d] = d}
        ELSE visit[depth - 1] \cup {d \in Datasets : parent[d] \in visit[depth - 1]}
  IN  visit[Cardinality(Datasets)]

\* DatasetCoordinator._fetch
Flattened(parent) == IF parent = None THEN Error ELSE Visited(parent)

Levels == {"CRITICAL", "WARNING", "UNKNOWN"}

Active(alerts) == {i \in DOMAIN alerts : ~alerts[i].dismissed}

\* TrueNASAlertsSensor: its value, and by_level; an alert without a level is UNKNOWN.
AlertsActive(alerts) == IF alerts = None THEN Error ELSE Cardinality(Active(alerts))
ByLevel(alerts) ==
  IF alerts = None THEN Error
  ELSE [l \in {alerts[i].level : i \in Active(alerts)} |->
          Cardinality({i \in Active(alerts) : alerts[i].level = l})]

\* TrueNASCriticalAlertBinarySensor.is_on
CriticalAlert(alerts) ==
  IF alerts = None THEN Error ELSE \E i \in Active(alerts) : alerts[i].level = "CRITICAL"

-----------------------------------------------------------------------------
(* The answers.                                                            *)

\* The row has the two columns, or only the time.
Graphs ==
  [legend : {<<"time", "available">>, <<"time">>, <<>>, None},
   data : {<<>>, <<<<0>>>>} \cup {<<<<0, v>>>> : v \in Plain}]

SystemAnswers ==
  [kind : {"system"}, cores : Plain, physmem : Plain, boottime : Millis \cup {None},
   loadavg : {None, Other} \cup SeqOf({0}, 3)]

PoolAnswers ==
  [kind : {"pool"}, allocated : Plain, size : Plain,
   scan : {None, Other} \cup [end_time : Millis \cup {None}, errors : Plain]]

DatasetAnswers ==
  [kind : {"dataset"}, used : Plain \cup Composite, available : Plain \cup Composite,
   snapshot_count : Plain]

VMAnswers ==
  [kind : {"vm"}, status : {None, Other} \cup [state : VMStates],
   memory : Plain, vcpus : Plain]

MemoryAnswers == [kind : {"memory"}, graph : Graphs, physmem : Numbers]

CpuTempAnswers ==
  [kind : {"cputemp"},
   data : {<<>>} \cup {<<<<0, 0>>, <<0>> \o row>> :
                         row \in SeqOf(Numbers \cup {None, Other}, MaxCores)}]

NewVersions ==
  {None} \cup [type : {"other", "string"}, version : Versions] \cup
  [type : {"dict"}, version : Versions \cup {None}, name : Versions \cup {None}]

UpdateAnswers ==
  [kind : {"update"}, installed : Versions,
   status : {None, Other} \cup [new_version : NewVersions]]

AppAnswers ==
  [kind : {"app"}, installed : Versions, latest : Versions \cup {None},
   upgrade_available : BOOLEAN]

\* Every dataset has a root above it.
Rooted(parent) ==
  \A S \in SUBSET Datasets : S # {} => \E d \in S : parent[d] = d \/ parent[d] \notin S

Trees == {parent \in [Datasets -> Datasets] : Rooted(parent)}

\* None: null, or a list with something else in it.
TreeAnswers == [kind : {"datasets"}, parent : {None} \cup Trees]

AlertAnswers ==
  [kind : {"alerts"},
   alerts : {None} \cup SeqOf([level : Levels, dismissed : BOOLEAN], MaxAlerts)]

TimeAnswers == [kind : {"time"}, ms : Millis]

Answers ==
  SystemAnswers \cup PoolAnswers \cup DatasetAnswers \cup VMAnswers \cup
  MemoryAnswers \cup CpuTempAnswers \cup UpdateAnswers \cup AppAnswers \cup
  TreeAnswers \cup AlertAnswers \cup TimeAnswers

ValuesInit == answer = [kind |-> "none"]

Receive(a) ==
  /\ answer.kind = "none"
  /\ answer' = a

ValuesNext == \E a \in Answers : Receive(a)

ValuesSpec == ValuesInit /\ [][ValuesNext]_answer

-----------------------------------------------------------------------------
(* Properties                                                              *)

IsPercent(p) == p \in 0 .. 1000

Infinite(v) == v # None /\ v.type = "infinite"

TimesOfDay == 0 .. 24 * 60 * 60 * 1000 - 1

Raises(shown) == Error \in {shown[v] : v \in DOMAIN shown}

\* There are as many loads as the list has, up to three, the shortest average first.
SystemIsSound(info) ==
  LET shown == SystemValues(info)
      loads == IF info.loadavg \in {None, Other} THEN 0 ELSE Len(info.loadavg)
  IN  /\ Raises(shown) <=> Infinite(info.cores) \/ Infinite(info.physmem)
      /\ shown.load_1m # None <=> loads > 0
      /\ shown.load_5m # None <=> loads > 1
      /\ shown.load_15m # None <=> loads > 2

\* The percentage is there if what it is made of is shown, and a pool is not empty; up
\* to rounding it tells whether the pool is said to use more than it has.
PoolIsSound(pool) ==
  LET shown == PoolValues(pool)
  IN  /\ Raises(shown) <=> \/ Infinite(pool.allocated) \/ Infinite(pool.size)
                           \/ pool.scan = Other
                           \/ pool.scan \notin {None, Other} /\ Infinite(pool.scan.errors)
      /\ Error \notin {shown.used, shown.total} =>
           /\ shown.used_pct = None <=> shown.used = None \/ shown.total \in {None, 0}
           /\ shown.used_pct # None =>
                /\ shown.used <= shown.total => IsPercent(shown.used_pct)
                /\ 1000 * shown.used >= 1001 * shown.total => ~IsPercent(shown.used_pct)

DatasetIsSound(ds) ==
  LET shown == DatasetValues(ds)
  IN  /\ Raises(shown) <=> \/ Infinite(Parsed(ds.used)) \/ Infinite(Parsed(ds.available))
                           \/ Infinite(ds.snapshot_count)
      /\ Error \notin {shown.used, shown.available} =>
           /\ shown.used_pct # None => IsPercent(shown.used_pct)
           /\ shown.used_pct = None =>
                None \in {shown.used, shown.available} \/ {shown.used, shown.available} = {0}

\* The switch of a VM and its state sensor agree.
VMIsSound(vm) ==
  LET shown == VMValues(vm)
  IN  /\ Raises(shown) <=> vm.status = Other \/ Infinite(vm.memory) \/ Infinite(vm.vcpus)
      /\ VMIsOn(vm) = Error <=> shown.state = Error
      /\ shown.state # Error => (VMIsOn(vm) <=> shown.state = "RUNNING")

\* Used and free are one split of the memory, and say so together.
MemoryIsSound(graph, physmem) ==
  LET m == Memory(graph, physmem)
      row == Last(graph.data)
  IN  /\ Raises(m) <=>
           /\ graph.data # <<>>
           /\ \/ graph.legend = None
              \/ /\ "available" \in ToSet(graph.legend)
                 /\ \/ Len(row) < 2
                    \/ row[2] # None /\ row[2].type \in {"infinite", "other"}
      /\ m.free = None <=> m.used = None
      /\ ~Raises(m) /\ m.free # None =>
           /\ m.used + m.free = physmem
           /\ m.percent = None <=> physmem = 0
           /\ m.free <= physmem /\ physmem # 0 => IsPercent(m.percent)

CpuTempIsSound(graph) ==
  LET t == CpuTemp(graph)
      row == Tail(Last(graph.data))
  IN  /\ t = Error <=> graph.data # <<>> /\ Other \in ToSet(row)
      /\ t \notin {None, Error} =>
           \E lo, hi \in ToSet(row) \ {None} : 10 * lo <= t /\ t <= 10 * hi

\* What is no table raises; an update is offered only if the server names a version.
UpdateIsSound(update) ==
  LET latest == LatestVersion(update.status, update.installed)
  IN  /\ latest = Error <=> update.status = Other
      /\ latest \notin {update.installed, Error} => latest \in Versions

\* The count, the levels and the critical sensor tell one story.
AlertsAreSound(alerts) ==
  IF alerts = None
  THEN Error = AlertsActive(alerts) /\ Error = ByLevel(alerts) /\ Error = CriticalAlert(alerts)
  ELSE /\ AlertsActive(alerts) =
            Cardinality({counted \in Levels \X (1 .. Len(alerts)) :
                           /\ counted[1] \in DOMAIN ByLevel(alerts)
                           /\ counted[2] <= ByLevel(alerts)[counted[1]]})
       /\ CriticalAlert(alerts) <=> "CRITICAL" \in DOMAIN ByLevel(alerts)

\* A value raises for an infinite number, for something else where a table or list
\* should be, and for a graph without a legend, with a row that is too short or with
\* something else than numbers, and for no other answer, whatever the server leaves
\* out. A percentage is missing only when a number of it is, and else in its range when
\* the numbers fit; what is shown in several entities agrees; every dataset of the tree
\* is there; and an update is offered only if the server names a version.
ValuesAreSound ==
  CASE answer.kind = "system" -> SystemIsSound(answer)
    [] answer.kind = "pool" -> PoolIsSound(answer)
    [] answer.kind = "vm" -> VMIsSound(answer)
    [] answer.kind = "dataset" -> DatasetIsSound(answer)
    [] answer.kind = "memory" -> MemoryIsSound(answer.graph, answer.physmem)
    [] answer.kind = "cputemp" -> CpuTempIsSound(answer)
    [] answer.kind = "update" -> UpdateIsSound(answer)
    [] answer.kind = "app" ->
         LatestAppVersion(answer) # answer.installed =>
           answer.upgrade_available /\ answer.latest \in Versions
    [] answer.kind = "datasets" ->
         Flattened(answer.parent) = IF answer.parent = None THEN Error ELSE Datasets
    [] answer.kind = "alerts" -> AlertsAreSound(answer.alerts)
    [] OTHER -> TRUE

\* Whole seconds are exact in both directions, before the epoch as well; what the client
\* sends of any time is decoded to what was sent; and a time of day is decoded exactly
\* or, with a fraction of a second, refused, never wrong.
WholeSecondsAreExact ==
  answer.kind = "time" =>
    LET t == answer.ms
    IN  /\ t % 1000 = 0 => Shown(t) = t /\ EncodeDate(t) = t
        /\ DecodeDate(EncodeDate(t)) = EncodeDate(t)
        /\ t \in TimesOfDay => DecodeTime(EncodeTime(t), Error) = IF t % 1000 = 0 THEN t ELSE Error

=============================================================================
