---------------------------- MODULE ValuesProofs ----------------------------
(***************************************************************************)
(* Proofs about Values, for any numbers, times, versions, datasets, alerts *)
(* and cores that the server may send: no value of an entity misleads, and *)
(* which answers make one raise.  One lemma per kind of answer.  The       *)
(* induction theorems of the library cannot be used, for they take an      *)
(* operator; LeastNumber replaces them.                                    *)
(***************************************************************************)
EXTENDS Values, FiniteSetTheorems, WellFoundedInduction, TLAPS

(* Numbers and records.                                                    *)

\* A field that to_int() reads is a natural number or None, unless it is infinite.
LEMMA ToIntIsANumber ==
  ASSUME NEW v \in Plain
  PROVE  IF Infinite(v) THEN ToInt(v) = Error ELSE ToInt(v) \in Nat \cup {None}
BY NumbersAssumption, NoErrorAssumption DEF Plain, ToInt, AsInt, Infinite

\* Nothing else makes to_int() raise.
LEMMA ToIntRaises ==
  ASSUME NEW v \in Plain
  PROVE  /\ ToInt(v) \in Nat \cup {None, Error}
         /\ ToInt(v) = Error <=> Infinite(v)
BY ToIntIsANumber, NoValueAssumption

\* What parsed() takes out of a composite is no composite.
LEMMA ParsedIsPlain ==
  ASSUME NEW v \in Plain \cup Composite  PROVE Parsed(v) \in Plain
<1>1. None \in Plain /\ \A w \in Plain : w # None => w.type # "composite"
  BY DEF Plain
<1>2. CASE v \in Plain
  BY <1>1, <1>2 DEF Parsed
<1>3. CASE v \in Composite
  <2>1. PICK w \in Plain : v = [type |-> "composite", of |-> w]
    BY <1>3 DEF Composite
  <2> QED
    BY <1>1, <2>1 DEF Parsed
<1> QED
  BY <1>2, <1>3

\* A percentage is a number,
LEMMA PercentIsANumber ==
  ASSUME NEW a \in Int, NEW b \in Nat \ {0}  PROVE Percent(a, b) \in Int
BY DEF Percent

\* and is rounded to the nearest tenth.
LEMMA PercentIsRounded ==
  ASSUME NEW a \in Int, NEW b \in Nat \ {0}
  PROVE  /\ 2 * b * Percent(a, b) <= 2000 * a + b
         /\ 2000 * a + b < 2 * b * Percent(a, b) + 2 * b
BY DEF Percent

\* So it is in its range if the part is no more than the whole,
LEMMA PartIsAPercentage ==
  ASSUME NEW a \in Nat, NEW b \in Nat \ {0}, a <= b
  PROVE  IsPercent(Percent(a, b))
BY DEF Percent, IsPercent

\* and not if it is a thousandth more.
LEMMA MoreIsNoPercentage ==
  ASSUME NEW a \in Nat, NEW b \in Nat \ {0}, 1000 * a >= 1001 * b
  PROVE  ~IsPercent(Percent(a, b))
BY DEF Percent, IsPercent

\* What is sent of a time is decoded to what was sent, and that is the time itself if it
\* is a whole second; so is what is shown of it. A time of day is decoded or refused.
TimeFits(t) ==
  /\ t % 1000 = 0 => Shown(t) = t /\ EncodeDate(t) = t
  /\ DecodeDate(EncodeDate(t)) = EncodeDate(t)
  /\ t \in TimesOfDay =>
       DecodeTime(EncodeTime(t), Error) = IF t % 1000 = 0 THEN t ELSE Error

\* This is so for every time.
LEMMA TimesFit == ASSUME NEW t \in Int  PROVE TimeFits(t)
BY NoValueAssumption
   DEF TimeFits, Shown, DecodeDate, EncodeDate, DecodeTime, EncodeTime

\* A time is shown as a number or not at all.
LEMMA ShownIsATime ==
  ASSUME NEW ms \in Millis \cup {None}  PROVE Shown(ms) \in Int \cup {None}
BY NumbersAssumption DEF Shown, DecodeDate

\* Each of the loads is there if the list is long enough.
LEMMA LoadsAreThere ==
  ASSUME NEW load \in {None, Other} \cup SeqOf({0}, 3), NEW i \in 0 .. 2
  PROVE  /\ LoadAvg(load, i) \in {0, None}
         /\ LoadAvg(load, i) # None <=>
              (IF load \in {None, Other} THEN 0 ELSE Len(load)) > i
<1>1. CASE load \in {None, Other}
  BY <1>1 DEF LoadAvg
<1>2. CASE load \notin {None, Other}
  <2>1. PICK n \in 0 .. 3 : load \in [1 .. n -> {0}]
    BY <1>2 DEF SeqOf
  <2>2. Len(load) = n /\ (n > i => load[i + 1] = 0)
    BY <2>1
  <2> QED
    BY <1>2, <2>2, NoValueAssumption DEF LoadAvg
<1> QED
  BY <1>1, <1>2

\* The values of a system are there when what they are made of is, and raise for an
\* infinite number only.
LEMMA SystemsAreSound == ASSUME NEW a \in SystemAnswers  PROVE SystemIsSound(a)
<1> DEFINE shown == SystemValues(a)
           loads == IF a.loadavg \in {None, Other} THEN 0 ELSE Len(a.loadavg)
<1>1. /\ a.cores \in Plain /\ a.physmem \in Plain /\ a.boottime \in Millis \cup {None}
      /\ a.loadavg \in {None, Other} \cup SeqOf({0}, 3)
  BY DEF SystemAnswers
<1>2. /\ shown.cores = ToInt(a.cores) /\ shown.memory_total = ToInt(a.physmem)
      /\ shown.uptime = Shown(a.boottime) /\ shown.load_1m = LoadAvg(a.loadavg, 0)
      /\ shown.load_5m = LoadAvg(a.loadavg, 1) /\ shown.load_15m = LoadAvg(a.loadavg, 2)
      /\ DOMAIN shown = {"cores", "memory_total", "uptime", "load_1m", "load_5m",
                         "load_15m"}
  BY DEF SystemValues
<1>3. \A i \in 0 .. 2 : /\ LoadAvg(a.loadavg, i) \in {0, None}
                        /\ LoadAvg(a.loadavg, i) # None <=> loads > i
  BY <1>1, LoadsAreThere
<1>4. shown.uptime # Error
  BY <1>1, <1>2, ShownIsATime, NoValueAssumption
<1> HIDE DEF shown, loads
<1>5. shown.load_1m # Error /\ shown.load_5m # Error /\ shown.load_15m # Error
  BY <1>2, <1>3, NoValueAssumption
<1>6. Raises(shown) <=> shown.cores = Error \/ shown.memory_total = Error
  BY <1>2, <1>4, <1>5 DEF Raises
<1>7. Raises(shown) <=> Infinite(a.cores) \/ Infinite(a.physmem)
  BY <1>1, <1>2, <1>6, ToIntRaises
<1>8. /\ shown.load_1m # None <=> loads > 0
      /\ shown.load_5m # None <=> loads > 1
      /\ shown.load_15m # None <=> loads > 2
  BY <1>2, <1>3
<1> QED
  BY <1>7, <1>8 DEF SystemIsSound, shown, loads

\* The values of a pool raise for the answers that are named, and its percentage is there
\* and in its range when it can be.
LEMMA PoolsAreSound == ASSUME NEW a \in PoolAnswers  PROVE PoolIsSound(a)
<1> DEFINE used == ToInt(a.allocated)
           total == ToInt(a.size)
           pct == PoolUsedPct(a)
           shown == PoolValues(a)
           badscan == \/ a.scan = Other
                      \/ a.scan \notin {None, Other} /\ Infinite(a.scan.errors)
<1>1. /\ used \in Nat \cup {None, Error} /\ (used = Error <=> Infinite(a.allocated))
      /\ total \in Nat \cup {None, Error} /\ (total = Error <=> Infinite(a.size))
  BY ToIntRaises DEF PoolAnswers
<1>2. pct = IF Error \in {used, total} THEN Error
            ELSE IF used = None \/ total \in {None, 0} THEN None ELSE Percent(used, total)
  BY DEF PoolUsedPct
<1>3. /\ shown.used = used /\ shown.total = total /\ shown.used_pct = pct
      /\ shown.scrub_finished = Shown(Get(a.scan, "end_time"))
      /\ shown.scrub_errors = ToInt(Get(a.scan, "errors"))
      /\ DOMAIN shown = {"used", "total", "used_pct", "scrub_finished", "scrub_errors"}
  BY DEF PoolValues
<1>4. Error \in {shown.scrub_finished, shown.scrub_errors} <=> badscan
  <2>1. CASE a.scan = None
    BY <1>3, <2>1, NoValueAssumption DEF Get, Shown, ToInt
  <2>2. CASE a.scan # None /\ a.scan = Other
    BY <1>3, <2>2 DEF Get, Shown
  <2>3. CASE a.scan \notin {None, Other}
    <3>1. a.scan.end_time \in Millis \cup {None} /\ a.scan.errors \in Plain
      BY <2>3 DEF PoolAnswers
    <3>2. /\ shown.scrub_finished = Shown(a.scan.end_time)
          /\ shown.scrub_errors = ToInt(a.scan.errors)
      BY <1>3, <2>3 DEF Get
    <3>3. shown.scrub_finished # Error
      BY <3>1, <3>2, ShownIsATime, NoValueAssumption
    <3>4. shown.scrub_errors = Error <=> Infinite(a.scan.errors)
      BY <3>1, <3>2, ToIntRaises
    <3> QED
      BY <2>3, <3>3, <3>4
  <2> QED
    BY <2>1, <2>2, <2>3
<1> HIDE DEF used, total, pct, shown, badscan
<1>5. ASSUME Error \notin {used, total}, used # None, total \notin {None, 0}
      PROVE  /\ pct \in Int
             /\ used <= total => IsPercent(pct)
             /\ 1000 * used >= 1001 * total => ~IsPercent(pct)
  <2>1. used \in Nat /\ total \in Nat \ {0} /\ pct = Percent(used, total)
    BY <1>1, <1>2, <1>5
  <2> QED
    BY <2>1, PercentIsANumber, PartIsAPercentage, MoreIsNoPercentage
<1>6. Error \notin {used, total} => (pct = None <=> used = None \/ total \in {None, 0})
  BY <1>2, <1>5, NoValueAssumption
<1>7. Error \in {used, total, pct} <=> Error \in {used, total}
  BY <1>2, <1>5, NoValueAssumption
<1>8. Raises(shown) <=> Error \in {used, total} \/ badscan
  <2>1. Raises(shown) <=> \/ Error \in {used, total, pct}
                          \/ Error \in {shown.scrub_finished, shown.scrub_errors}
    BY <1>3 DEF Raises
  <2> QED
    BY <1>4, <1>7, <2>1
<1>9. Raises(shown) <=> Infinite(a.allocated) \/ Infinite(a.size) \/ badscan
  BY <1>1, <1>8
<1>10. Error \notin {shown.used, shown.total} =>
         /\ shown.used_pct = None <=> shown.used = None \/ shown.total \in {None, 0}
         /\ shown.used_pct # None =>
              /\ shown.used <= shown.total => IsPercent(shown.used_pct)
              /\ 1000 * shown.used >= 1001 * shown.total => ~IsPercent(shown.used_pct)
  BY <1>3, <1>5, <1>6
<1> QED
  BY <1>9, <1>10 DEF PoolIsSound, shown, badscan

\* So it is with a dataset, which is never more than full.
LEMMA DatasetsAreSound == ASSUME NEW a \in DatasetAnswers  PROVE DatasetIsSound(a)
<1> DEFINE used == ToInt(Parsed(a.used))
           available == ToInt(Parsed(a.available))
           pct == DatasetUsedPct(a)
           shown == DatasetValues(a)
<1>1. /\ Parsed(a.used) \in Plain /\ Parsed(a.available) \in Plain
      /\ a.snapshot_count \in Plain
  BY ParsedIsPlain DEF DatasetAnswers
<1>2. /\ used \in Nat \cup {None, Error} /\ (used = Error <=> Infinite(Parsed(a.used)))
      /\ available \in Nat \cup {None, Error}
      /\ available = Error <=> Infinite(Parsed(a.available))
      /\ ToInt(a.snapshot_count) = Error <=> Infinite(a.snapshot_count)
  BY <1>1, ToIntRaises
<1>3. pct = IF Error \in {used, available} THEN Error
            ELSE IF None \in {used, available} \/ used + available <= 0
            THEN None ELSE Percent(used, used + available)
  BY DEF DatasetUsedPct
<1>4. /\ shown.used = used /\ shown.available = available /\ shown.used_pct = pct
      /\ shown.snapshots = ToInt(a.snapshot_count)
      /\ DOMAIN shown = {"used", "available", "used_pct", "snapshots"}
  BY DEF DatasetValues
<1> HIDE DEF used, available, pct, shown
<1>5. ASSUME Error \notin {used, available}
      PROVE  /\ pct \in Int \cup {None}
             /\ pct # None => IsPercent(pct)
             /\ pct = None => None \in {used, available} \/ {used, available} = {0}
  <2>1. CASE None \in {used, available}
    BY <1>3, <1>5, <2>1
  <2>2. CASE None \notin {used, available} /\ used + available <= 0
    BY <1>2, <1>3, <1>5, <2>2
  <2>3. CASE None \notin {used, available} /\ ~(used + available <= 0)
    <3>1. used \in Nat /\ used + available \in Nat \ {0} /\ used <= used + available
      BY <1>2, <1>5, <2>3
    <3>2. pct = Percent(used, used + available)
      BY <1>3, <1>5, <2>3
    <3> QED
      BY <3>1, <3>2, PercentIsANumber, PartIsAPercentage, NoValueAssumption
  <2> QED
    BY <2>1, <2>2, <2>3
<1>6. Error \in {used, available, pct} <=> Error \in {used, available}
  BY <1>5, NoValueAssumption
<1>7. Raises(shown) <=> Error \in {used, available, pct} \/ shown.snapshots = Error
  BY <1>4 DEF Raises
<1>8. Raises(shown) <=> \/ Infinite(Parsed(a.used)) \/ Infinite(Parsed(a.available))
                        \/ Infinite(a.snapshot_count)
  BY <1>2, <1>4, <1>6, <1>7
<1>9. Error \notin {shown.used, shown.available} =>
        /\ shown.used_pct # None => IsPercent(shown.used_pct)
        /\ shown.used_pct = None =>
             None \in {shown.used, shown.available} \/ {shown.used, shown.available} = {0}
  BY <1>4, <1>5
<1> QED
  BY <1>8, <1>9 DEF DatasetIsSound, shown

\* The switch of a VM is on when its state sensor says so, also without a status, and both
\* raise for a status that is no table.
LEMMA VMsAreSound == ASSUME NEW a \in VMAnswers  PROVE VMIsSound(a)
<1> DEFINE shown == VMValues(a)
<1>1. None # "RUNNING" /\ \A s \in VMStates : s # Error
  BY NoValueAssumption DEF VMStates
<1>2. /\ shown.state = Get(a.status, "state")
      /\ shown.memory = ToInt(a.memory) /\ shown.vcpus = ToInt(a.vcpus)
      /\ DOMAIN shown = {"state", "memory", "vcpus"}
  BY DEF VMValues
<1>3. Get(a.status, "state") = Error <=> a.status = Other
  <2>1. a.status \notin {None, Other} => a.status.state \in VMStates
    BY DEF VMAnswers
  <2> QED
    BY <1>1, <2>1, NoValueAssumption DEF Get
<1>4. /\ ToInt(a.memory) = Error <=> Infinite(a.memory)
      /\ ToInt(a.vcpus) = Error <=> Infinite(a.vcpus)
  BY ToIntRaises DEF VMAnswers
<1> HIDE DEF shown
<1>5. Raises(shown) <=> a.status = Other \/ Infinite(a.memory) \/ Infinite(a.vcpus)
  <2>1. Raises(shown) <=> Error \in {shown.state, shown.memory, shown.vcpus}
    BY <1>2 DEF Raises
  <2> QED
    BY <1>2, <1>3, <1>4, <2>1
<1>6. /\ VMIsOn(a) = Error <=> shown.state = Error
      /\ shown.state # Error => (VMIsOn(a) <=> shown.state = "RUNNING")
  <2>1. CASE shown.state = Error
    BY <1>2, <2>1 DEF VMIsOn
  <2>2. CASE shown.state # Error
    <3>1. VMIsOn(a) = (shown.state = "RUNNING")
      BY <1>2, <2>2 DEF VMIsOn
    <3> QED
      BY <2>2, <3>1, NoValueAssumption
  <2> QED
    BY <2>1, <2>2
<1> QED
  BY <1>5, <1>6 DEF VMIsSound, shown

\* A graph that has no value in its last row, in the column of the memory, although it
\* should, or one that is no number.
Unreadable(graph) ==
  /\ graph.data # <<>>
  /\ \/ graph.legend = None
     \/ /\ "available" \in ToSet(graph.legend)
        /\ \/ Len(Last(graph.data)) < 2
           \/ /\ Last(graph.data)[2] # None
              /\ Last(graph.data)[2].type \in {"infinite", "other"}

\* The free memory is what the last row of the graph says in its column, if it can be read.
LEMMA FreeMemoryIsANumber ==
  ASSUME NEW graph \in Graphs, NEW physmem
  PROVE  IF Unreadable(graph) THEN Memory(graph, physmem).free = Error
         ELSE Memory(graph, physmem).free \in Nat \cup {None}
<1> DEFINE latest == Latest(graph, "available")
           free == Memory(graph, physmem).free
<1>1. free = IF latest \in {None, Error} THEN latest ELSE AsInt(latest, Error, Error)
  BY DEF Memory
<1>2. CASE graph.data = <<>>
  BY <1>1, <1>2 DEF Latest, Unreadable
<1>3. CASE graph.data # <<>> /\ graph.legend = None
  BY <1>1, <1>3, NoValueAssumption DEF Latest, Unreadable
<1>4. CASE /\ graph.data # <<>> /\ graph.legend # None
           /\ "available" \notin ToSet(graph.legend)
  BY <1>1, <1>4 DEF Latest, Unreadable
<1>5. CASE /\ graph.data # <<>> /\ graph.legend # None
           /\ "available" \in ToSet(graph.legend)
  <2>1. graph.legend = <<"time", "available">>
    BY <1>5 DEF Graphs, ToSet
  <2>2. Column(graph, "available") = 2
    BY <2>1 DEF Column
  <2>3. CASE graph.data = <<<<0>>>>
    <3>1. Last(graph.data) = <<0>>
      BY <2>3 DEF Last
    <3>2. latest = Error /\ Unreadable(graph)
      BY <1>5, <2>2, <3>1 DEF Latest, Unreadable
    <3> QED
      BY <1>1, <3>2
  <2>4. CASE graph.data # <<<<0>>>>
    <3>1. PICK v \in Plain : graph.data = <<<<0, v>>>>
      BY <1>5, <2>4 DEF Graphs
    <3>2. Last(graph.data) = <<0, v>>
      BY <3>1 DEF Last
    <3>3. latest = v
      BY <1>5, <2>2, <3>2 DEF Latest
    <3>4. Unreadable(graph) <=> v # None /\ v.type \in {"infinite", "other"}
      BY <1>5, <3>2 DEF Unreadable
    <3>5. v # None => /\ v.type \in {"number", "digits", "infinite", "other"}
                      /\ v.type \in {"number", "digits"} => v.of \in Nat
      BY NumbersAssumption DEF Plain
    <3>6. v # Error
      BY NoErrorAssumption
    <3>7. IF Unreadable(graph) THEN free = Error ELSE free \in Nat \cup {None}
      <4> HIDE DEF latest, free
      <4> QED
        BY <1>1, <3>3, <3>4, <3>5, <3>6 DEF AsInt
    <3> QED
      BY <3>7
  <2> QED
    BY <2>3, <2>4
<1> QED
  BY <1>2, <1>3, <1>4, <1>5

\* The used memory is what the free memory leaves, and its percentage fits.
LEMMA MemoriesAreSound ==
  ASSUME NEW a \in MemoryAnswers  PROVE MemoryIsSound(a.graph, a.physmem)
<1> DEFINE m == Memory(a.graph, a.physmem)
           free == m.free
           used == a.physmem - free
<1>1. /\ a.physmem \in Nat
      /\ IF Unreadable(a.graph) THEN free = Error ELSE free \in Nat \cup {None}
  BY FreeMemoryIsANumber, NumbersAssumption DEF MemoryAnswers
<1>2. /\ DOMAIN m = {"free", "used", "percent"}
      /\ m.used = IF free \in {None, Error} THEN free ELSE used
      /\ m.percent = IF free \in {None, Error} THEN free
                     ELSE IF a.physmem = 0 THEN None
                     ELSE Percent(m.used, a.physmem)
  BY DEF Memory
<1> HIDE DEF m
<1>3. ASSUME free \notin {None, Error}
      PROVE  /\ m.used \in Int /\ m.used + free = a.physmem
             /\ m.percent \in Int \cup {None}
             /\ m.percent = None <=> a.physmem = 0
             /\ free <= a.physmem /\ a.physmem # 0 => IsPercent(m.percent)
  <2>1. free \in Nat /\ m.used = a.physmem - free
    BY <1>1, <1>2, <1>3
  <2>2. m.used \in Int /\ m.used + free = a.physmem
    BY <1>1, <2>1
  <2>3. CASE a.physmem = 0
    BY <1>2, <1>3, <2>2, <2>3
  <2>4. CASE a.physmem # 0
    <3>1. a.physmem \in Nat \ {0} /\ m.percent = Percent(m.used, a.physmem)
      BY <1>1, <1>2, <1>3, <2>4
    <3>2. m.percent \in Int
      BY <2>2, <3>1, PercentIsANumber
    <3>3. free <= a.physmem => m.used \in Nat /\ m.used <= a.physmem
      BY <1>1, <2>1
    <3>4. free <= a.physmem => IsPercent(m.percent)
      <4> HIDE DEF free
      <4> QED
        BY <3>1, <3>3, PartIsAPercentage
    <3> QED
      BY <2>2, <2>4, <3>2, <3>4, NoValueAssumption
  <2> QED
    BY <2>3, <2>4
<1>4. Raises(m) <=> Error \in {free, m.used, m.percent}
  BY <1>2 DEF Raises
<1>5. Raises(m) <=> Unreadable(a.graph)
  BY <1>1, <1>2, <1>3, <1>4, NoValueAssumption
<1>6. free = None <=> m.used = None
  BY <1>2, <1>3, NoValueAssumption
<1>7. ~Raises(m) /\ free # None =>
        /\ m.used + free = a.physmem
        /\ m.percent = None <=> a.physmem = 0
        /\ free <= a.physmem /\ a.physmem # 0 => IsPercent(m.percent)
  BY <1>3, <1>4
<1> QED
  BY <1>5, <1>6, <1>7 DEF MemoryIsSound, Unreadable, m

\* A version is offered only if the server names it.
LEMMA UpdatesAreSound == ASSUME NEW a \in UpdateAnswers  PROVE UpdateIsSound(a)
<1> DEFINE latest == LatestVersion(a.status, a.installed)
<1>1. a.installed \in Versions
  BY DEF UpdateAnswers
<1>2. CASE a.status = Other
  BY <1>2 DEF UpdateIsSound, LatestVersion
<1>3. CASE a.status # Other
  <2>1. Get(a.status, "new_version") \in NewVersions
    <3>1. CASE a.status = None
      BY <3>1 DEF Get, NewVersions
    <3>2. CASE a.status # None
      <4>1. a.status \in [new_version : NewVersions]
        BY <1>3, <3>2 DEF UpdateAnswers
      <4> HIDE DEF NewVersions
      <4> QED
        BY <1>3, <3>2, <4>1 DEF Get
    <3> QED
      BY <3>1, <3>2
  <2>2. \A new \in NewVersions : NewVersion(new) \in Versions \cup {None}
    BY DEF NewVersions, NewVersion
  <2>3. latest \in Versions
    BY <1>1, <1>3, <2>1, <2>2 DEF LatestVersion
  <2> QED
    BY <1>3, <2>3, NoValueAssumption DEF UpdateIsSound
<1> QED
  BY <1>2, <1>3

\* An update of an app is offered only if the server says there is one.
LEMMA AppsAreSound ==
  ASSUME NEW a \in AppAnswers, LatestAppVersion(a) # a.installed
  PROVE  a.upgrade_available /\ a.latest \in Versions
BY DEF AppAnswers, LatestAppVersion

-----------------------------------------------------------------------------
(* The alerts.                                                             *)

\* The alerts of a level are finitely many, and no more than there are alerts.
LEMMA LevelsAreFinite ==
  ASSUME NEW n \in Nat, NEW alerts \in [1 .. n -> [level : Levels, dismissed : BOOLEAN]],
         NEW l
  PROVE  LET those == {i \in Active(alerts) : alerts[i].level = l}
         IN  IsFiniteSet(those) /\ Cardinality(those) \in 0 .. n
<1> DEFINE those == {i \in Active(alerts) : alerts[i].level = l}
<1>1. IsFiniteSet(1 .. n) /\ Cardinality(1 .. n) = n
  BY FS_Interval
<1>2. those \in SUBSET (1 .. n)
  BY DEF Active
<1>3. IsFiniteSet(those) /\ Cardinality(those) <= n
  BY <1>1, <1>2, FS_Subset
<1> QED
  BY <1>3, FS_CardinalityType

\* Disjoint sets have as many elements as they have together.
LEMMA DisjointSets ==
  ASSUME NEW A, NEW B, IsFiniteSet(A), IsFiniteSet(B), A \cap B = {}
  PROVE  /\ IsFiniteSet(A \cup B)
         /\ Cardinality(A \cup B) = Cardinality(A) + Cardinality(B)
<1>1. Cardinality(A) \in Nat /\ Cardinality(B) \in Nat
  BY FS_CardinalityType
<1>2. Cardinality(A \cap B) = 0
  BY FS_EmptySet
<1>3. /\ IsFiniteSet(A \cup B)
      /\ Cardinality(A \cup B) = Cardinality(A) + Cardinality(B) - Cardinality(A \cap B)
  BY FS_Union
<1> QED
  BY <1>1, <1>2, <1>3

\* So do three of them.
LEMMA ThreeDisjointSets ==
  ASSUME NEW A, NEW B, NEW C, IsFiniteSet(A), IsFiniteSet(B), IsFiniteSet(C),
         A \cap B = {}, A \cap C = {}, B \cap C = {}
  PROVE  Cardinality(A \cup B \cup C) = Cardinality(A) + Cardinality(B) + Cardinality(C)
<1>1. IsFiniteSet(A \cup B) /\ Cardinality(A \cup B) = Cardinality(A) + Cardinality(B)
  BY DisjointSets
<1>2. (A \cup B) \cap C = {}
  OBVIOUS
<1>3. Cardinality(A \cup B \cup C) = Cardinality(A \cup B) + Cardinality(C)
  BY <1>1, <1>2, DisjointSets
<1> QED
  BY <1>1, <1>3

\* A row of a table has as many elements as it is long.
LEMMA RowLength ==
  ASSUME NEW l, NEW k \in Nat
  PROVE  IsFiniteSet({l} \X (1 .. k)) /\ Cardinality({l} \X (1 .. k)) = k
<1>1. IsFiniteSet({l}) /\ Cardinality({l}) = 1
  BY FS_Singleton
<1>2. IsFiniteSet(1 .. k) /\ Cardinality(1 .. k) = k
  BY FS_Interval
<1>3. /\ IsFiniteSet({l} \X (1 .. k))
      /\ Cardinality({l} \X (1 .. k)) = Cardinality({l}) * Cardinality(1 .. k)
  BY <1>1, <1>2, FS_Product, Zenon
<1> QED
  BY <1>1, <1>2, <1>3

\* The alerts that count are those of the three levels, and the counts of the levels
\* make up the whole.
LEMMA AlertsAreCounted ==
  ASSUME NEW n \in Nat, NEW alerts \in [1 .. n -> [level : Levels, dismissed : BOOLEAN]],
         alerts # None
  PROVE  AlertsAreSound(alerts)
<1> DEFINE Of(l) == {i \in Active(alerts) : alerts[i].level = l}
           Row(l) == {l} \X (1 .. Cardinality(Of(l)))
           Table == {counted \in Levels \X (1 .. Len(alerts)) :
                       /\ counted[1] \in DOMAIN ByLevel(alerts)
                       /\ counted[2] <= ByLevel(alerts)[counted[1]]}
<1>1. \A l : IsFiniteSet(Of(l)) /\ Cardinality(Of(l)) \in 0 .. n
  BY LevelsAreFinite
<1>2. \A i \in Active(alerts) : alerts[i].level \in Levels
  BY DEF Active
<1>3. Active(alerts) = Of("CRITICAL") \cup Of("WARNING") \cup Of("UNKNOWN")
  BY <1>2 DEF Levels
<1>4. AlertsActive(alerts) =
        Cardinality(Of("CRITICAL")) + Cardinality(Of("WARNING")) + Cardinality(Of("UNKNOWN"))
  <2>1. /\ Of("CRITICAL") \cap Of("WARNING") = {}
        /\ Of("CRITICAL") \cap Of("UNKNOWN") = {}
        /\ Of("WARNING") \cap Of("UNKNOWN") = {}
    OBVIOUS
  <2>2. /\ IsFiniteSet(Of("CRITICAL")) /\ IsFiniteSet(Of("WARNING"))
        /\ IsFiniteSet(Of("UNKNOWN"))
    <3> HIDE DEF Of
    <3> QED
      BY <1>1
  <2> HIDE DEF Of
  <2>3. Cardinality(Of("CRITICAL") \cup Of("WARNING") \cup Of("UNKNOWN")) =
          Cardinality(Of("CRITICAL")) + Cardinality(Of("WARNING")) + Cardinality(Of("UNKNOWN"))
    BY <2>1, <2>2, ThreeDisjointSets
  <2> QED
    BY <1>3, <2>3 DEF AlertsActive
<1>5. /\ DOMAIN ByLevel(alerts) = {l \in Levels : Of(l) # {}}
      /\ \A l \in DOMAIN ByLevel(alerts) : ByLevel(alerts)[l] = Cardinality(Of(l))
  BY <1>2 DEF ByLevel
<1>6. Table = Row("CRITICAL") \cup Row("WARNING") \cup Row("UNKNOWN")
  <2>1. \A l : Of(l) = {} => Cardinality(Of(l)) = 0
    BY FS_EmptySet
  <2>2. Len(alerts) = n
    OBVIOUS
  <2>3. ASSUME NEW l \in Levels, NEW k \in Nat
        PROVE  <<l, k>> \in Table <=> k \in 1 .. Cardinality(Of(l))
    <3>1. <<l, k>> \in Table <=>
            k \in 1 .. n /\ l \in DOMAIN ByLevel(alerts) /\ k <= ByLevel(alerts)[l]
      BY <2>2
    <3>2. l \in DOMAIN ByLevel(alerts) <=> Of(l) # {}
      BY <1>5
    <3>3. Of(l) # {} => ByLevel(alerts)[l] = Cardinality(Of(l))
      BY <1>5, <3>2
    <3>4. Cardinality(Of(l)) \in 0 .. n /\ (Of(l) = {} => Cardinality(Of(l)) = 0)
      BY <1>1, <2>1
    <3> HIDE DEF Of, Table
    <3> QED
      BY <3>1, <3>2, <3>3, <3>4
  <2>4. \A p \in Table : \E l \in Levels, k \in Nat : p = <<l, k>>
    BY <2>2
  <2>5. \A l \in Levels : Row(l) \subseteq Table
    <3>1. ASSUME NEW l, NEW p \in Row(l)
          PROVE  \E k \in Nat : k \in 1 .. Cardinality(Of(l)) /\ p = <<l, k>>
      <4> HIDE DEF Of
      <4>1. Cardinality(Of(l)) \in Nat
        BY <1>1
      <4> QED
        BY <4>1
    <3> HIDE DEF Table, Row, Of
    <3> QED
      BY <2>3, <3>1
  <2>6. \A p \in Table : \E l \in Levels : p \in Row(l)
    <3>1. \A l : \A k \in 1 .. Cardinality(Of(l)) : <<l, k>> \in Row(l)
      OBVIOUS
    <3> HIDE DEF Table, Row, Of
    <3> QED
      BY <2>3, <2>4, <3>1
  <2> HIDE DEF Table, Row, Of
  <2> QED
    BY <2>5, <2>6 DEF Levels
<1>7. Cardinality(Table) =
        Cardinality(Of("CRITICAL")) + Cardinality(Of("WARNING")) + Cardinality(Of("UNKNOWN"))
  <2>1. \A l : IsFiniteSet(Row(l)) /\ Cardinality(Row(l)) = Cardinality(Of(l))
    <3> SUFFICES ASSUME NEW l
                 PROVE  IsFiniteSet(Row(l)) /\ Cardinality(Row(l)) = Cardinality(Of(l))
      OBVIOUS
    <3> HIDE DEF Of
    <3>1. Cardinality(Of(l)) \in Nat
      BY <1>1
    <3> QED
      BY <3>1, RowLength
  <2>2. \A l, m : l # m => Row(l) \cap Row(m) = {}
    <3> HIDE DEF Of
    <3> QED
      OBVIOUS
  <2>3. /\ Row("CRITICAL") \cap Row("WARNING") = {}
        /\ Row("CRITICAL") \cap Row("UNKNOWN") = {}
        /\ Row("WARNING") \cap Row("UNKNOWN") = {}
    <3> HIDE DEF Row
    <3> QED
      BY <2>2
  <2> HIDE DEF Table, Row, Of
  <2> QED
    BY <1>6, <2>1, <2>3, ThreeDisjointSets
<1>8. CriticalAlert(alerts) <=> "CRITICAL" \in DOMAIN ByLevel(alerts)
  BY DEF CriticalAlert, ByLevel
<1> HIDE DEF Of
<1> QED
  BY <1>4, <1>7, <1>8 DEF AlertsAreSound

-----------------------------------------------------------------------------
(* The temperatures.                                                       *)

\* The least number of a set, from which the inductions below start.
LEMMA LeastNumber ==
  ASSUME NEW S \in SUBSET Nat, S # {}
  PROVE  \E m \in S : \A n \in S : m <= n
<1>1. PICK m \in S : \A n \in S : <<n, m>> \notin OpToRel(<, Nat)
  BY NatLessThanWellFounded, WFMin
<1>2. \A n \in S : ~(n < m)
  BY <1>1 DEF OpToRel
<1> QED
  BY <1>2

\* Adding the numbers of a row one by one, in the order of CHOOSE.
First(s) == CHOOSE x \in s : TRUE

Added(row, f, s) == IF s = {} THEN 0 ELSE row[First(s)] + f[s \ {First(s)}]

AddsUp(row, S, f) ==
  /\ f = [s \in SUBSET S |-> f[s]]
  /\ \A s \in SUBSET S : f[s] = Added(row, f, s)

\* What is left of a finite set without its first element.
LEMMA RestIsSmaller ==
  ASSUME NEW s, IsFiniteSet(s), s # {}
  PROVE  /\ First(s) \in s /\ IsFiniteSet(s \ {First(s)})
         /\ Cardinality(s) \in Nat \ {0}
         /\ Cardinality(s \ {First(s)}) = Cardinality(s) - 1
<1>1. First(s) \in s
  BY DEF First
<1> QED
  BY <1>1, FS_RemoveElement, FS_EmptySet, FS_CardinalityType

\* The recursion of the fold has a solution: one that is right up to a size is right
\* up to the next one after one more addition.
LEMMA SumsExist ==
  ASSUME NEW S, IsFiniteSet(S), NEW row
  PROVE  \E f : AddsUp(row, S, f)
<1> DEFINE Right(f, k) == \A s \in SUBSET S : Cardinality(s) <= k => f[s] = Added(row, f, s)
           Sums(k) == \E f : f = [s \in SUBSET S |-> f[s]] /\ Right(f, k)
           Wrong == {k \in Nat : ~Sums(k)}
<1>1. \A s \in SUBSET S : IsFiniteSet(s) /\ Cardinality(s) \in Nat
  BY FS_Subset, FS_CardinalityType
<1>2. Sums(0)
  <2> DEFINE f == [s \in SUBSET S |-> 0]
  <2>1. Right(f, 0)
    <3>1. \A s \in SUBSET S : Cardinality(s) <= 0 => s = {}
      BY <1>1, FS_EmptySet
    <3> QED
      BY <3>1 DEF Added
  <2> QED
    BY <2>1
<1>3. ASSUME NEW k \in Nat, Sums(k)  PROVE Sums(k + 1)
  <2>1. PICK f : f = [s \in SUBSET S |-> f[s]] /\ Right(f, k)
    BY <1>3
  <2> DEFINE g == [s \in SUBSET S |-> Added(row, f, s)]
  <2>2. ASSUME NEW s \in SUBSET S, Cardinality(s) <= k + 1  PROVE g[s] = Added(row, g, s)
    <3>1. CASE s = {}
      BY <3>1 DEF Added
    <3>2. CASE s # {}
      <4> DEFINE t == s \ {First(s)}
      <4>1. Cardinality(t) = Cardinality(s) - 1 /\ t \in SUBSET S
        BY <1>1, <3>2, RestIsSmaller
      <4>2. Cardinality(t) <= k
        BY <1>1, <2>2, <4>1
      <4>3. f[t] = g[t]
        BY <2>1, <4>1, <4>2
      <4> QED
        BY <3>2, <4>3 DEF Added
    <3> QED
      BY <3>1, <3>2
  <2>3. g = [s \in SUBSET S |-> g[s]]
    OBVIOUS
  <2> HIDE DEF g
  <2> QED
    BY <2>2, <2>3
<1>4. ASSUME Wrong # {}  PROVE FALSE
  <2> HIDE DEF Sums
  <2>1. PICK m \in Wrong : \A n \in Wrong : m <= n
    <3>1. Wrong \in SUBSET Nat
      OBVIOUS
    <3> QED
      BY <1>4, <3>1, LeastNumber
  <2>2. m \in Nat /\ ~Sums(m) /\ m # 0
    BY <1>2, <2>1
  <2>3. m - 1 \in Nat /\ m - 1 \notin Wrong /\ (m - 1) + 1 = m
    BY <2>1, <2>2
  <2> QED
    BY <1>3, <2>2, <2>3
<1>5. Sums(Cardinality(S))
  BY <1>1, <1>4
<1>6. \A s \in SUBSET S : Cardinality(s) <= Cardinality(S)
  BY FS_Subset
<1>7. PICK f : f = [s \in SUBSET S |-> f[s]] /\ Right(f, Cardinality(S))
  BY <1>5
<1>8. \A s \in SUBSET S : f[s] = Added(row, f, s)
  BY <1>6, <1>7
<1> QED
  BY <1>7, <1>8 DEF AddsUp

\* So the sum of the community modules is a solution.
LEMMA SumIsAdded ==
  ASSUME NEW S, IsFiniteSet(S), NEW row
  PROVE  \E f : /\ \A s \in SUBSET S : f[s] = Added(row, f, s)
                /\ SumFunctionOnSet(row, S) = f[S]
<1> DEFINE Adds(f) == f = [s \in SUBSET S |-> Added(row, f, s)]
           fold == CHOOSE f : Adds(f)
<1>1. Adds(fold)
  <2>1. PICK f : AddsUp(row, S, f)
    BY SumsExist
  <2>2. Adds(f)
    BY <2>1 DEF AddsUp
  <2> HIDE DEF Adds
  <2> QED
    BY <2>2
<1>2. SumFunctionOnSet(row, S) = fold[S]
  BY DEF SumFunctionOnSet, FoldFunctionOnSet, MapThenFoldSet, Added, First
<1> HIDE DEF fold
<1> QED
  BY <1>1, <1>2

\* One number more, and the sum is still between two of them times their number.
LEMMA OneMore ==
  ASSUME NEW k \in Nat, NEW sum \in Int, NEW x \in Int, NEW lo \in Int, NEW hi \in Int,
         k * lo <= sum, sum <= k * hi
  PROVE  /\ lo <= x => (k + 1) * lo <= x + sum
         /\ x <= lo => (k + 1) * x <= x + sum
         /\ x <= hi => x + sum <= (k + 1) * hi
         /\ hi <= x => x + sum <= (k + 1) * x
<1>1. /\ (k + 1) * lo = k * lo + lo /\ (k + 1) * x = k * x + x
      /\ (k + 1) * hi = k * hi + hi
  OBVIOUS
<1>2. /\ x <= lo => k * x <= k * lo
      /\ hi <= x => k * hi <= k * x
  OBVIOUS
<1>3. k * lo \in Int /\ k * hi \in Int /\ k * x \in Int
  OBVIOUS
<1> QED
  BY <1>1, <1>2, <1>3

\* The sum of any number of numbers is between two of them times their number.
LEMMA SumIsBetween ==
  ASSUME NEW S, IsFiniteSet(S), S # {}, NEW row, \A i \in S : row[i] \in Int
  PROVE  /\ SumFunctionOnSet(row, S) \in Int
         /\ \E i, j \in S : /\ Cardinality(S) * row[i] <= SumFunctionOnSet(row, S)
                            /\ SumFunctionOnSet(row, S) <= Cardinality(S) * row[j]
<1>1. PICK f : /\ \A s \in SUBSET S : f[s] = Added(row, f, s)
               /\ SumFunctionOnSet(row, S) = f[S]
  BY SumIsAdded
<1> DEFINE Fits(s) ==
             /\ f[s] \in Int
             /\ \E i, j \in s : /\ Cardinality(s) * row[i] <= f[s]
                                /\ f[s] <= Cardinality(s) * row[j]
           Sizes == {Cardinality(s) : s \in {t \in SUBSET S : t # {} /\ ~Fits(t)}}
<1>2. \A s \in SUBSET S : IsFiniteSet(s) /\ Cardinality(s) \in Nat
  BY FS_Subset, FS_CardinalityType
<1>3. ASSUME NEW s \in SUBSET S, s # {},
             s \ {First(s)} = {} \/ Fits(s \ {First(s)})
      PROVE  Fits(s)
  <2> DEFINE rest == s \ {First(s)}
             x == row[First(s)]
  <2>1. /\ First(s) \in s /\ rest \in SUBSET S /\ Cardinality(rest) \in Nat
        /\ Cardinality(s) = Cardinality(rest) + 1
    <3>1. IsFiniteSet(s) /\ rest \in SUBSET S
      BY <1>2
    <3>2. /\ First(s) \in s /\ Cardinality(s) \in Nat \ {0}
          /\ Cardinality(rest) = Cardinality(s) - 1
      BY <1>3, <3>1, RestIsSmaller
    <3> QED
      BY <3>1, <3>2
  <2>2. x \in Int /\ f[s] = x + f[rest]
    BY <1>1, <1>3, <2>1 DEF Added
  <2>3. CASE rest = {}
    <3>1. f[{}] = 0
      BY <1>1 DEF Added
    <3>2. Cardinality(s) = 1
      BY <2>1, <2>3, FS_EmptySet
    <3>3. f[s] = x /\ Cardinality(s) * x = x
      BY <2>2, <2>3, <3>1, <3>2
    <3>4. Cardinality(s) * row[First(s)] <= f[s] /\ f[s] <= Cardinality(s) * row[First(s)]
      BY <2>2, <3>3
    <3> HIDE DEF rest
    <3> QED
      BY <2>1, <2>2, <3>3, <3>4
  <2>4. CASE Fits(rest)
    <3>1. PICK i \in rest, j \in rest : /\ Cardinality(rest) * row[i] <= f[rest]
                                        /\ f[rest] <= Cardinality(rest) * row[j]
      BY <2>4
    <3>2. row[i] \in Int /\ row[j] \in Int /\ f[rest] \in Int
      BY <2>4
    <3> DEFINE k == Cardinality(rest)
    <3> HIDE DEF x, k
    <3>3. /\ row[i] <= x => (k + 1) * row[i] <= x + f[rest]
          /\ x <= row[i] => (k + 1) * x <= x + f[rest]
          /\ x <= row[j] => x + f[rest] <= (k + 1) * row[j]
          /\ row[j] <= x => x + f[rest] <= (k + 1) * x
      <4>1. k \in Nat /\ k * row[i] <= f[rest] /\ f[rest] <= k * row[j]
        BY <2>1, <3>1 DEF k
      <4> HIDE DEF rest
      <4> QED
        BY <2>2, <3>2, <4>1, OneMore
    <3>4. Cardinality(s) = k + 1 /\ f[s] = x + f[rest] /\ f[s] \in Int
      BY <2>1, <2>2, <3>2 DEF k
    <3>5. \E y \in {row[i], x} : Cardinality(s) * y <= f[s]
      BY <2>2, <3>2, <3>3, <3>4
    <3>6. \E y \in {row[j], x} : f[s] <= Cardinality(s) * y
      BY <2>2, <3>2, <3>3, <3>4
    <3>7. i \in s /\ j \in s /\ First(s) \in s
      BY <2>1
    <3>8. \E p \in s : Cardinality(s) * row[p] <= f[s]
      BY <3>5, <3>7 DEF x
    <3>9. \E q \in s : f[s] <= Cardinality(s) * row[q]
      BY <3>6, <3>7 DEF x
    <3> QED
      BY <3>4, <3>8, <3>9
  <2> QED
    BY <1>3, <2>3, <2>4
<1>4. ASSUME Sizes # {}  PROVE FALSE
  <2> HIDE DEF Fits
  <2>1. PICK m \in Sizes : \A n \in Sizes : m <= n
    <3>1. Sizes \in SUBSET Nat
      BY <1>2
    <3> QED
      BY <1>4, <3>1, LeastNumber
  <2>2. PICK s \in SUBSET S : s # {} /\ ~Fits(s) /\ m = Cardinality(s)
    BY <2>1
  <2>3. s \ {First(s)} \in SUBSET S /\ Cardinality(s \ {First(s)}) = m - 1 /\ m \in Nat
    BY <1>2, <2>2, RestIsSmaller
  <2>4. m - 1 \notin Sizes
    BY <2>1, <2>3
  <2>5. s \ {First(s)} = {} \/ Fits(s \ {First(s)})
    BY <2>3, <2>4
  <2> QED
    BY <1>3, <2>2, <2>5
<1>5. Fits(S)
  <2> HIDE DEF Fits
  <2> QED
    BY <1>4
<1> QED
  BY <1>1, <1>5

\* The average of numbers is between two numbers that their sum is between, times their
\* number.
LEMMA AverageIsBetween ==
  ASSUME NEW n \in Nat \ {0}, NEW sum \in Int, NEW lo \in Int, NEW hi \in Int,
         n * lo <= sum, sum <= n * hi
  PROVE  10 * lo <= (10 * sum) \div n /\ (10 * sum) \div n <= 10 * hi
<1> DEFINE q == (10 * sum) \div n
<1>1. q \in Int /\ n * q <= 10 * sum /\ 10 * sum < n * q + n
  OBVIOUS
<1>2. n * (10 * lo) <= 10 * sum /\ 10 * sum <= n * (10 * hi)
  <2>1. n * (10 * lo) = 10 * (n * lo) /\ n * (10 * hi) = 10 * (n * hi)
    OBVIOUS
  <2>2. n * lo \in Int /\ n * hi \in Int
    OBVIOUS
  <2> QED
    BY <2>1, <2>2
<1> HIDE DEF q
<1>3. n * (10 * lo) < n * (q + 1) /\ n * q <= n * (10 * hi)
  <2>1. n * (q + 1) = n * q + n /\ n * q \in Int /\ n * (10 * lo) \in Int
        /\ n * (10 * hi) \in Int
    BY <1>1
  <2> QED
    BY <1>1, <1>2, <2>1
<1>4. 10 * lo < q + 1 /\ q <= 10 * hi
  BY <1>1, <1>3
<1> QED
  BY <1>1, <1>4 DEF q

\* The average temperature lies between two that were measured, if all are numbers.
LEMMA CpuTempsAreSound ==
  ASSUME NEW a \in CpuTempAnswers  PROVE CpuTempIsSound(a)
<1>1. CASE a.data = <<>>
  BY <1>1, NoValueAssumption DEF CpuTempIsSound, CpuTemp
<1>2. CASE a.data # <<>>
  <2>1. PICK row \in SeqOf(Numbers \cup {None, Other}, MaxCores) :
          a.data = <<<<0, 0>>, <<0>> \o row>>
    BY <1>2 DEF CpuTempAnswers
  <2>2. PICK m \in 0 .. MaxCores : row \in [1 .. m -> Numbers \cup {None, Other}]
    BY <2>1 DEF SeqOf
  <2>3. m \in Nat
    BY NumbersAssumption
  <2>4. Tail(Last(a.data)) = row
    <3>1. row \in Seq(Numbers \cup {None, Other})
      BY <2>2, <2>3
    <3>2. Last(a.data) = <<0>> \o row
      BY <2>1 DEF Last
    <3>3. Len(row) = m /\ DOMAIN row = 1 .. m
      BY <2>2, <2>3
    <3>4. <<0>> \o row = [i \in 1 .. m + 1 |-> IF i <= 1 THEN 0 ELSE row[i - 1]]
      BY <2>3, <3>1, <3>3
    <3>5. Tail(<<0>> \o row) = [i \in 1 .. m |-> row[i]]
      BY <2>3, <3>4
    <3> QED
      BY <2>2, <3>2, <3>5
  <2> DEFINE sum == SumFunctionOnSet(row, Known(row))
             n == Cardinality(Known(row))
             t == (10 * sum) \div n
  <2>5. CpuTemp(a) = IF Other \in ToSet(row) THEN Error
                     ELSE IF Known(row) = {} THEN None ELSE t
    BY <1>2, <2>4 DEF CpuTemp
  <2>6. CASE Other \in ToSet(row)
    BY <1>2, <2>4, <2>5, <2>6 DEF CpuTempIsSound
  <2>7. CASE Other \notin ToSet(row)
    <3>1. DOMAIN row = 1 .. m /\ IsFiniteSet(1 .. m)
      BY <2>2, <2>3, FS_Interval
    <3>2. IsFiniteSet(Known(row))
      BY <3>1, FS_Subset DEF Known
    <3>3. ASSUME NEW i \in Known(row)
          PROVE  row[i] \in Int /\ row[i] \in ToSet(row) \ {None}
      <4>1. i \in 1 .. m /\ row[i] # None
        BY <3>1, <3>3 DEF Known
      <4>2. row[i] \in ToSet(row)
        BY <3>1, <4>1 DEF ToSet
      <4>3. row[i] \in Nat
        <5>1. row[i] \in Numbers
          BY <2>2, <2>7, <4>1, <4>2
        <5> QED
          BY <5>1, NumbersAssumption
      <4> QED
        BY <4>1, <4>2, <4>3
    <3>4. CASE Known(row) = {}
      BY <2>4, <2>5, <2>7, <3>4, NoValueAssumption DEF CpuTempIsSound
    <3>5. CASE Known(row) # {}
      <4> HIDE DEF sum, n
      <4>1. n \in Nat \ {0}
        BY <3>2, <3>5, FS_EmptySet, FS_CardinalityType DEF n
      <4>2. sum \in Int /\ \E x, y \in Known(row) : n * row[x] <= sum /\ sum <= n * row[y]
        BY <3>2, <3>3, <3>5, SumIsBetween DEF sum, n
      <4>3. PICK x \in Known(row), y \in Known(row) : n * row[x] <= sum /\ sum <= n * row[y]
        BY <4>2
      <4>4. row[x] \in Int /\ row[y] \in Int
        BY <3>3
      <4>5. 10 * row[x] <= t /\ t <= 10 * row[y]
        BY <4>1, <4>2, <4>3, <4>4, AverageIsBetween
      <4>6. t \in Int
        BY <4>1, <4>2
      <4>7. row[x] \in ToSet(row) \ {None} /\ row[y] \in ToSet(row) \ {None}
        BY <3>3
      <4> HIDE DEF t
      <4>8. CpuTemp(a) = t /\ t # Error
        BY <2>5, <2>7, <3>5, <4>6, NoValueAssumption
      <4> QED
        BY <2>4, <2>7, <4>5, <4>7, <4>8 DEF CpuTempIsSound
    <3> QED
      BY <3>4, <3>5
  <2> QED
    BY <2>6, <2>7
<1> QED
  BY <1>1, <1>2

-----------------------------------------------------------------------------
(* The datasets.                                                           *)

\* The walk over a tree of datasets: its roots, and what it visits next.
Roots(parent) == {d \in Datasets : parent[d] = d}

Further(parent, visited) == visited \cup {d \in Datasets : parent[d] \in visited}

Walk(parent, visit, depth) ==
  /\ visit = [k \in 0 .. depth |-> visit[k]]
  /\ visit[0] = Roots(parent)
  /\ \A k \in 1 .. depth : visit[k] = Further(parent, visit[k - 1])

\* It goes to every depth.
LEMMA WalksExist ==
  ASSUME NEW parent
  PROVE  \A depth \in Nat : \E visit : Walk(parent, visit, depth)
<1> DEFINE Short == {depth \in Nat : ~ \E visit : Walk(parent, visit, depth)}
<1>1. ASSUME Short # {}  PROVE FALSE
  <2>1. PICK m \in Short : \A n \in Short : m <= n
    BY <1>1, LeastNumber
  <2>2. m \in Nat /\ ~ \E visit : Walk(parent, visit, m)
    BY <2>1
  <2>3. m # 0
    <3>1. Walk(parent, [k \in 0 .. 0 |-> Roots(parent)], 0)
      BY DEF Walk, Roots
    <3> QED
      BY <2>2, <3>1
  <2>4. m - 1 \in Nat /\ m - 1 \notin Short
    BY <2>1, <2>2, <2>3
  <2>5. PICK visit : Walk(parent, visit, m - 1)
    BY <2>4
  <2> DEFINE longer ==
        [k \in 0 .. m |-> IF k < m THEN visit[k] ELSE Further(parent, visit[m - 1])]
  <2>6. Walk(parent, longer, m)
    <3>1. longer = [k \in 0 .. m |-> longer[k]]
      OBVIOUS
    <3>2. longer[0] = Roots(parent)
      BY <2>2, <2>3, <2>5 DEF Walk
    <3>3. ASSUME NEW k \in 1 .. m  PROVE longer[k] = Further(parent, longer[k - 1])
      <4>1. longer[k - 1] = visit[k - 1]
        BY <2>2
      <4>2. CASE k = m
        BY <2>2, <4>1, <4>2
      <4>3. CASE k # m
        <5>1. k \in 1 .. m - 1 /\ longer[k] = visit[k]
          BY <2>2, <4>3
        <5> QED
          BY <2>5, <4>1, <5>1 DEF Walk
      <4> QED
        BY <4>2, <4>3
    <3> QED
      BY <3>1, <3>2, <3>3 DEF Walk
  <2> QED
    BY <2>2, <2>6
<1> QED
  BY <1>1

\* So the function in Visited is what it says it is.
LEMMA VisitedIsAWalk ==
  ASSUME NEW parent
  PROVE  \E visit : /\ Walk(parent, visit, Cardinality(Datasets))
                    /\ Visited(parent) = visit[Cardinality(Datasets)]
<1> DEFINE N == Cardinality(Datasets)
           Body(visit) == [depth \in 0 .. N |->
             IF depth = 0 THEN {d \in Datasets : parent[d] = d}
             ELSE visit[depth - 1] \cup {d \in Datasets : parent[d] \in visit[depth - 1]}]
           chosen == CHOOSE visit : visit = Body(visit)
<1>1. N \in Nat
  BY NoValueAssumption, FS_CardinalityType
<1>2. PICK walk : Walk(parent, walk, N)
  BY <1>1, WalksExist
<1>3. walk = Body(walk)
  <2>1. \A k \in 0 .. N : walk[k] = Body(walk)[k]
    <3> HIDE DEF N
    <3>1. \A k \in 0 .. N : k = 0 \/ k \in 1 .. N
      BY <1>1
    <3> QED
      BY <1>1, <1>2, <3>1 DEF Walk, Roots, Further
  <2>2. walk = [k \in 0 .. N |-> walk[k]]
    BY <1>2 DEF Walk
  <2> QED
    BY <2>1, <2>2
<1>4. chosen = Body(chosen)
  <2> HIDE DEF Body
  <2> QED
    BY <1>3
<1>5. Visited(parent) = chosen[N]
  BY DEF Visited
<1>6. Walk(parent, chosen, N)
  <2> HIDE DEF chosen, N
  <2>1. chosen[0] = Roots(parent)
    BY <1>1, <1>4 DEF Roots
  <2>2. ASSUME NEW k \in 1 .. N  PROVE chosen[k] = Further(parent, chosen[k - 1])
    BY <1>1, <1>4 DEF Further
  <2>3. chosen = [k \in 0 .. N |-> chosen[k]]
    BY <1>4
  <2> QED
    BY <2>1, <2>2, <2>3 DEF Walk
<1> QED
  BY <1>5, <1>6

\* As long as something is missing, each step of the walk finds more.
LEMMA WalksGrow ==
  ASSUME NEW parent \in [Datasets -> Datasets], Rooted(parent),
         NEW n \in Nat, NEW visit, Walk(parent, visit, n)
  PROVE  \A k \in 0 .. n :
           /\ visit[k] \subseteq Datasets /\ Roots(parent) \subseteq visit[k]
           /\ visit[k] = Datasets \/ Cardinality(visit[k]) >= k
<1> DEFINE Good(k) ==
      /\ visit[k] \subseteq Datasets /\ Roots(parent) \subseteq visit[k]
      /\ visit[k] = Datasets \/ Cardinality(visit[k]) >= k
    Bad == {k \in 0 .. n : ~Good(k)}
<1>1. Good(0)
  <2>1. visit[0] = Roots(parent) /\ IsFiniteSet(Roots(parent))
    <3>1. Roots(parent) \in SUBSET Datasets
      BY DEF Roots
    <3> QED
      BY <3>1, NoValueAssumption, FS_Subset DEF Walk
  <2> QED
    BY <2>1, FS_CardinalityType DEF Roots
<1>2. ASSUME NEW k \in 1 .. n, Good(k - 1)  PROVE Good(k)
  <2>1. visit[k] = visit[k - 1] \cup {d \in Datasets : parent[d] \in visit[k - 1]}
    BY DEF Walk, Further
  <2>2. visit[k - 1] \subseteq visit[k] /\ visit[k] \subseteq Datasets
    BY <1>2, <2>1
  <2>3. CASE visit[k - 1] = Datasets
    BY <1>2, <2>2, <2>3
  <2>4. CASE visit[k - 1] # Datasets
    <3>1. PICK d \in Datasets \ visit[k - 1] :
            parent[d] = d \/ parent[d] \notin Datasets \ visit[k - 1]
      <4>1. Datasets \ visit[k - 1] # {} /\ Datasets \ visit[k - 1] \in SUBSET Datasets
        BY <1>2, <2>4
      <4> QED
        BY <4>1 DEF Rooted
    <3>2. d \in visit[k]
      <4>1. parent[d] # d
        BY <1>2, <3>1 DEF Roots
      <4>2. parent[d] \in Datasets
        BY <3>1
      <4> QED
        BY <2>1, <3>1, <4>1, <4>2
    <3>3. IsFiniteSet(visit[k]) /\ IsFiniteSet(visit[k - 1])
      BY <1>2, <2>2, NoValueAssumption, FS_Subset
    <3>4. Cardinality(visit[k - 1] \cup {d}) = Cardinality(visit[k - 1]) + 1
      BY <3>1, <3>3, FS_AddElement
    <3>5. visit[k - 1] \cup {d} \in SUBSET visit[k]
      BY <2>2, <3>2
    <3>6. Cardinality(visit[k]) >= Cardinality(visit[k - 1]) + 1
      BY <3>3, <3>4, <3>5, FS_Subset
    <3>7. Cardinality(visit[k - 1]) >= k - 1
      BY <1>2, <2>4
    <3>8. Cardinality(visit[k]) \in Nat /\ Cardinality(visit[k - 1]) \in Nat
      BY <3>3, FS_CardinalityType
    <3>9. Cardinality(visit[k]) >= k
      BY <3>6, <3>7, <3>8
    <3> QED
      BY <1>2, <2>2, <3>9
  <2> QED
    BY <2>3, <2>4
<1>3. ASSUME Bad # {}  PROVE FALSE
  <2>1. PICK m \in Bad : \A k \in Bad : m <= k
    <3>1. Bad \in SUBSET Nat
      OBVIOUS
    <3> QED
      BY <1>3, <3>1, LeastNumber
  <2>2. m \in 0 .. n /\ ~Good(m)
    BY <2>1
  <2> HIDE DEF Good
  <2>3. m # 0
    BY <1>1, <2>2
  <2>4. m \in 1 .. n /\ m - 1 \in 0 .. n /\ m - 1 \notin Bad
    BY <2>1, <2>2, <2>3
  <2>5. Good(m - 1)
    BY <2>4
  <2> QED
    BY <1>2, <2>2, <2>4, <2>5
<1> QED
  BY <1>3

\* Every dataset of a tree is visited.
LEMMA TreesAreVisited ==
  ASSUME NEW parent \in [Datasets -> Datasets], Rooted(parent)
  PROVE  Visited(parent) = Datasets
<1>1. Cardinality(Datasets) \in Nat
  BY NoValueAssumption, FS_CardinalityType
<1>2. PICK visit : /\ Walk(parent, visit, Cardinality(Datasets))
                   /\ Visited(parent) = visit[Cardinality(Datasets)]
  BY VisitedIsAWalk
<1>3. /\ Visited(parent) \in SUBSET Datasets
      /\ \/ Visited(parent) = Datasets
         \/ Cardinality(Visited(parent)) >= Cardinality(Datasets)
  BY <1>1, <1>2, WalksGrow
<1>4. /\ Cardinality(Visited(parent)) <= Cardinality(Datasets)
      /\ Cardinality(Visited(parent)) = Cardinality(Datasets) =>
           Visited(parent) = Datasets
      /\ Cardinality(Visited(parent)) \in Nat
  BY <1>3, NoValueAssumption, FS_Subset, FS_CardinalityType
<1> QED
  BY <1>1, <1>3, <1>4

-----------------------------------------------------------------------------
(* The theorems                                                            *)

\* What was received, if anything: an answer.
Received == answer = [kind |-> "none"] \/ answer \in Answers

\* An answer has the fields of its kind.
LEMMA KindsOfAnswers ==
  ASSUME NEW a \in Answers
  PROVE  /\ a.kind = "system" => a \in SystemAnswers
         /\ a.kind = "pool" => a \in PoolAnswers
         /\ a.kind = "dataset" => a \in DatasetAnswers
         /\ a.kind = "vm" => a \in VMAnswers
         /\ a.kind = "memory" => a \in MemoryAnswers
         /\ a.kind = "cputemp" => a \in CpuTempAnswers
         /\ a.kind = "update" => a \in UpdateAnswers
         /\ a.kind = "app" => a \in AppAnswers
         /\ a.kind = "datasets" => a \in TreeAnswers
         /\ a.kind = "alerts" => a \in AlertAnswers
         /\ a.kind = "time" => a \in TimeAnswers
<1>1. /\ \A b \in SystemAnswers : b.kind = "system"
      /\ \A b \in PoolAnswers : b.kind = "pool"
      /\ \A b \in DatasetAnswers : b.kind = "dataset"
      /\ \A b \in VMAnswers : b.kind = "vm"
      /\ \A b \in MemoryAnswers : b.kind = "memory"
      /\ \A b \in CpuTempAnswers : b.kind = "cputemp"
  BY DEF SystemAnswers, PoolAnswers, DatasetAnswers, VMAnswers, MemoryAnswers,
         CpuTempAnswers
<1>2. /\ \A b \in UpdateAnswers : b.kind = "update"
      /\ \A b \in AppAnswers : b.kind = "app"
      /\ \A b \in TreeAnswers : b.kind = "datasets"
      /\ \A b \in AlertAnswers : b.kind = "alerts"
      /\ \A b \in TimeAnswers : b.kind = "time"
  BY DEF UpdateAnswers, AppAnswers, TreeAnswers, AlertAnswers, TimeAnswers
<1> QED
  BY <1>1, <1>2 DEF Answers

\* Only answers are received.
LEMMA ReceivedStays == ValuesSpec => []Received
<1>1. ValuesInit => Received
  BY DEF ValuesInit, Received
<1>2. Received /\ [ValuesNext]_answer => Received'
  BY DEF Received, ValuesNext, Receive
<1> QED
  BY <1>1, <1>2, PTL DEF ValuesSpec

\* The value functions of sensor.py, binary_sensor.py, switch.py, update.py and
\* coordinator.py raise on the malformed answers that the property names and on no other,
\* whatever the server leaves out, and what is shown of an answer fits together: for any
\* numbers, versions, alerts, cores and trees of datasets.
THEOREM ShownValuesAreSound == ValuesSpec => []ValuesAreSound
<1>1. ASSUME Received  PROVE ValuesAreSound
  <2>1. CASE answer = [kind |-> "none"]
    BY <2>1 DEF ValuesAreSound
  <2>2. CASE answer \in Answers
    <3>1. /\ answer.kind = "system" => SystemIsSound(answer)
          /\ answer.kind = "pool" => PoolIsSound(answer)
          /\ answer.kind = "vm" => VMIsSound(answer)
          /\ answer.kind = "dataset" => DatasetIsSound(answer)
          /\ answer.kind = "memory" => MemoryIsSound(answer.graph, answer.physmem)
          /\ answer.kind = "cputemp" => CpuTempIsSound(answer)
          /\ answer.kind = "update" => UpdateIsSound(answer)
      BY <2>2, KindsOfAnswers, SystemsAreSound, PoolsAreSound, VMsAreSound,
         DatasetsAreSound, MemoriesAreSound, CpuTempsAreSound, UpdatesAreSound
    <3>2. answer.kind = "app" /\ LatestAppVersion(answer) # answer.installed =>
            answer.upgrade_available /\ answer.latest \in Versions
      BY <2>2, KindsOfAnswers, AppsAreSound
    <3>3. answer.kind = "datasets" =>
            Flattened(answer.parent) = IF answer.parent = None THEN Error ELSE Datasets
      <4>1. answer.kind = "datasets" =>
              \/ answer.parent = None
              \/ answer.parent \in [Datasets -> Datasets] /\ Rooted(answer.parent)
        BY <2>2, KindsOfAnswers DEF TreeAnswers, Trees
      <4> QED
        BY <4>1, TreesAreVisited DEF Flattened
    <3>4. answer.kind = "alerts" => AlertsAreSound(answer.alerts)
      <4>1. ASSUME answer.alerts = None  PROVE AlertsAreSound(answer.alerts)
        BY <4>1 DEF AlertsAreSound, AlertsActive, ByLevel, CriticalAlert
      <4>2. ASSUME answer.kind = "alerts", answer.alerts # None
            PROVE  \E n \in 0 .. MaxAlerts :
                     answer.alerts \in [1 .. n -> [level : Levels, dismissed : BOOLEAN]]
        BY <2>2, <4>2, KindsOfAnswers DEF AlertAnswers, SeqOf
      <4>3. ASSUME NEW n \in 0 .. MaxAlerts, answer.alerts # None,
                   answer.alerts \in [1 .. n -> [level : Levels, dismissed : BOOLEAN]]
            PROVE  AlertsAreSound(answer.alerts)
        BY <4>3, NumbersAssumption, AlertsAreCounted
      <4> QED
        BY <4>1, <4>2, <4>3
    <3> QED
      BY <3>1, <3>2, <3>3, <3>4 DEF ValuesAreSound
  <2> QED
    BY <1>1, <2>1, <2>2 DEF Received
<1> QED
  BY ReceivedStays, <1>1, PTL

\* A time of whole seconds goes through ejson.py and epoch_ms_to_datetime() unchanged, in
\* both directions, what the client sends of any time comes back as it was sent, and a
\* time of day is decoded exactly or refused: for every time, before the epoch as well.
THEOREM TimesAreShownWell == ValuesSpec => []WholeSecondsAreExact
<1>1. ASSUME Received, answer.kind = "time"  PROVE WholeSecondsAreExact
  <2>1. answer.ms \in Int
    <3>1. answer \in Answers
      BY <1>1 DEF Received
    <3>2. answer \in TimeAnswers
      BY <1>1, <3>1, KindsOfAnswers
    <3> QED
      BY <3>2, NumbersAssumption DEF TimeAnswers
  <2>2. TimeFits(answer.ms)
    BY <2>1, TimesFit
  <2> QED
    BY <2>2 DEF TimeFits, WholeSecondsAreExact
<1>2. Received => WholeSecondsAreExact
  BY <1>1 DEF WholeSecondsAreExact
<1> QED
  BY ReceivedStays, <1>2, PTL

=============================================================================
