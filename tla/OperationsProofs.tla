--------------------------- MODULE OperationsProofs ---------------------------
(***************************************************************************)
(* What operates the ad server: the configuration it loads, the fleet of    *)
(* agents that watches it, the fuse that stops it, and the controller that  *)
(* moves its traffic.  They share nothing; each has its part here.          *)
(*                                                                         *)
(* THE CONTROL PLANE. For any files, pages and number of requests that scan *)
(* at once, however late a read is, and whatever write or scan fails: a     *)
(* snapshot in use is what of the table decodes, once that has been left    *)
(* alone for the TTL, a scan and the lag of a read; and a scan that no      *)
(* other overtook never replaces an item by an older version of it, unless  *)
(* it missed the one there is.                                              *)
(*                                                                         *)
(* The first compares ages: what a scan has read is the table's if the last *)
(* write came before the scan (ScanTrue), and what is cached is if the last *)
(* write is older than the snapshot by the time of a scan (CacheTrue).  The *)
(* second compares versions, page by page: versions in the table only grow  *)
(* (Behind), what a read may return is older and goes with the lag          *)
(* (Lagging), so that what a scan has read and not missed is no older than  *)
(* what was cached when it began, and still is (NotOlder).                  *)
(*                                                                         *)
(* THE FLEET. For any agents, workflows and outages, and whatever run dies: *)
(* no step is celebrated, and no agent retried or raised, more than once,   *)
(* and once more for every loss and every run that was queued and began on  *)
(* older files than the committed ones.  The bounds are not inductive: they *)
(* say nothing of what a run remembers.  What was sent is accounted for by  *)
(* what the runner's files say was sent, and by the losses and the runs on  *)
(* older files (Climbing, Celebrating); since such a run may be forgotten   *)
(* whole, or be merged, what it does is within what the committed files     *)
(* remember as well (OnOlderFiles); between runs the two are the same.      *)
(* That nothing is recorded that was not so rests on a fact about observations:  *)
(* a source that does not answer hides, and never invents (ObservedIsSo).   *)
(*                                                                         *)
(* THE FUSE. For any alarms, deliveries and resets, and whatever call       *)
(* fails: once no trip or reset of the ad fuse is half done, the recorded   *)
(* state is what the ad server does, unless something disturbed the last of *)
(* them.  That is not inductive: it says nothing of the two calls of a trip *)
(* or a reset while they are made.  Undisturbed, only one of the two is     *)
(* under way (Apart), and the concurrency is already what its second call   *)
(* will record (FirstCallMade).                                             *)
(*                                                                         *)
(* THE CONTROLLER. For any arms and shares, whatever they earn or breach    *)
(* and however often it runs: as long as every log had the arms of the      *)
(* file, that is one that Validate takes, the control keeps the buckets it  *)
(* had, and only those near a boundary change arms.  Inductive is that the  *)
(* ranges tile the buckets, in the order of the arms, the last of which may *)
(* be short of the minimum by half a bucket for each arm that was rounded   *)
(* (Tiles), and what a proposal made of a tiled file does to it (Proposed). *)
(* The work is in one run: the room is given out within the bounds, but for *)
(* the rounding (WaterFits), ranges laid out along shares tile again        *)
(* (LayoutTiles), and since where an arm ends is a sum of the shares up to  *)
(* it and BucketCount less the sum of those after it, it moves by no more   *)
(* than the lesser count of limits, and half a bucket for each arm          *)
(* (EndsNear).  Validate's cursor is compared with the split it stands for  *)
(* over any experiment (ValidateExact).                                     *)
(*                                                                          *)
(* Of a controller in shadow, for any estimates of any number of days: it   *)
(* is promoted only on the evidence the verdict promises.  Evaluate is a    *)
(* fold and an estimate a sum: recursive functions, each of which is the    *)
(* function it says it is once one is known to exist (FoldExists), by       *)
(* induction over the subsets of a finite set, which is here the absence    *)
(* of a smallest exception (SetsInductive).  A sum does not depend on the   *)
(* order its terms are taken in (SumStep), the fold takes the last day      *)
(* last (LastDay), and so day by day the one counts what the other adds     *)
(* (EvaluateCounts).                                                        *)
(***************************************************************************)
EXTENDS ControlPlane, Fleet, CostFuse, YieldController, FiniteSetTheorems,
        WellFoundedInduction, TLAPS

------------------------------------------------------------------------------
\* THE CONTROL PLANE

\* The items on the pages that the scan for g has read.
Read(g) == {i \in Items : \E p \in DOMAIN Pages : p < load[g].page /\ i \in Pages[p]}

ScanTrue ==
    \A g \in Loads : load[g] # None /\ quiet > load[g].ticks + ReadLag =>
        \A i \in Read(g) : load[g].got[i] = InUse[i]

CacheTrue == age < TTL /\ quiet > age + ScanTicks + ReadLag => cached = InUse

Behind ==
    \A i \in Items :
        /\ table[i] <= version
        /\ cached[i] <= table[i]
        /\ \A g \in Loads : load[g] # None => load[g].got[i] <= table[i]

Lagging ==
    \A i \in Items :
        /\ \A v \in was[i] : v <= table[i]
        /\ quiet > ReadLag => was[i] = {}

NotOlder ==
    \A g \in Loads : load[g] # None /\ ~load[g].overtaken =>
        \A i \in Read(g) \ load[g].missed : cached[i] <= load[g].got[i]

ControlPlaneInv == TypeOK /\ ScanTrue /\ CacheTrue /\ Behind /\ Lagging /\ NotOlder

------------------------------------------------------------------------------
LEMMA ConfigType ==
  ASSUME NEW C \in Configs, NEW i \in Items
  PROVE  C[i] \in Nat
<1>1. C[i] \in {0} \cup Versions
  BY DEF Configs
<1>2. Versions \subseteq Nat
  BY FilesAssumption DEF Versions
<1>3. CASE C[i] = 0
  BY <1>3
<1>4. CASE C[i] \in Versions
  BY <1>2, <1>4
<1> QED
  BY <1>1, <1>3, <1>4

LEMMA WrittenType == ASSUME NEW v \in Versions PROVE Written(v) \in Configs
BY DEF Written, Configs

\* What is decoded is what is there, or nothing.
LEMMA InUseType ==
  ASSUME table \in Configs
  PROVE  /\ InUse \in Configs
         /\ \A i \in Items : table[i] \in Nat /\ InUse[i] <= table[i]
<1>1. \A i \in Items : table[i] \in Nat
  BY ConfigType
<1> QED
  BY <1>1 DEF InUse, Applied, Configs

\* A scan without pages left has read everything.
LEMMA ScannedAll ==
  ASSUME TypeOK, NEW g \in Loads, Scanned(g)
  PROVE  Read(g) = Items
<1>1. SUFFICES ASSUME NEW i \in Items PROVE i \in Read(g)
  BY DEF Read
<1>2. PICK p \in DOMAIN Pages : i \in Pages[p]
  BY PagesAssumption
<1>3. load[g] \in Scans /\ load[g].page > Len(Pages)
  BY DEF Scanned, TypeOK
<1>4. p \in 1..Len(Pages) /\ load[g].page \in Nat /\ Len(Pages) \in Nat
  BY <1>3, PagesAssumption DEF Scans
<1> QED
  BY <1>2, <1>3, <1>4 DEF Read

LEMMA ControlPlaneInitHolds == Init => ControlPlaneInv
<1> SUFFICES ASSUME Init PROVE ControlPlaneInv
  OBVIOUS
<1>1. 1 \in Versions
  BY FilesAssumption DEF Versions
<1>2. Written(1) \in Configs
  BY <1>1, WrittenType
<1>3. TypeOK
  <2>1. 0 \in 0..TTL /\ 0 \in 0..(TTL + ScanTicks + ReadLag + 1)
    BY TicksAssumption
  <2> QED
    BY <1>1, <1>2, <2>1, InUseType DEF Init, TypeOK
<1>4. \A i \in Items : Written(1)[i] <= 1
  BY DEF Written
<1>5. \A i \in Items : Written(1)[i] \in Nat
  BY <1>2, ConfigType
<1>6. \A g \in Loads : load[g] = None
  BY DEF Init
<1>7. Behind
  BY <1>2, <1>4, <1>5, <1>6, InUseType DEF Init, Behind
<1> QED
  BY <1>3, <1>6, <1>7 DEF Init, ControlPlaneInv, ScanTrue, CacheTrue, Lagging, NotOlder

------------------------------------------------------------------------------
LEMMA SeedHolds == ASSUME ControlPlaneInv, NEW v \in Versions, Seed(v) PROVE ControlPlaneInv'
<1> USE DEF ControlPlaneInv
<1>1. TypeOK'
  BY FilesAssumption DEF Seed, TypeOK, Versions
<1>2. version' \in Nat /\ version \in Nat /\ version <= version'
  BY FilesAssumption DEF Seed, TypeOK, Versions
<1>3. \A i \in Items : table[i] \in Nat
  BY ConfigType DEF TypeOK
<1>4. Behind'
  BY <1>2, <1>3 DEF Behind, Seed
<1> QED
  BY <1>1, <1>4 DEF Seed, ScanTrue, CacheTrue, Lagging, NotOlder, Read, InUse

LEMMA SeedItemHolds == ASSUME ControlPlaneInv, SeedItem PROVE ControlPlaneInv'
<1> USE DEF ControlPlaneInv
<1>1. seeding \in Seq(Items) /\ seeding # <<>>
  BY DEF SeedItem, TypeOK
<1>2. Head(seeding) \in Items /\ Tail(seeding) \in Seq(Items)
  BY <1>1
<1> DEFINE i == Head(seeding)
<1>3. CASE i \in Loopback
  <2>1. UNCHANGED <<table, was, quiet, version, cached, age, load>> /\ seeding' = Tail(seeding)
    BY <1>3 DEF SeedItem
  <2>2. TypeOK'
    BY <1>2, <2>1 DEF TypeOK
  <2> QED
    BY <2>1, <2>2 DEF ScanTrue, CacheTrue, Behind, Lagging, NotOlder, Read, InUse
<1>4. CASE i \notin Loopback
  <2>1. /\ table' = [table EXCEPT ![i] = version]
        /\ was' = [was EXCEPT ![i] = @ \cup {table[i]}]
        /\ quiet' = 0
        /\ seeding' = Tail(seeding)
        /\ UNCHANGED <<version, cached, age, load>>
    BY <1>4 DEF SeedItem
  <2>2. TypeOK'
    <3>1. table' \in Configs
      BY <1>2, <2>1 DEF TypeOK, Configs
    <3>2. 0 \in 0..(TTL + ScanTicks + ReadLag + 1)
      BY TicksAssumption
    <3>3. was' \in [Items -> SUBSET ({0} \cup Versions)]
      <4>1. was[i] \cup {table[i]} \in SUBSET ({0} \cup Versions)
        BY <1>2 DEF TypeOK, Configs
      <4> QED
        BY <1>2, <2>1, <4>1 DEF TypeOK
    <3> QED
      BY <1>2, <2>1, <3>1, <3>2, <3>3 DEF TypeOK
  <2>3. version \in Nat /\ \A j \in Items : table[j] \in Nat /\ cached[j] \in Nat
    BY ConfigType, FilesAssumption DEF TypeOK, Versions
  <2>4. \A j \in Items : table[j] <= table'[j] /\ table'[j] <= version /\ table'[j] \in Nat
    BY <1>2, <2>1, <2>3 DEF Behind, TypeOK, Configs
  <2>5. \A g \in Loads, j \in Items : load[g] # None => load[g].got[j] \in Nat
    BY ConfigType DEF TypeOK, Scans
  <2>6. Behind'
    BY <2>1, <2>3, <2>4, <2>5 DEF Behind
  <2>7. ScanTrue'
    <3>1. \A g \in Loads : load[g] # None => load[g].ticks \in Nat
      BY DEF TypeOK, Scans
    <3> QED
      BY <2>1, <3>1, TicksAssumption DEF ScanTrue
  <2>8. CacheTrue'
    <3>1. age \in Nat /\ ScanTicks \in Nat
      BY TicksAssumption DEF TypeOK
    <3> QED
      BY <2>1, <3>1, TicksAssumption DEF CacheTrue
  <2>9. Lagging'
    <3>1. \A j \in Items : was[j] \subseteq Nat
      BY FilesAssumption DEF TypeOK, Versions
    <3>2. \A j \in Items : \A v \in was[j] : v <= table'[j]
      BY <2>3, <2>4, <3>1 DEF Lagging
    <3>3. \A j \in Items : \A v \in was'[j] : v \in was[j] \/ v = table[j]
      BY <1>2, <2>1 DEF TypeOK
    <3> QED
      BY <2>1, <2>4, <3>2, <3>3, TicksAssumption DEF Lagging
  <2> QED
    BY <2>1, <2>2, <2>6, <2>7, <2>8, <2>9 DEF NotOlder, Read
<1> QED
  BY <1>3, <1>4

LEMMA SeedStopsHolds == ASSUME ControlPlaneInv, SeedStops PROVE ControlPlaneInv'
BY DEF SeedStops, ControlPlaneInv, TypeOK, ScanTrue, CacheTrue, Behind, Lagging, NotOlder,
       Read, InUse

------------------------------------------------------------------------------
LEMMA MissHolds == ASSUME ControlPlaneInv, NEW g \in Loads, Miss(g) PROVE ControlPlaneInv'
<1> USE DEF ControlPlaneInv
<1> DEFINE s == [page |-> 1, got |-> [i \in Items |-> 0], missed |-> {},
                 ticks |-> 0, overtaken |-> FALSE]
<1>1. load' = [load EXCEPT ![g] = s]
      /\ UNCHANGED <<table, was, seeding, version, cached, age, quiet>>
  BY DEF Miss
<1>2. s \in Scans
  <2>1. [i \in Items |-> 0] \in Configs
    BY DEF Configs
  <2>2. 1 \in 1..(Len(Pages) + 1) /\ 0 \in 0..ScanTicks
    BY TicksAssumption, PagesAssumption
  <2> QED
    BY <2>1, <2>2 DEF Scans
<1>3. TypeOK'
  BY <1>1, <1>2 DEF TypeOK
<1>4. load'[g] = s /\ \A h \in Loads \ {g} : load'[h] = load[h]
  BY <1>1 DEF TypeOK
<1>5. Read(g)' = {}
  BY <1>4, PagesAssumption DEF Read
<1>6. \A h \in Loads \ {g} : Read(h)' = Read(h)
  BY <1>4 DEF Read
<1>7. \A i \in Items : table[i] \in Nat
  BY ConfigType DEF TypeOK
<1>8. Behind'
  <2>1. \A i \in Items : load'[g].got[i] <= table[i]
    BY <1>4, <1>7
  <2> QED
    BY <1>1, <1>4, <2>1 DEF Behind
<1>9. ScanTrue' /\ NotOlder'
  BY <1>1, <1>4, <1>5, <1>6 DEF ScanTrue, NotOlder, InUse
<1> QED
  BY <1>1, <1>3, <1>8, <1>9 DEF CacheTrue, Lagging, InUse

\* A scan with another page.
LEMMA PageAdded ==
  ASSUME NEW c \in Scans, NEW got, NEW missed, NEW n
  PROVE  [c EXCEPT !.got = got, !.missed = missed, !.page = n] =
            [page |-> n, got |-> got, missed |-> missed, ticks |-> c.ticks,
             overtaken |-> c.overtaken]
<1> DEFINE Fields == {"page", "got", "missed", "ticks", "overtaken"}
<1>1. DOMAIN c = Fields
  BY DEF Scans
<1>2. [c EXCEPT !.got = got, !.missed = missed, !.page = n] =
         [x \in Fields |-> CASE x = "got" -> got [] x = "missed" -> missed [] x = "page" -> n
                             [] x = "ticks" -> c.ticks [] OTHER -> c.overtaken]
  BY <1>1
<1> QED
  BY <1>2

LEMMA ScanHolds == ASSUME ControlPlaneInv, NEW g \in Loads, Scan(g) PROVE ControlPlaneInv'
<1> USE DEF ControlPlaneInv
<1> DEFINE n == load[g].page
<1>1. load[g] \in Scans /\ n \in 1..Len(Pages)
  <2>1. load[g] # None /\ n <= Len(Pages)
    BY DEF Scan
  <2> QED
    BY <2>1, PagesAssumption DEF TypeOK, Scans
<1>0. PICK read \in [Items -> {0} \cup Versions] :
        /\ \A i \in Items : read[i] \in IF i \in Pages[n] THEN Reads(i) ELSE {0}
        /\ load' = [load EXCEPT
              ![g].got = [i \in Items |-> IF i \in Pages[n] THEN Applied(i, read[i])
                                          ELSE load[g].got[i]],
              ![g].missed = @ \cup {i \in Pages[n] : Applied(i, read[i]) # table[i]},
              ![g].page = @ + 1]
  BY DEF Scan
<1> DEFINE got == [i \in Items |-> IF i \in Pages[n] THEN Applied(i, read[i]) ELSE load[g].got[i]]
           missed == load[g].missed \cup {i \in Pages[n] : Applied(i, read[i]) # table[i]}
           s == [page |-> n + 1, got |-> got, missed |-> missed, ticks |-> load[g].ticks,
                 overtaken |-> load[g].overtaken]
<1>2. load' = [load EXCEPT ![g] = s]
  <2>1. [load[g] EXCEPT !.got = got, !.missed = missed, !.page = n + 1] = s
    BY <1>1, PageAdded
  <2>2. load \in [Loads -> {None} \cup Scans]
    BY DEF TypeOK
  <2> HIDE DEF ControlPlaneInv
  <2>3. load' = [load EXCEPT ![g] =
                    [load[g] EXCEPT !.got = got, !.missed = missed, !.page = n + 1]]
    BY <1>0, <2>2
  <2> QED
    BY <2>1, <2>3
<1>3. UNCHANGED <<table, was, seeding, version, cached, age, quiet>>
  BY DEF Scan
<1>4. s \in Scans
  <2>1. got \in Configs
    BY <1>1 DEF TypeOK, Scans, Configs, Applied
  <2>3. missed \subseteq Items
    BY <1>1, PagesAssumption DEF Scans
  <2> HIDE DEF got, missed
  <2>2. n + 1 \in 1..(Len(Pages) + 1)
    BY <1>1, PagesAssumption
  <2> QED
    BY <1>1, <2>1, <2>2, <2>3 DEF Scans
<1>5. TypeOK'
  BY <1>2, <1>3, <1>4 DEF TypeOK
<1>6. load'[g] = s /\ \A h \in Loads \ {g} : load'[h] = load[h]
  BY <1>2 DEF TypeOK
<1>7. Read(g)' = Read(g) \cup {i \in Items : i \in Pages[n]}
  <2>1. \A p \in DOMAIN Pages : p < load'[g].page <=> p < n \/ p = n
    BY <1>1, <1>6, PagesAssumption
  <2>2. n \in DOMAIN Pages
    BY <1>1, PagesAssumption
  <2> QED
    BY <2>1, <2>2 DEF Read
<1>8. \A h \in Loads \ {g} : Read(h)' = Read(h)
  BY <1>6 DEF Read
<1>9. \A i \in Items : /\ table[i] \in Nat /\ cached[i] \in Nat /\ cached[i] <= table[i]
                       /\ load[g].got[i] \in Nat /\ load[g].got[i] <= table[i]
  BY <1>1, ConfigType DEF TypeOK, Behind, Scan, Scans
<1>10. /\ \A i \in Items : got[i] = IF i \in Pages[n] THEN Applied(i, read[i])
                                  ELSE load[g].got[i]
       /\ \A i \in Items \ missed : got[i] = IF i \in Pages[n] THEN table[i]
                                            ELSE load[g].got[i]
       /\ load[g].missed \subseteq missed
  OBVIOUS
<1> HIDE DEF got, missed
\* A read returns what is there or, within the lag, something older.
<1>14. \A i \in Items : i \in Pages[n] =>
          /\ Applied(i, read[i]) \in Nat /\ Applied(i, read[i]) <= table[i]
          /\ quiet > ReadLag => Applied(i, read[i]) = InUse[i]
  <2> SUFFICES ASSUME NEW i \in Items, i \in Pages[n]
               PROVE  /\ Applied(i, read[i]) \in Nat /\ Applied(i, read[i]) <= table[i]
                      /\ quiet > ReadLag => Applied(i, read[i]) = InUse[i]
    OBVIOUS
  <2>1. read[i] = table[i] \/ read[i] \in was[i]
    BY <1>0 DEF Reads
  <2>2. read[i] \in Nat /\ read[i] <= table[i]
    <3>1. {0} \cup Versions \subseteq Nat
      BY FilesAssumption DEF Versions
    <3>2. was[i] \in SUBSET ({0} \cup Versions)
      BY DEF TypeOK
    <3>3. \A v \in was[i] : v <= table[i]
      BY DEF Lagging
    <3> QED
      BY <1>9, <2>1, <3>1, <3>2, <3>3
  <2>3. quiet > ReadLag => read[i] = table[i]
    BY <2>1 DEF Lagging
  <2> QED
    BY <1>9, <2>2, <2>3 DEF Applied, InUse
<1>11. Behind'
  <2>1. \A i \in Items : load'[g].got[i] <= table[i]
    BY <1>6, <1>9, <1>10, <1>14
  <2> QED
    BY <1>3, <1>6, <2>1 DEF Behind
<1>12. ScanTrue'
  <2>1. ASSUME quiet > load[g].ticks + ReadLag PROVE \A i \in Read(g)' : got[i] = InUse[i]
    <3>1. \A i \in Read(g) : load[g].got[i] = InUse[i]
      BY <2>1 DEF ScanTrue, Scan
    <3>2. quiet > ReadLag
      BY <1>1, <2>1, TicksAssumption DEF Scans, TypeOK
    <3> QED
      BY <1>7, <1>10, <1>14, <3>1, <3>2 DEF Read
  <2>2. InUse' = InUse
    BY <1>3 DEF InUse
  <2> QED
    BY <1>3, <1>6, <1>8, <2>1, <2>2 DEF ScanTrue
<1>13. NotOlder'
  <2>1. ASSUME ~load[g].overtaken PROVE \A i \in Read(g)' \ missed : cached[i] <= got[i]
    <3>1. \A i \in Read(g) \ load[g].missed : cached[i] <= load[g].got[i]
      BY <2>1 DEF NotOlder, Scan
    <3> QED
      BY <1>7, <1>9, <1>10, <3>1 DEF Read
  <2> QED
    BY <1>3, <1>6, <1>8, <2>1 DEF NotOlder
<1> QED
  BY <1>3, <1>5, <1>11, <1>12, <1>13 DEF CacheTrue, Lagging, InUse

LEMMA StoreHolds == ASSUME ControlPlaneInv, NEW g \in Loads, Store(g) PROVE ControlPlaneInv'
<1> USE DEF ControlPlaneInv
<1>1. load[g] # None /\ load[g] \in Scans /\ Read(g) = Items
  BY ScannedAll DEF Store, Scanned, TypeOK
<1>2. /\ cached' = load[g].got
      /\ age' = 0
      /\ UNCHANGED <<table, was, seeding, version, quiet>>
  BY DEF Store
<1>3. \A h \in Loads :
         \/ load'[h] = None
         \/ load[h] # None /\ load'[h] = [load[h] EXCEPT !.overtaken = TRUE]
  BY DEF Store
<1>4. \A h \in Loads : load'[h] # None =>
         /\ load[h] # None
         /\ load'[h] \in Scans
         /\ load'[h].page = load[h].page /\ load'[h].got = load[h].got
         /\ load'[h].ticks = load[h].ticks /\ load'[h].overtaken
  <2> SUFFICES ASSUME NEW h \in Loads, load'[h] # None
               PROVE  /\ load[h] # None
                      /\ load'[h] \in Scans
                      /\ load'[h].page = load[h].page /\ load'[h].got = load[h].got
                      /\ load'[h].ticks = load[h].ticks /\ load'[h].overtaken
    OBVIOUS
  <2>1. load[h] # None /\ load'[h] = [load[h] EXCEPT !.overtaken = TRUE]
    BY <1>3
  <2>2. load[h] \in Scans
    BY <2>1 DEF TypeOK
  <2> HIDE DEF ControlPlaneInv
  <2> QED
    BY <2>1, <2>2 DEF Scans
<1>5. TypeOK'
  <2>1. load' \in [Loads -> {None} \cup Scans]
    <3>1. DOMAIN load' = Loads /\ load' = [h \in Loads |-> load'[h]]
      BY DEF Store
    <3>2. \A h \in Loads : load'[h] \in {None} \cup Scans
      BY <1>4
    <3> QED
      BY <3>1, <3>2
  <2>2. cached' \in Configs /\ age' \in 0..TTL
    BY <1>1, <1>2, TicksAssumption DEF Scans
  <2> QED
    BY <1>2, <2>1, <2>2 DEF TypeOK
<1>6. \A h \in Loads : load'[h] # None => Read(h)' = Read(h)
  BY <1>4 DEF Read
<1>7. ScanTrue'
  BY <1>2, <1>4, <1>6 DEF ScanTrue, InUse
<1>8. CacheTrue'
  <2>1. ASSUME quiet > 0 + ScanTicks + ReadLag PROVE cached' = InUse
    <3>1. quiet > load[g].ticks + ReadLag
      BY <1>1, <2>1, TicksAssumption DEF TypeOK, Scans
    <3>2. \A i \in Items : load[g].got[i] = InUse[i]
      BY <1>1, <3>1 DEF ScanTrue
    <3> QED
      BY <1>1, <1>2, <3>2 DEF TypeOK, Scans, Configs, InUse
  <2> QED
    BY <1>2, <2>1 DEF CacheTrue, InUse
<1>9. Behind'
  BY <1>1, <1>2, <1>4 DEF Behind
<1>10. NotOlder'
  BY <1>4 DEF NotOlder
<1> QED
  BY <1>2, <1>5, <1>7, <1>8, <1>9, <1>10 DEF Lagging

LEMMA ScanFailsHolds == ASSUME ControlPlaneInv, NEW g \in Loads, ScanFails(g) PROVE ControlPlaneInv'
<1> USE DEF ControlPlaneInv
<1>1. /\ load' = [load EXCEPT ![g] = None]
      /\ UNCHANGED <<table, was, seeding, version, cached, age, quiet>>
  BY DEF ScanFails
<1>2. TypeOK'
  BY <1>1 DEF TypeOK
<1>3. load'[g] = None /\ \A h \in Loads \ {g} : load'[h] = load[h] /\ Read(h)' = Read(h)
  BY <1>1 DEF TypeOK, Read
<1> QED
  BY <1>1, <1>2, <1>3 DEF ScanTrue, CacheTrue, Behind, Lagging, NotOlder, InUse

LEMMA TickHolds == ASSUME ControlPlaneInv, Tick PROVE ControlPlaneInv'
<1> USE DEF ControlPlaneInv
<1>1. UNCHANGED <<table, seeding, version, cached>> /\ InUse' = InUse
  BY DEF Tick, InUse
<1>2. /\ age \in 0..TTL /\ age' = IF age < TTL THEN age + 1 ELSE age
      /\ quiet \in 0..(TTL + ScanTicks + ReadLag + 1)
      /\ quiet' = IF quiet < TTL + ScanTicks + ReadLag + 1 THEN quiet + 1 ELSE quiet
  BY DEF Tick, Upto, TypeOK
<1>3. \A h \in Loads :
         IF load[h] = None THEN load'[h] = None
         ELSE load'[h] = [load[h] EXCEPT !.ticks = @ + 1] /\ load[h].ticks < ScanTicks
  BY DEF Tick
<1>4. \A h \in Loads : load'[h] # None =>
         /\ load[h] # None /\ load[h].ticks \in Nat /\ load[h].ticks < ScanTicks
         /\ load'[h] \in Scans
         /\ load'[h].page = load[h].page /\ load'[h].got = load[h].got
         /\ load'[h].ticks = load[h].ticks + 1 /\ load'[h].overtaken = load[h].overtaken
         /\ load'[h].missed = load[h].missed
  <2> SUFFICES ASSUME NEW h \in Loads, load'[h] # None
               PROVE  /\ load[h] # None /\ load[h].ticks \in Nat /\ load[h].ticks < ScanTicks
                      /\ load'[h] \in Scans
                      /\ load'[h].page = load[h].page /\ load'[h].got = load[h].got
                      /\ load'[h].ticks = load[h].ticks + 1
                      /\ load'[h].overtaken = load[h].overtaken
                      /\ load'[h].missed = load[h].missed
    OBVIOUS
  <2>1. /\ load[h] # None
        /\ load'[h] = [load[h] EXCEPT !.ticks = @ + 1]
        /\ load[h].ticks < ScanTicks
    BY <1>3
  <2>2. load[h] \in Scans
    BY <2>1 DEF TypeOK
  <2> HIDE DEF ControlPlaneInv
  <2>3. load[h].ticks \in 0..ScanTicks /\ load[h].ticks + 1 \in 0..ScanTicks
    BY <2>1, <2>2, TicksAssumption DEF Scans
  <2>4. load'[h] = [page |-> load[h].page, got |-> load[h].got, missed |-> load[h].missed,
                    ticks |-> load[h].ticks + 1, overtaken |-> load[h].overtaken]
    BY <2>1, <2>2 DEF Scans
  <2>5. /\ load[h].page \in 1..(Len(Pages) + 1) /\ load[h].got \in Configs
        /\ load[h].overtaken \in BOOLEAN /\ load[h].missed \in SUBSET Items
    BY <2>2 DEF Scans
  <2>6. load'[h] \in Scans
    BY <2>3, <2>4, <2>5 DEF Scans
  <2> QED
    BY <2>1, <2>3, <2>4, <2>6
<1>5. TypeOK'
  <2>1. load' \in [Loads -> {None} \cup Scans]
    <3>1. load' = [h \in Loads |-> load'[h]]
      BY DEF Tick
    <3>2. \A h \in Loads : load'[h] \in {None} \cup Scans
      BY <1>4
    <3> QED
      BY <3>1, <3>2
  <2>2. age' \in 0..TTL /\ quiet' \in 0..(TTL + ScanTicks + ReadLag + 1)
    BY <1>2, TicksAssumption
  <2>3. was' \in [Items -> SUBSET ({0} \cup Versions)]
    BY DEF Tick, TypeOK
  <2> QED
    BY <1>1, <2>1, <2>2, <2>3 DEF TypeOK
<1>6. \A h \in Loads : load'[h] # None => Read(h)' = Read(h)
  BY <1>4 DEF Read
<1>7. ScanTrue'
  <2>1. ASSUME NEW h \in Loads, load'[h] # None, quiet' > load'[h].ticks + ReadLag
        PROVE  quiet > load[h].ticks + ReadLag
    <3>1. load[h].ticks \in Nat /\ load[h].ticks < ScanTicks /\ load'[h].ticks = load[h].ticks + 1
      BY <1>4, <2>1
    <3>2. CASE quiet < TTL + ScanTicks + ReadLag + 1
      BY <1>2, <2>1, <3>1, <3>2, TicksAssumption
    <3>3. CASE ~(quiet < TTL + ScanTicks + ReadLag + 1)
      BY <1>2, <3>1, <3>3, TicksAssumption
    <3> QED
      BY <3>2, <3>3
  <2> QED
    BY <1>1, <1>4, <1>6, <2>1 DEF ScanTrue
<1>8. CacheTrue'
  <2>1. ASSUME age' < TTL, quiet' > age' + ScanTicks + ReadLag
        PROVE  age < TTL /\ quiet > age + ScanTicks + ReadLag
    <3>1. age < TTL /\ age' = age + 1
      BY <1>2, <2>1
    <3>2. CASE quiet < TTL + ScanTicks + ReadLag + 1
      BY <1>2, <2>1, <3>1, <3>2, TicksAssumption
    <3>3. CASE ~(quiet < TTL + ScanTicks + ReadLag + 1)
      BY <1>2, <3>1, <3>3, TicksAssumption
    <3> QED
      BY <3>1, <3>2, <3>3
  <2> QED
    BY <1>1, <2>1 DEF CacheTrue
<1>9. Behind'
  BY <1>1, <1>4 DEF Behind
<1>10. NotOlder'
  BY <1>1, <1>4, <1>6 DEF NotOlder
<1>11. Lagging'
  <2>1. was' = IF quiet < ReadLag THEN was ELSE [i \in Items |-> {}]
    BY DEF Tick
  <2>2. quiet' > ReadLag => quiet >= ReadLag
    BY <1>2, TicksAssumption
  <2> QED
    BY <1>1, <1>2, <2>1, <2>2, TicksAssumption DEF Lagging
<1> QED
  BY <1>5, <1>7, <1>8, <1>9, <1>10, <1>11

------------------------------------------------------------------------------
LEMMA ControlPlaneNextHolds == ControlPlaneInv /\ [Next]_vars => ControlPlaneInv'
<1> SUFFICES ASSUME ControlPlaneInv, [Next]_vars PROVE ControlPlaneInv'
  OBVIOUS
<1>1. CASE ConfigChange
  BY <1>1, SeedHolds, SeedItemHolds, SeedStopsHolds DEF ConfigChange
<1>2. CASE Refresh
  BY <1>2, MissHolds, ScanHolds, StoreHolds, ScanFailsHolds DEF Refresh
<1>3. CASE Tick
  BY <1>3, TickHolds
<1>4. CASE UNCHANGED vars
  BY <1>4 DEF vars, ControlPlaneInv, TypeOK, ScanTrue, CacheTrue, Behind, Lagging, NotOlder,
              Read, InUse
<1> QED
  BY <1>1, <1>2, <1>3, <1>4 DEF Next

LEMMA ControlPlaneInvariant == Spec => []ControlPlaneInv
BY ControlPlaneInitHolds, ControlPlaneNextHolds, PTL DEF Spec

\* Table and snapshot hold a version of the file for every item or none, and a
\* scan is on a page there is, or past the last.
THEOREM ControlPlaneTypeCorrect == Spec => []TypeOK
<1>1. ControlPlaneInv => TypeOK
  BY DEF ControlPlaneInv
<1> QED
  BY <1>1, ControlPlaneInvariant, PTL

\* A configuration that is left alone is in use everywhere, as far as it decodes, after
\* the TTL, the time of a scan and the lag of a read, however many scans failed or met
\* the seed that wrote it.
THEOREM SnapshotPickedUp == Spec => []PickedUp
<1>1. ControlPlaneInv => PickedUp
  <2> SUFFICES ASSUME ControlPlaneInv, Fresh, quiet > TTL + ScanTicks + ReadLag
               PROVE  cached = InUse
    BY DEF PickedUp
  <2>1. age < TTL /\ quiet > age + ScanTicks + ReadLag
    BY TicksAssumption DEF ControlPlaneInv, TypeOK, Fresh
  <2> QED
    BY <2>1 DEF ControlPlaneInv, CacheTrue
<1> QED
  BY <1>1, ControlPlaneInvariant, PTL

\* A scan that is stored before any other that began with it takes no item back in
\* time that it has not read late or failed to decode.
THEOREM SnapshotNeverBackwards == Spec => []NeverBackwards
<1>1. ControlPlaneInv => NeverBackwards
  <2> SUFFICES ASSUME ControlPlaneInv, NEW g \in Loads, Scanned(g), ~load[g].overtaken
               PROVE  \A i \in Items \ load[g].missed : cached[i] <= load[g].got[i]
    BY DEF NeverBackwards
  <2>1. Read(g) = Items
    BY ScannedAll DEF ControlPlaneInv
  <2> QED
    BY <2>1 DEF ControlPlaneInv, NotOlder, Scanned
<1> QED
  BY <1>1, ControlPlaneInvariant, PTL

------------------------------------------------------------------------------
\* THE FLEET

\* Between runs the runner's files are the committed ones, and nothing is left to be
\* done.  What was done beyond what they remember was lost with a run, or with an
\* answer, or was done anew on older files.
One(b) == IF b THEN 1 ELSE 0

OverIsCommitted ==
    /\ phase = "over" => files = repo /\ base = repo
    /\ phase # "acting" => \A a \in Agents : todo[a] = "none"

Climbing ==
    \A a \in Agents :
        /\ retries[a] + One(todo[a] = "retry") <= One(files.seen[a].retried) + lost + stale
        /\ filed[a] <= One(files.seen[a].issue) + lost + stale
        /\ todo[a] = "escalate" => ~files.seen[a].issue

Celebrating == told + One(step \in won) <= One(step \in files.done) + lost + stale

\* A run on older files may be forgotten whole: what it does is within what the
\* committed ones remember, too.
OnOlderFiles ==
    base # repo =>
        /\ \A a \in Agents :
             /\ retries[a] + One(todo[a] = "retry") <= One(repo.seen[a].retried) + lost + stale
             /\ filed[a] + One(todo[a] = "escalate") <= One(repo.seen[a].issue) + lost + stale
        /\ told + One(step \in won) <= One(step \in repo.done) + lost + stale

Grounding ==
    /\ step \in TracesOf(world) => grounded
    /\ step \in repo.done \cup files.done => grounded
    /\ \A c \in waiting : step \in c.files.done => grounded

FleetInv == FleetTypeOK /\ OverIsCommitted /\ Climbing /\ Celebrating /\ OnOlderFiles /\ Grounding

\* What an observation shows of a step is so: a source that does not answer hides,
\* and never invents.
LEMMA ObservedIsSo ==
  ASSUME FleetTypeOK, NEW s \in Steps,
         Known(Observe(world, blind), s), Holds(Observe(world, blind), s)
  PROVE  s \in TracesOf(world)
<1> DEFINE w == Observe(world, blind)
<1>1. world \in Worlds /\ totalGames \in Nat \ {0}
  BY PlanAssumption DEF FleetTypeOK
<1>2. /\ w.itchUser = world.itchUser
      /\ w.redditUser = world.redditUser
      /\ w.liveGames = LiveGames(world, blind)
  BY DEF Observe
<1>3. w.liveGames \in {0, Unknown, world.games}
  BY <1>2 DEF LiveGames, FetchItch, itchGames
<1>4. w.comments \in {Unknown, world.comments} /\ w.posts \in {Unknown, 0, world.posts}
  <2>1. redditActivityRSS(world, blind) \in
           [comments : {Unknown, world.comments}, posts : {Unknown, 0, world.posts}]
    BY DEF redditActivityRSS, Unread
  <2>2. redditActivity(world, blind) \in
           [comments : {Unknown, world.comments}, posts : {Unknown, 0, world.posts}]
    BY DEF redditActivity, Unread
  <2>3. Unread \in
           [comments : {Unknown, world.comments}, posts : {Unknown, 0, world.posts}]
    BY DEF Unread
  <2> DEFINE activity == IF ~world.redditUser THEN Unread
                         ELSE IF redditActivityRSS(world, blind) # Unread
                         THEN redditActivityRSS(world, blind) ELSE redditActivity(world, blind)
  <2>4. activity \in
           [comments : {Unknown, world.comments}, posts : {Unknown, 0, world.posts}]
    BY <2>1, <2>2, <2>3
  <2>5. w.comments = activity.comments /\ w.posts = activity.posts
    BY DEF Observe
  <2> QED
    BY <2>4, <2>5
<1> HIDE DEF w
<1>5. Known(w, s) /\ Holds(w, s)
  BY DEF w
<1>6. world.games \in Nat /\ world.comments \in Nat /\ world.posts \in Nat
  BY <1>1 DEF Worlds
<1>7. CASE s = "reddit-account"
  BY <1>2, <1>5, <1>7 DEF Known, TracesOf
<1>8. CASE s = "itch-account"
  BY <1>2, <1>5, <1>8 DEF Known, TracesOf
<1>9. CASE s = "publish-sudoku"
  <2>1. w.liveGames >= 1
    BY <1>5, <1>9 DEF Holds
  <2>2. world.games >= 1
    BY <1>3, <1>6, <2>1 DEF Unknown
  <2> QED
    BY <1>9, <2>2 DEF TracesOf
<1>10. CASE s = "publish-rest"
  <2>1. w.liveGames >= totalGames
    BY <1>5, <1>10 DEF Holds
  <2>2. world.games >= totalGames
    BY <1>1, <1>3, <1>6, <2>1 DEF Unknown
  <2> QED
    BY <1>10, <2>2 DEF TracesOf
<1>11. CASE s = "reddit-warmup"
  <2>1. w.comments >= 2
    BY <1>5, <1>11 DEF Holds
  <2>2. world.comments >= 2
    BY <1>4, <1>6, <2>1 DEF Unknown
  <2> QED
    BY <1>11, <2>2 DEF TracesOf
<1>12. CASE s = "reddit-post"
  <2>1. w.posts >= 1
    BY <1>5, <1>12 DEF Holds
  <2>2. world.posts >= 1
    BY <1>4, <1>6, <2>1 DEF Unknown
  <2> QED
    BY <1>12, <2>2 DEF TracesOf
<1> QED
  BY <1>5, <1>7, <1>8, <1>9, <1>10, <1>11, <1>12 DEF Known

LEMMA FleetInitHolds == FleetInit => FleetInv
<1> SUFFICES ASSUME FleetInit PROVE FleetInv
  OBVIOUS
<1>1. FleetTypeOK
  <2>1. world \in Worlds
    BY DEF FleetInit, Worlds
  <2>2. repo \in Committed /\ files \in Committed /\ base \in Committed
    BY DEF FleetInit, Committed, Memory, Forgotten
  <2>3. lost \in 0..MaxLost /\ stale \in Nat /\ blind \in Blindness
    BY LostAssumption, SourcesAssumption DEF FleetInit
  <2> QED
    BY <2>1, <2>2, <2>3 DEF FleetInit, FleetTypeOK
<1>2. OverIsCommitted
  BY DEF FleetInit, OverIsCommitted
<1>3. Climbing
  BY <1>1 DEF FleetInit, Climbing, One, Forgotten
<1>4. Celebrating
  BY <1>1 DEF FleetInit, Celebrating, One
<1>5. Grounding
  <2>1. TracesOf(world) = {}
    BY PlanAssumption DEF FleetInit, TracesOf
  <2>2. repo.done = {} /\ files.done = {}
    BY DEF FleetInit
  <2> QED
    BY <2>1, <2>2 DEF Grounding, FleetInit
<1>6. OnOlderFiles
  BY DEF FleetInit, OnOlderFiles
<1> QED
  BY <1>1, <1>2, <1>3, <1>4, <1>5, <1>6 DEF FleetInv

\* A step that neither the runner nor its memory takes part in.
LEMMA OutsideHolds ==
  ASSUME FleetInv, FleetTypeOK',
         UNCHANGED <<repo, queue, runner, step, told, filed, retries, lost>>,
         grounded => grounded', step \in TracesOf(world') => grounded'
  PROVE  FleetInv'
BY DEF FleetInv, queue, runner, OverIsCommitted, Climbing, Celebrating, OnOlderFiles, Grounding

LEMMA WorldHolds ==
  ASSUME FleetInv,
         \/ \E s \in Steps : Do(s) \/ Claim(s)
         \/ Age \/ Outage
         \/ \E f \in Workflows : Runs(f)
  PROVE  FleetInv'
<1>1. FleetTypeOK
  BY DEF FleetInv
<1>2. ASSUME NEW s \in Steps, Do(s) PROVE FleetInv'
  <2>1. world' \in Worlds
    <3>1. world \in Worlds
      BY <1>1 DEF FleetTypeOK
    <3>2. \A n \in Nat : Max({n, 1}) \in Nat
      BY DEF Max
    <3>3. Max({world.games, 1}) \in Nat
      BY <3>1, <3>2 DEF Worlds
    <3> QED
      BY <1>2, <3>1, <3>3, PlanAssumption DEF Do, Worlds
  <2>2. declared' \subseteq Steps
    BY <1>1, <1>2 DEF Do, FleetTypeOK
  <2>3. grounded' \in BOOLEAN /\ (grounded => grounded') /\ (step \in TracesOf(world') => grounded')
    BY <1>1, <1>2 DEF Do, FleetTypeOK
  <2>4. UNCHANGED <<repo, queue, runner, step, told, filed, retries, lost, blind, run, advice>>
    BY <1>2 DEF Do
  <2>5. FleetTypeOK'
    BY <1>1, <2>1, <2>2, <2>3, <2>4 DEF FleetTypeOK, queue, runner
  <2> QED
    BY <2>3, <2>4, <2>5, OutsideHolds
<1>3. ASSUME NEW s \in Steps, Claim(s) PROVE FleetInv'
  <2>1. FleetTypeOK'
    BY <1>1, <1>3 DEF Claim, FleetTypeOK, queue, runner, history
  <2>2. step \in TracesOf(world') => grounded'
    BY <1>3 DEF Claim, history, FleetInv, Grounding
  <2> QED
    BY <1>3, <2>1, <2>2, OutsideHolds DEF Claim, history
<1>4. ASSUME Age PROVE FleetInv'
  <2>0. world \in Worlds /\ redditMinAgeDays \in Nat /\ decisionAfterDays \in Nat
    BY <1>1, PlanAssumption DEF FleetTypeOK
  <2>1. world' \in Worlds
    BY <1>4, <2>0 DEF Age, Worlds
  <2>2. FleetTypeOK'
    BY <1>1, <1>4, <2>1 DEF Age, FleetTypeOK, queue, runner, history
  <2>3. TracesOf(world') = TracesOf(world)
    <3>1. /\ world'.redditUser = world.redditUser /\ world'.itchUser = world.itchUser
          /\ world'.games = world.games /\ world'.comments = world.comments
          /\ world'.posts = world.posts
      BY <1>4, <2>0 DEF Age, Worlds
    <3> QED
      BY <3>1 DEF TracesOf
  <2>4. step \in TracesOf(world') => grounded'
    BY <1>4, <2>3 DEF Age, history, FleetInv, Grounding
  <2> QED
    BY <1>4, <2>2, <2>4, OutsideHolds DEF Age, history
<1>5. ASSUME Outage PROVE FleetInv'
  <2>1. FleetTypeOK'
    BY <1>1, <1>5 DEF Outage, FleetTypeOK, queue, runner, history
  <2>2. step \in TracesOf(world') => grounded'
    BY <1>5 DEF Outage, history, FleetInv, Grounding
  <2> QED
    BY <1>5, <2>1, <2>2, OutsideHolds DEF Outage, history
<1>6. ASSUME NEW f \in Workflows, Runs(f) PROVE FleetInv'
  <2>1. run' \in [Workflows -> {"never", "running", "success", "failure", "overdue"}]
    BY <1>1, <1>6 DEF Runs, FleetTypeOK
  <2>2. FleetTypeOK'
    BY <1>1, <1>6, <2>1 DEF Runs, FleetTypeOK, queue, runner, history
  <2>3. step \in TracesOf(world') => grounded'
    BY <1>6 DEF Runs, history, FleetInv, Grounding
  <2> QED
    BY <1>6, <2>2, <2>3, OutsideHolds DEF Runs, history
<1> QED
  BY <1>2, <1>3, <1>4, <1>5, <1>6

LEMMA NewDayHolds == ASSUME FleetInv, NewDay PROVE FleetInv'
<1>1. FleetTypeOK /\ files = repo
  BY DEF FleetInv, OverIsCommitted, NewDay
<1>2. /\ repo' \in Committed /\ files' = repo' /\ base' = repo'
      /\ repo'.done = repo.done /\ repo'.seen = repo.seen
  BY <1>1 DEF NewDay, FleetTypeOK, Committed
<1>3. \A c \in waiting' :
        /\ c \in [files : Committed, declared : SUBSET Steps]
        /\ \E d \in waiting : c.files.done = d.files.done
  <2> TAKE c \in waiting'
  <2>1. PICK d \in waiting : c = [d EXCEPT !.files.sentToday = FALSE]
    BY DEF NewDay
  <2>2. d \in [files : Committed, declared : SUBSET Steps]
    BY <1>1 DEF FleetTypeOK
  <2>3. /\ c \in [files : Committed, declared : SUBSET Steps]
        /\ c.files.done = d.files.done
    BY <2>1, <2>2 DEF Committed
  <2> QED
    BY <2>3
<1>4. FleetTypeOK'
  <2>1. waiting' \subseteq [files : Committed, declared : SUBSET Steps]
    BY <1>3
  <2> QED
    BY <1>1, <1>2, <2>1 DEF NewDay, FleetTypeOK, outside, history
<1>5. files'.done = files.done /\ files'.seen = files.seen
  BY <1>1, <1>2
<1>6. Grounding'
  BY <1>2, <1>3, <1>5 DEF NewDay, outside, history, FleetInv, Grounding
<1> QED
  BY <1>2, <1>4, <1>5, <1>6 DEF NewDay, outside, history, FleetInv, OverIsCommitted, Climbing,
                                Celebrating, OnOlderFiles

\* A run that begins acts on what it checked out, and puts down at once what it is
\* going to tell and to retry.  On older files it may do once more what was done.
LEMMA BeginHolds ==
  ASSUME FleetInv, NEW answered \in SUBSET Agents, Begin(answered)
  PROVE  FleetInv'
<1> DEFINE w == Observe(world, blind)
<1>0. /\ FleetTypeOK /\ files = repo /\ phase = "over"
      /\ \A a \in Agents : todo[a] = "none"
  BY DEF FleetInv, OverIsCommitted, Begin
<1>a. PICK checkout \in IF waiting = {} THEN {Newest} ELSE waiting :
        /\ phase' = "acting"
        /\ waiting' = {}
        /\ base' = checkout.files
        /\ stale' = stale + (IF checkout.files = repo THEN 0 ELSE 1)
        /\ files' = [checkout.files EXCEPT
               !.done = Recorded(@, DoneNow(w, checkout.declared)),
               !.seen = [a \in Agents |->
                           IF a \in answered THEN Remembers(checkout.files.seen[a], a) ELSE @[a]]]
        /\ won' = DoneNow(w, checkout.declared) \ checkout.files.done
        /\ todo' = [a \in Agents |->
                      IF a \in answered THEN DecideFor(checkout.files.seen[a], a) ELSE "none"]
        /\ next' = NextStep(w, checkout.declared)
        /\ grounded' = (grounded \/ (step \in checkout.declared /\ ~Known(w, step)))
        /\ filed' = [a \in Agents |-> IF a \in answered /\ Healthy(a) THEN 0 ELSE filed[a]]
        /\ retries' = [a \in Agents |-> IF a \in answered /\ Healthy(a) THEN 0 ELSE retries[a]]
        /\ UNCHANGED <<outside, repo, advice, step, told, lost>>
  BY DEF Begin
<1>b. checkout \in [files : Committed, declared : SUBSET Steps]
  BY <1>0, <1>a DEF Newest, FleetTypeOK
<1>c. step \in checkout.files.done => grounded
  BY <1>0, <1>a DEF Newest, FleetInv, Grounding
<1> DEFINE mine == checkout.files
           now == DoneNow(w, checkout.declared)
           costs == lost + stale
<1>1. /\ mine \in Committed
      /\ mine.done \subseteq Steps
      /\ \A a \in Agents : mine.seen[a] \in Memory
  BY <1>b DEF Committed
<1>2. /\ files'.done = mine.done \cup now
      /\ files'.seen = [a \in Agents |-> IF a \in answered THEN Remembers(mine.seen[a], a) ELSE mine.seen[a]]
      /\ files'.sentToday = mine.sentToday
      /\ files' \in [done : {files'.done}, seen : {files'.seen}, sentToday : {files'.sentToday}]
  BY <1>a, <1>1 DEF Recorded, Committed
<1>3. now \subseteq Steps
  BY DEF DoneNow
<1>4. \A a \in Agents : /\ Remembers(mine.seen[a], a) \in Memory
                        /\ ~Healthy(a) => /\ Remembers(mine.seen[a], a).issue = mine.seen[a].issue
                                          /\ Remembers(mine.seen[a], a).retried = (mine.seen[a].retried \/ Retryable(a))
  BY <1>1 DEF Remembers, Memory, Forgotten, Retryable
<1>5. files' \in Committed
  BY <1>1, <1>2, <1>3, <1>4 DEF Committed
<1>6. /\ won' = now \ mine.done
      /\ todo' = [a \in Agents |-> IF a \in answered THEN DecideFor(mine.seen[a], a) ELSE "none"]
      /\ todo' \in [Agents -> {"none", "recovered", "retry", "escalate"}]
  BY <1>a DEF DecideFor
<1>7. next' \subseteq Steps
  BY <1>a DEF NextStep, Steps
<1>8. /\ filed' = [a \in Agents |-> IF a \in answered /\ Healthy(a) THEN 0 ELSE filed[a]]
      /\ retries' = [a \in Agents |-> IF a \in answered /\ Healthy(a) THEN 0 ELSE retries[a]]
      /\ filed' \in [Agents -> Nat] /\ retries' \in [Agents -> Nat]
  BY <1>0, <1>a DEF FleetTypeOK
<1>9. grounded' = (grounded \/ (step \in checkout.declared /\ ~Known(w, step))) /\ grounded' \in BOOLEAN
  BY <1>0, <1>a DEF FleetTypeOK
<1>10. /\ UNCHANGED <<world, declared, blind, run, repo, advice, step, told, lost>>
       /\ phase' = "acting" /\ waiting' = {} /\ base' = mine
  BY <1>a DEF outside
<1>d. /\ stale \in Nat /\ stale' \in Nat /\ lost \in Nat
      /\ mine = repo => stale' = stale
      /\ mine # repo => stale' = stale + 1
  BY <1>0, <1>a, LostAssumption DEF FleetTypeOK
<1> HIDE DEF w, mine, now
<1>11. FleetTypeOK'
  BY <1>0, <1>1, <1>3, <1>5, <1>6, <1>7, <1>8, <1>9, <1>10, <1>d DEF FleetTypeOK
<1>e. \A a \in Agents :
         /\ retries[a] <= One(repo.seen[a].retried) + lost + stale
         /\ filed[a] <= One(repo.seen[a].issue) + lost + stale
         /\ retries[a] \in Nat /\ filed[a] \in Nat
         /\ retries'[a] \in Nat /\ filed'[a] \in Nat
         /\ retries'[a] <= retries[a] /\ filed'[a] <= filed[a]
  <2> SUFFICES ASSUME NEW a \in Agents
               PROVE  /\ retries[a] <= One(repo.seen[a].retried) + lost + stale
                      /\ filed[a] <= One(repo.seen[a].issue) + lost + stale
                      /\ retries[a] \in Nat /\ filed[a] \in Nat
                      /\ retries'[a] \in Nat /\ filed'[a] \in Nat
                      /\ retries'[a] <= retries[a] /\ filed'[a] <= filed[a]
    OBVIOUS
  <2>1. /\ retries[a] + One(todo[a] = "retry") <= One(repo.seen[a].retried) + lost + stale
        /\ filed[a] <= One(repo.seen[a].issue) + lost + stale
    BY <1>0 DEF FleetInv, Climbing
  <2>2. retries[a] \in Nat /\ filed[a] \in Nat
    BY <1>0 DEF FleetTypeOK
  <2>3. One(todo[a] = "retry") = 0
    BY <1>0 DEF One
  <2>4. retries'[a] \in {0, retries[a]} /\ filed'[a] \in {0, filed[a]}
    BY <1>8
  <2>5. retries[a] <= One(repo.seen[a].retried) + lost + stale
    BY <2>1, <2>2, <2>3
  <2> QED
    BY <2>1, <2>2, <2>4, <2>5
<1>f. told <= One(step \in repo.done) + lost + stale /\ told \in Nat
  <2>1. told + One(step \in won) <= One(step \in repo.done) + lost + stale /\ told \in Nat
    BY <1>0 DEF FleetInv, Celebrating, FleetTypeOK
  <2>2. One(step \in won) \in 0..1 /\ One(step \in repo.done) \in 0..1
    BY DEF One
  <2> QED
    BY <1>d, <2>1, <2>2
<1>12. Climbing'
  <2> SUFFICES ASSUME NEW a \in Agents
               PROVE  /\ retries'[a] + One(todo'[a] = "retry") <= One(files'.seen[a].retried) + lost + stale'
                      /\ filed'[a] <= One(files'.seen[a].issue) + lost + stale'
                      /\ todo'[a] = "escalate" => ~files'.seen[a].issue
    BY <1>10 DEF Climbing
  <2>1. /\ One(todo'[a] = "retry") \in 0..1 /\ One(files'.seen[a].retried) \in 0..1
        /\ One(files'.seen[a].issue) \in 0..1
        /\ One(repo.seen[a].retried) \in 0..1 /\ One(repo.seen[a].issue) \in 0..1
    BY DEF One
  <2>2. /\ mine.seen[a].retried \in BOOLEAN /\ mine.seen[a].issue \in BOOLEAN
    BY <1>1 DEF Memory
  <2>3. CASE a \in answered /\ Healthy(a)
    <3>1. /\ todo'[a] \in {"none", "recovered"} /\ retries'[a] = 0 /\ filed'[a] = 0
      BY <1>6, <1>8, <2>3 DEF DecideFor
    <3>2. One(todo'[a] = "retry") = 0
      BY <3>1 DEF One
    <3> QED
      BY <1>d, <2>1, <3>1, <3>2
  <2>4. CASE ~(a \in answered /\ Healthy(a))
    <3>1. /\ files'.seen[a].issue = mine.seen[a].issue
          /\ mine.seen[a].retried => files'.seen[a].retried
      BY <1>2, <1>4, <2>4
    <3>2. /\ todo'[a] = "retry" => files'.seen[a].retried /\ ~mine.seen[a].retried
          /\ todo'[a] = "escalate" => ~mine.seen[a].issue
      BY <1>2, <1>4, <1>6, <2>4 DEF DecideFor, RetriesNow
    <3>3. One(todo'[a] = "retry") + One(mine.seen[a].retried) <= One(files'.seen[a].retried)
      BY <2>2, <3>1, <3>2 DEF One
    <3>4. /\ retries'[a] <= One(mine.seen[a].retried) + lost + stale'
          /\ filed'[a] <= One(mine.seen[a].issue) + lost + stale'
      <4>1. One(mine.seen[a].retried) \in 0..1 /\ One(mine.seen[a].issue) \in 0..1
        BY DEF One
      <4>2. CASE mine = repo
        <5>1. retries'[a] <= One(repo.seen[a].retried) + lost + stale
          BY <1>d, <1>e, <2>1
        <5>2. filed'[a] <= One(repo.seen[a].issue) + lost + stale
          BY <1>d, <1>e, <2>1
        <5> QED
          BY <1>d, <4>2, <5>1, <5>2
      <4>3. CASE mine # repo
        BY <1>d, <1>e, <2>1, <4>1, <4>3
      <4> QED
        BY <4>2, <4>3
    <3>5. One(mine.seen[a].retried) \in 0..1
      BY DEF One
    <3>6. retries'[a] + One(todo'[a] = "retry") <= One(files'.seen[a].retried) + lost + stale'
      BY <1>d, <1>e, <2>1, <3>3, <3>4, <3>5
    <3> QED
      BY <3>1, <3>2, <3>4, <3>6
  <2> QED
    BY <2>3, <2>4
<1>13. Celebrating'
  <2>1. told + One(step \in won') <= One(step \in files'.done) + lost + stale'
    <3>1. One(step \in won') + One(step \in mine.done) <= One(step \in files'.done)
      BY <1>2, <1>6 DEF One
    <3>2. /\ One(step \in won') \in 0..1 /\ One(step \in mine.done) \in 0..1
          /\ One(step \in files'.done) \in 0..1 /\ One(step \in repo.done) \in 0..1
      BY DEF One
    <3>3. told <= One(step \in mine.done) + lost + stale'
      <4>1. CASE mine = repo
        BY <1>d, <1>f, <4>1
      <4>2. CASE mine # repo
        BY <1>d, <1>f, <3>2, <4>2
      <4> QED
        BY <4>1, <4>2
    <3> QED
      BY <1>d, <1>f, <3>1, <3>2, <3>3
  <2> QED
    BY <1>10, <2>1 DEF Celebrating
<1>14. Grounding'
  <2>1. step \in TracesOf(world) => grounded
    BY DEF FleetInv, Grounding
  <2>2. step \in repo.done => grounded
    BY DEF FleetInv, Grounding
  <2>3. ASSUME step \in now PROVE grounded'
    <3>1. step \in Steps /\ IsDone(w, checkout.declared, step)
      BY <2>3 DEF DoneNow, now
    <3>2. CASE Known(w, step) /\ Holds(w, step)
      <4>1. step \in TracesOf(world)
        BY <1>0, <3>1, <3>2, ObservedIsSo DEF w
      <4> QED
        BY <1>9, <2>1, <4>1
    <3>3. CASE step \in checkout.declared /\ ~Known(w, step)
      BY <1>9, <3>3
    <3> QED
      BY <3>1, <3>2, <3>3 DEF IsDone
  <2>4. step \in mine.done => grounded'
    BY <1>9, <1>c DEF mine
  <2> QED
    BY <1>2, <1>9, <1>10, <2>1, <2>2, <2>3, <2>4 DEF Grounding
<1>15. OnOlderFiles'
  <2> SUFFICES ASSUME mine # repo
               PROVE  /\ \A a \in Agents :
                           /\ retries'[a] + One(todo'[a] = "retry") <= One(repo.seen[a].retried) + lost + stale'
                           /\ filed'[a] + One(todo'[a] = "escalate") <= One(repo.seen[a].issue) + lost + stale'
                      /\ told + One(step \in won') <= One(step \in repo.done) + lost + stale'
    BY <1>10 DEF OnOlderFiles
  <2>1. ASSUME NEW a \in Agents
        PROVE  /\ retries'[a] + One(todo'[a] = "retry") <= One(repo.seen[a].retried) + lost + stale'
               /\ filed'[a] + One(todo'[a] = "escalate") <= One(repo.seen[a].issue) + lost + stale'
    <3>1. /\ One(todo'[a] = "retry") \in 0..1 /\ One(todo'[a] = "escalate") \in 0..1
          /\ One(repo.seen[a].retried) \in 0..1 /\ One(repo.seen[a].issue) \in 0..1
      BY DEF One
    <3> QED
      BY <1>d, <1>e, <3>1
  <2>2. told + One(step \in won') <= One(step \in repo.done) + lost + stale'
    <3>1. One(step \in won') \in 0..1 /\ One(step \in repo.done) \in 0..1
      BY DEF One
    <3> QED
      BY <1>d, <1>f, <3>1
  <2> QED
    BY <2>1, <2>2
<1> QED
  BY <1>10, <1>11, <1>12, <1>13, <1>14, <1>15 DEF FleetInv, OverIsCommitted

LEMMA QueueHolds == ASSUME FleetInv, Trigger \/ Skip PROVE FleetInv'
<1>1. FleetTypeOK /\ waiting' \in {{}, {Newest}}
  BY DEF FleetInv, Trigger, Skip
<1>2. UNCHANGED <<outside, repo, base, stale, runner, advice, history, lost>>
  BY DEF Trigger, Skip
<1>3. Newest \in [files : Committed, declared : SUBSET Steps]
  BY <1>1 DEF Newest, FleetTypeOK
<1>4. FleetTypeOK'
  BY <1>1, <1>2, <1>3 DEF FleetTypeOK, outside, runner, history
<1>5. Grounding'
  BY <1>1, <1>2 DEF FleetInv, Grounding, Newest, outside, runner, history
<1> QED
  BY <1>2, <1>4, <1>5 DEF outside, runner, history, FleetInv, OverIsCommitted, Climbing,
                          Celebrating, OnOlderFiles

\* What a run does about an agent that has its turn.
LEMMA ActHolds == ASSUME FleetInv, NEW a \in Agents, Act(a) PROVE FleetInv'
<1>0. FleetTypeOK /\ phase = "acting" /\ a \in Pending
  BY DEF FleetInv, Act, Retry, Escalate, EscalateFails, SayRecovered, Turn
<1>1. /\ todo' = [todo EXCEPT ![a] = "none"]
      /\ todo' \in [Agents -> {"none", "recovered", "retry", "escalate"}]
  BY <1>0 DEF Act, Retry, Escalate, EscalateFails, SayRecovered, Acted, FleetTypeOK
<1>2. /\ \A b \in Agents :
            /\ retries[b] \in Nat /\ filed[b] \in Nat
            /\ files.seen[b].retried \in BOOLEAN /\ files.seen[b].issue \in BOOLEAN
      /\ lost \in Nat /\ lost' \in Nat /\ lost <= lost' /\ lost' \in 0..MaxLost
      /\ stale \in Nat
  BY <1>0, LostAssumption DEF FleetTypeOK, Committed, Memory, Act, Retry, Escalate,
                              EscalateFails, SayRecovered, history
<1>3. /\ UNCHANGED <<world, declared, blind, repo, phase, won, next, advice, step, told, grounded>>
      /\ UNCHANGED <<base, waiting, stale>>
      /\ files'.done = files.done
  BY <1>0 DEF Act, Retry, Escalate, EscalateFails, SayRecovered, outside, queue, history,
              FleetTypeOK, Committed
<1>4. \A b \in Agents :
        /\ retries[b] + One(todo[b] = "retry") <= One(files.seen[b].retried) + lost + stale
        /\ filed[b] <= One(files.seen[b].issue) + lost + stale
        /\ todo[b] = "escalate" => ~files.seen[b].issue
  BY DEF FleetInv, Climbing
<1>5. Celebrating' /\ Grounding' /\ OverIsCommitted'
  <2>1. told + One(step \in won) <= One(step \in files.done) + lost + stale
    BY DEF FleetInv, Celebrating
  <2>2. told \in Nat /\ One(step \in won) \in 0..1 /\ One(step \in files.done) \in 0..1
    BY <1>0 DEF FleetTypeOK, One
  <2>3. told + One(step \in won) <= One(step \in files.done) + lost' + stale
    BY <1>2, <2>1, <2>2
  <2>4. Celebrating'
    BY <1>3, <2>3 DEF Celebrating
  <2> QED
    BY <1>0, <1>3, <2>4 DEF FleetInv, Grounding, OverIsCommitted
<1>6. ASSUME files' = files, run' \in [Workflows -> {"never", "running", "success", "failure", "overdue"}],
             filed' \in [Agents -> Nat], retries' \in [Agents -> Nat]
      PROVE  FleetTypeOK'
  BY <1>0, <1>1, <1>2, <1>3, <1>6 DEF FleetTypeOK
<1>o. ASSUME \A b \in Agents :
               /\ retries'[b] \in Nat /\ filed'[b] \in Nat
               /\ retries'[b] + One(todo'[b] = "retry") <= retries[b] + One(todo[b] = "retry")
               /\ filed'[b] + One(todo'[b] = "escalate")
                     <= filed[b] + One(todo[b] = "escalate") + (lost' - lost)
      PROVE  OnOlderFiles'
  <2> SUFFICES ASSUME base # repo
               PROVE  /\ \A b \in Agents :
                           /\ retries'[b] + One(todo'[b] = "retry") <= One(repo.seen[b].retried) + lost' + stale
                           /\ filed'[b] + One(todo'[b] = "escalate") <= One(repo.seen[b].issue) + lost' + stale
                      /\ told + One(step \in won) <= One(step \in repo.done) + lost' + stale
    BY <1>3 DEF OnOlderFiles
  <2>1. /\ \A b \in Agents :
             /\ retries[b] + One(todo[b] = "retry") <= One(repo.seen[b].retried) + lost + stale
             /\ filed[b] + One(todo[b] = "escalate") <= One(repo.seen[b].issue) + lost + stale
        /\ told + One(step \in won) <= One(step \in repo.done) + lost + stale
    BY DEF FleetInv, OnOlderFiles
  <2>2. told \in Nat /\ One(step \in won) \in 0..1 /\ One(step \in repo.done) \in 0..1
    BY <1>0 DEF FleetTypeOK, One
  <2>3. ASSUME NEW b \in Agents
        PROVE  /\ retries'[b] + One(todo'[b] = "retry") <= One(repo.seen[b].retried) + lost' + stale
               /\ filed'[b] + One(todo'[b] = "escalate") <= One(repo.seen[b].issue) + lost' + stale
    <3>1. /\ One(todo[b] = "retry") \in 0..1 /\ One(todo'[b] = "retry") \in 0..1
          /\ One(todo[b] = "escalate") \in 0..1 /\ One(todo'[b] = "escalate") \in 0..1
          /\ One(repo.seen[b].retried) \in 0..1 /\ One(repo.seen[b].issue) \in 0..1
      BY DEF One
    <3>2. retries'[b] + One(todo'[b] = "retry") <= One(repo.seen[b].retried) + lost' + stale
      BY <1>2, <1>o, <2>1, <3>1
    <3>3. filed'[b] + One(todo'[b] = "escalate") <= One(repo.seen[b].issue) + lost' + stale
      BY <1>2, <1>o, <2>1, <3>1
    <3> QED
      BY <3>2, <3>3
  <2>4. told + One(step \in won) <= One(step \in repo.done) + lost' + stale
    BY <1>2, <2>1, <2>2
  <2> QED
    BY <2>3, <2>4
<1>7. CASE Retry(a)
  <2>1. /\ retries' = [retries EXCEPT ![a] = @ + 1] /\ todo[a] = "retry"
        /\ UNCHANGED <<files, filed, lost>>
    BY <1>7 DEF Retry
  <2>2. run' \in [Workflows -> {"never", "running", "success", "failure", "overdue"}]
    BY <1>0, <1>7, AgentsAssumption DEF Retry, FleetTypeOK
  <2>3. FleetTypeOK'
    BY <1>0, <1>6, <2>1, <2>2 DEF FleetTypeOK
  <2>4. Climbing'
    <3> SUFFICES ASSUME NEW b \in Agents
                 PROVE  /\ retries'[b] + One(todo'[b] = "retry") <= One(files.seen[b].retried) + lost + stale
                        /\ filed[b] <= One(files.seen[b].issue) + lost + stale
                        /\ todo'[b] = "escalate" => ~files.seen[b].issue
      BY <1>3, <2>1 DEF Climbing
    <3>1. CASE b = a
      <4>1. retries'[b] = retries[b] + 1 /\ todo'[b] = "none"
        BY <1>0, <1>1, <2>1, <3>1 DEF FleetTypeOK
      <4> QED
        BY <1>2, <1>4, <2>1, <3>1, <4>1 DEF One
    <3>2. CASE b # a
      <4>1. retries'[b] = retries[b] /\ todo'[b] = todo[b]
        BY <1>0, <1>1, <2>1, <3>2 DEF FleetTypeOK
      <4> QED
        BY <1>4, <4>1
    <3> QED
      BY <3>1, <3>2
  <2>5. OnOlderFiles'
    <3> SUFFICES ASSUME NEW b \in Agents
                 PROVE  /\ retries'[b] \in Nat /\ filed[b] \in Nat
                        /\ retries'[b] + One(todo'[b] = "retry") <= retries[b] + One(todo[b] = "retry")
                        /\ filed[b] + One(todo'[b] = "escalate")
                              <= filed[b] + One(todo[b] = "escalate") + (lost - lost)
      BY <1>o, <2>1
    <3>1. CASE b = a
      <4>1. retries'[b] = retries[b] + 1 /\ todo'[b] = "none"
        BY <1>0, <1>1, <2>1, <3>1 DEF FleetTypeOK
      <4> QED
        BY <1>2, <2>1, <3>1, <4>1 DEF One
    <3>2. CASE b # a
      <4>1. retries'[b] = retries[b] /\ todo'[b] = todo[b]
        BY <1>0, <1>1, <2>1, <3>2 DEF FleetTypeOK
      <4> QED
        BY <1>2, <4>1 DEF One
    <3> QED
      BY <3>1, <3>2
  <2> QED
    BY <1>5, <2>3, <2>4, <2>5 DEF FleetInv
<1>8. CASE Escalate(a)
  <2>1. /\ filed' = [filed EXCEPT ![a] = @ + 1] /\ todo[a] = "escalate"
        /\ files' = [files EXCEPT !.seen[a].issue = TRUE]
        /\ UNCHANGED <<run, retries, lost>>
    BY <1>8 DEF Escalate, outside
  <2>2. /\ files' \in Committed
        /\ files'.seen[a].issue = TRUE
        /\ files'.seen[a].retried = files.seen[a].retried
        /\ \A b \in Agents \ {a} : files'.seen[b] = files.seen[b]
    <3> DEFINE raised == [files.seen[a] EXCEPT !.issue = TRUE]
    <3>1. files \in Committed /\ files.seen \in [Agents -> Memory] /\ files.seen[a] \in Memory
      BY <1>0 DEF FleetTypeOK, Committed
    <3>2. raised \in Memory /\ raised.issue = TRUE /\ raised.retried = files.seen[a].retried
      BY <3>1 DEF Memory
    <3>3. files' = [files EXCEPT !.seen = [files.seen EXCEPT ![a] = raised]]
      BY <2>1, <3>1 DEF Committed
    <3> HIDE DEF raised
    <3>4. files'.seen = [files.seen EXCEPT ![a] = raised] /\ files' \in Committed
      BY <3>1, <3>2, <3>3 DEF Committed
    <3> QED
      BY <3>1, <3>2, <3>4
  <2>3. FleetTypeOK'
    BY <1>0, <1>1, <1>2, <1>3, <2>1, <2>2 DEF FleetTypeOK
  <2>4. Climbing'
    <3> SUFFICES ASSUME NEW b \in Agents
                 PROVE  /\ retries[b] + One(todo'[b] = "retry") <= One(files'.seen[b].retried) + lost + stale
                        /\ filed'[b] <= One(files'.seen[b].issue) + lost + stale
                        /\ todo'[b] = "escalate" => ~files'.seen[b].issue
      BY <1>3, <2>1 DEF Climbing
    <3>1. CASE b = a
      <4>1. filed'[b] = filed[b] + 1 /\ todo'[b] = "none"
        BY <1>0, <1>1, <2>1, <3>1 DEF FleetTypeOK
      <4>2. retries[b] <= One(files.seen[b].retried) + lost + stale
        BY <1>2, <1>4, <2>1, <3>1 DEF One
      <4>3. filed[b] <= lost + stale
        BY <1>2, <1>4, <2>1, <3>1 DEF One
      <4> QED
        BY <1>2, <2>2, <3>1, <4>1, <4>2, <4>3 DEF One
    <3>2. CASE b # a
      <4>1. filed'[b] = filed[b] /\ todo'[b] = todo[b] /\ files'.seen[b] = files.seen[b]
        BY <1>0, <1>1, <2>1, <2>2, <3>2 DEF FleetTypeOK
      <4> QED
        BY <1>4, <4>1
    <3> QED
      BY <3>1, <3>2
  <2>5. OnOlderFiles'
    <3> SUFFICES ASSUME NEW b \in Agents
                 PROVE  /\ retries[b] \in Nat /\ filed'[b] \in Nat
                        /\ retries[b] + One(todo'[b] = "retry") <= retries[b] + One(todo[b] = "retry")
                        /\ filed'[b] + One(todo'[b] = "escalate")
                              <= filed[b] + One(todo[b] = "escalate") + (lost - lost)
      BY <1>o, <2>1
    <3>1. CASE b = a
      <4>1. filed'[b] = filed[b] + 1 /\ todo'[b] = "none"
        BY <1>0, <1>1, <2>1, <3>1 DEF FleetTypeOK
      <4> QED
        BY <1>2, <2>1, <3>1, <4>1 DEF One
    <3>2. CASE b # a
      <4>1. filed'[b] = filed[b] /\ todo'[b] = todo[b]
        BY <1>0, <1>1, <2>1, <3>2 DEF FleetTypeOK
      <4> QED
        BY <1>2, <4>1 DEF One
    <3> QED
      BY <3>1, <3>2
  <2> QED
    BY <1>5, <2>3, <2>4, <2>5 DEF FleetInv
<1>9. CASE EscalateFails(a)
  <2>1. /\ UNCHANGED <<run, retries, files>> /\ todo[a] = "escalate"
        /\ \/ UNCHANGED <<filed, lost>>
           \/ lost' = lost + 1 /\ filed' = [filed EXCEPT ![a] = @ + 1]
    BY <1>9 DEF EscalateFails, outside
  <2>2. FleetTypeOK'
    BY <1>0, <1>6, <2>1 DEF FleetTypeOK
  <2>3. Climbing'
    <3> SUFFICES ASSUME NEW b \in Agents
                 PROVE  /\ retries[b] + One(todo'[b] = "retry") <= One(files.seen[b].retried) + lost' + stale
                        /\ filed'[b] <= One(files.seen[b].issue) + lost' + stale
                        /\ todo'[b] = "escalate" => ~files.seen[b].issue
      BY <1>3, <2>1 DEF Climbing
    <3>1. todo'[b] = todo[b] \/ todo'[b] = "none"
      BY <1>0, <1>1 DEF FleetTypeOK
    <3>2. retries[b] + One(todo'[b] = "retry") <= One(files.seen[b].retried) + lost' + stale
      <4>1. One(todo'[b] = "retry") <= One(todo[b] = "retry")
        BY <3>1 DEF One
      <4>2. /\ One(todo'[b] = "retry") \in 0..1 /\ One(todo[b] = "retry") \in 0..1
            /\ One(files.seen[b].retried) \in 0..1
        BY DEF One
      <4> QED
        BY <1>2, <1>4, <4>1, <4>2
    <3>3. filed'[b] <= One(files.seen[b].issue) + lost' + stale
      <4>1. filed'[b] - lost' <= filed[b] - lost /\ filed'[b] \in Nat
        BY <1>0, <1>2, <2>1 DEF FleetTypeOK
      <4>2. One(files.seen[b].issue) \in 0..1
        BY DEF One
      <4> QED
        BY <1>2, <1>4, <4>1, <4>2
    <3> QED
      BY <1>4, <3>1, <3>2, <3>3
  <2>4. OnOlderFiles'
    <3> SUFFICES ASSUME NEW b \in Agents
                 PROVE  /\ retries[b] \in Nat /\ filed'[b] \in Nat
                        /\ retries[b] + One(todo'[b] = "retry") <= retries[b] + One(todo[b] = "retry")
                        /\ filed'[b] + One(todo'[b] = "escalate")
                              <= filed[b] + One(todo[b] = "escalate") + (lost' - lost)
      BY <1>o, <2>1
    <3>1. todo'[b] = todo[b] \/ todo'[b] = "none"
      BY <1>0, <1>1 DEF FleetTypeOK
    <3>2. /\ One(todo'[b] = "retry") <= One(todo[b] = "retry")
          /\ One(todo'[b] = "escalate") <= One(todo[b] = "escalate")
          /\ One(todo[b] = "retry") \in 0..1 /\ One(todo'[b] = "retry") \in 0..1
          /\ One(todo[b] = "escalate") \in 0..1 /\ One(todo'[b] = "escalate") \in 0..1
      BY <3>1 DEF One
    <3>3. filed'[b] <= filed[b] + (lost' - lost) /\ filed'[b] \in Nat
      BY <1>0, <1>2, <2>1 DEF FleetTypeOK
    <3> QED
      BY <1>2, <3>2, <3>3
  <2> QED
    BY <1>5, <2>2, <2>3, <2>4 DEF FleetInv
<1>10. CASE SayRecovered(a)
  <2>1. UNCHANGED <<run, retries, filed, files, lost>> /\ todo[a] = "recovered"
    BY <1>10 DEF SayRecovered, outside, history
  <2>2. FleetTypeOK'
    BY <1>0, <1>6, <2>1 DEF FleetTypeOK
  <2>3. Climbing'
    <3> SUFFICES ASSUME NEW b \in Agents
                 PROVE  /\ retries[b] + One(todo'[b] = "retry") <= One(files.seen[b].retried) + lost + stale
                        /\ filed[b] <= One(files.seen[b].issue) + lost + stale
                        /\ todo'[b] = "escalate" => ~files.seen[b].issue
      BY <1>3, <2>1 DEF Climbing
    <3>1. CASE b = a
      <4>1. todo'[b] = "none" /\ todo[b] = "recovered"
        BY <1>0, <1>1, <2>1, <3>1 DEF FleetTypeOK
      <4> QED
        BY <1>4, <4>1 DEF One
    <3>2. CASE b # a
      <4>1. todo'[b] = todo[b]
        BY <1>0, <1>1, <3>2 DEF FleetTypeOK
      <4> QED
        BY <1>4, <4>1
    <3> QED
      BY <3>1, <3>2
  <2>4. OnOlderFiles'
    <3> SUFFICES ASSUME NEW b \in Agents
                 PROVE  /\ retries[b] \in Nat /\ filed[b] \in Nat
                        /\ retries[b] + One(todo'[b] = "retry") <= retries[b] + One(todo[b] = "retry")
                        /\ filed[b] + One(todo'[b] = "escalate")
                              <= filed[b] + One(todo[b] = "escalate") + (lost - lost)
      BY <1>o, <2>1
    <3>1. todo'[b] = todo[b] \/ todo'[b] = "none"
      BY <1>0, <1>1 DEF FleetTypeOK
    <3> QED
      BY <1>2, <3>1 DEF One
  <2> QED
    BY <1>5, <2>2, <2>3, <2>4 DEF FleetInv
<1> QED
  BY <1>7, <1>8, <1>9, <1>10 DEF Act

LEMMA SendHolds == ASSUME FleetInv, Send PROVE FleetInv'
<1>0. FleetTypeOK /\ phase = "acting"
  BY DEF FleetInv, Send, Celebrate, Brief, NoBrief, Ready
<1>1. /\ told + One(step \in won) <= One(step \in files.done) + lost + stale
      /\ base # repo => told + One(step \in won) <= One(step \in repo.done) + lost + stale
      /\ told \in Nat /\ lost \in Nat /\ stale \in Nat
  BY <1>0, LostAssumption DEF FleetInv, Celebrating, OnOlderFiles, FleetTypeOK
<1>2. CASE Celebrate
  <2>1. /\ told' \in Nat /\ told' + One(step \in won') <= One(step \in files.done) + lost + stale
        /\ base # repo => told' + One(step \in won') <= One(step \in repo.done) + lost + stale
    <3>1. won' = {} /\ told' \in {told, told + One(step \in won)}
      BY <1>2 DEF Celebrate, One
    <3>2. One(step \in {}) = 0 /\ One(step \in won) \in 0..1 /\ One(step \in files.done) \in 0..1
          /\ One(step \in repo.done) \in 0..1
      BY DEF One
    <3>3. told' \in Nat /\ told' + One(step \in won') <= told + One(step \in won)
      BY <1>1, <1>2, <3>1, <3>2 DEF Celebrate
    <3>4. One(step \in won') \in 0..1
      BY DEF One
    <3> QED
      BY <1>1, <3>2, <3>3, <3>4
  <2>2. FleetTypeOK'
    BY <1>0, <1>2, <2>1 DEF Celebrate, outside, queue, FleetTypeOK
  <2> QED
    BY <1>0, <1>2, <2>1, <2>2 DEF Celebrate, outside, queue, FleetInv, OverIsCommitted, Climbing,
                                  Celebrating, OnOlderFiles, Grounding
<1>3. CASE Brief
  <2>1. files' \in Committed /\ files'.done = files.done /\ files'.seen = files.seen
    BY <1>0, <1>3 DEF Brief, FleetTypeOK, Committed
  <2>2. FleetTypeOK'
    BY <1>0, <1>3, <2>1 DEF Brief, outside, queue, history, FleetTypeOK
  <2>3. OverIsCommitted'
    BY <1>3 DEF Brief, Ready, Pending, OverIsCommitted
  <2> QED
    BY <1>3, <2>1, <2>2, <2>3 DEF Brief, outside, queue, history, FleetInv, Climbing,
                                  Celebrating, OnOlderFiles, Grounding
<1>4. CASE NoBrief
  <2>2. FleetTypeOK'
    BY <1>0, <1>4 DEF NoBrief, outside, queue, history, FleetTypeOK
  <2>3. OverIsCommitted'
    BY <1>4 DEF NoBrief, Ready, Pending, OverIsCommitted
  <2> QED
    BY <1>4, <2>2, <2>3 DEF NoBrief, outside, queue, history, FleetInv, Climbing,
                            Celebrating, OnOlderFiles, Grounding
<1> QED
  BY <1>2, <1>3, <1>4 DEF Send

\* What is committed of an agent and of the plan is what one of the two sides had.
LEMMA PushHolds == ASSUME FleetInv, Push PROVE FleetInv'
<1>0. /\ FleetTypeOK /\ phase = "committing"
      /\ \A a \in Agents : todo[a] = "none"
  BY DEF FleetInv, OverIsCommitted, Push
<1>1. /\ phase' = "over" /\ files' = repo' /\ base' = repo'
      /\ UNCHANGED <<world, declared, blind, run, waiting, stale, won, todo, next, advice,
                     step, told, grounded, filed, retries, lost>>
  BY DEF Push, outside, history
<1>2. /\ repo' \in Committed
      /\ repo'.done \subseteq repo.done \cup files.done
      /\ \/ repo'.done = repo.done /\ base # repo
         \/ files.done \subseteq repo'.done
      /\ \A a \in Agents : \/ repo'.seen[a] = repo.seen[a] /\ base # repo
                          \/ repo'.seen[a] = files.seen[a]
  <2>1. repo \in Committed /\ files \in Committed
    BY <1>0 DEF FleetTypeOK
  <2>2. CASE base = repo /\ repo' = files
    BY <2>1, <2>2 DEF Committed
  <2>3. CASE base # repo /\ repo' = Merged
    <3>1. Merged \in Committed
      BY <2>1 DEF Merged, Committed
    <3> QED
      BY <2>3, <3>1 DEF Merged
  <2>4. CASE base # repo /\ repo' = repo
    BY <2>1, <2>4
  <2> QED
    BY <2>2, <2>3, <2>4 DEF Push
<1>3. FleetTypeOK'
  BY <1>0, <1>1, <1>2 DEF FleetTypeOK
<1>4. Climbing'
  <2> SUFFICES ASSUME NEW a \in Agents
               PROVE  /\ retries[a] + One(todo[a] = "retry") <= One(repo'.seen[a].retried) + lost + stale
                      /\ filed[a] <= One(repo'.seen[a].issue) + lost + stale
    BY <1>0, <1>1 DEF Climbing
  <2>1. CASE repo'.seen[a] = repo.seen[a] /\ base # repo
    <3>1. /\ retries[a] + One(todo[a] = "retry") <= One(repo.seen[a].retried) + lost + stale
          /\ filed[a] + One(todo[a] = "escalate") <= One(repo.seen[a].issue) + lost + stale
      BY <2>1 DEF FleetInv, OnOlderFiles
    <3>2. One(todo[a] = "escalate") = 0 /\ filed[a] \in Nat
      BY <1>0 DEF One, FleetTypeOK
    <3> QED
      BY <2>1, <3>1, <3>2
  <2>2. CASE repo'.seen[a] = files.seen[a]
    BY <2>2 DEF FleetInv, Climbing
  <2> QED
    BY <1>2, <2>1, <2>2
<1>5. Celebrating'
  <2>1. CASE repo'.done = repo.done /\ base # repo
    BY <1>1, <2>1 DEF FleetInv, OnOlderFiles, Celebrating
  <2>2. CASE files.done \subseteq repo'.done
    <3>1. told + One(step \in won) <= One(step \in files.done) + lost + stale
      BY DEF FleetInv, Celebrating
    <3>2. told \in Nat /\ lost \in Nat /\ stale \in Nat
      BY <1>0, LostAssumption DEF FleetTypeOK
    <3>3. /\ One(step \in files.done) <= One(step \in repo'.done)
          /\ One(step \in files.done) \in 0..1 /\ One(step \in repo'.done) \in 0..1
          /\ One(step \in won) \in 0..1
      BY <2>2 DEF One
    <3>4. told + One(step \in won) <= One(step \in repo'.done) + lost + stale
      BY <3>1, <3>2, <3>3
    <3> QED
      BY <1>1, <3>4 DEF Celebrating
  <2> QED
    BY <1>2, <2>1, <2>2
<1>6. Grounding'
  BY <1>1, <1>2 DEF FleetInv, Grounding
<1> QED
  BY <1>0, <1>1, <1>3, <1>4, <1>5, <1>6 DEF FleetInv, OverIsCommitted, OnOlderFiles

\* A run that is lost is back at what was committed, which knows nothing of what it
\* has sent: that is what the number of lost runs pays for.
LEMMA LoseHolds == ASSUME FleetInv, Lose PROVE FleetInv'
<1>0. FleetTypeOK /\ lost \in Nat /\ lost' = lost + 1 /\ lost' \in 0..MaxLost /\ stale \in Nat
  BY LostAssumption DEF FleetInv, Lose, FleetTypeOK
<1>1. /\ phase' = "over" /\ files' = repo /\ base' = repo /\ won' = {} /\ next' = {}
      /\ UNCHANGED <<waiting, stale>>
      /\ todo' = [a \in Agents |-> "none"]
      /\ UNCHANGED <<world, declared, blind, run, repo, advice, step, told, grounded, filed, retries>>
  BY DEF Lose, outside, history
<1>2. FleetTypeOK'
  BY <1>0, <1>1 DEF FleetTypeOK
<1>3. Climbing'
  <2> SUFFICES ASSUME NEW a \in Agents
               PROVE  /\ retries[a] + One("none" = "retry") <= One(repo.seen[a].retried) + lost' + stale
                      /\ filed[a] <= One(repo.seen[a].issue) + lost' + stale
    BY <1>1 DEF Climbing
  <2>1. /\ retries[a] + One(todo[a] = "retry") <= One(files.seen[a].retried) + lost + stale
        /\ filed[a] <= One(files.seen[a].issue) + lost + stale
        /\ retries[a] \in Nat /\ filed[a] \in Nat
    BY <1>0 DEF FleetInv, Climbing, FleetTypeOK
  <2> QED
    BY <1>0, <2>1 DEF One
<1>4. Celebrating'
  <2>1. told + One(step \in won) <= One(step \in files.done) + lost + stale /\ told \in Nat
    BY <1>0 DEF FleetInv, Celebrating, FleetTypeOK
  <2>2. told + One(step \in {}) <= One(step \in repo.done) + (lost + 1) + stale
    BY <1>0, <2>1 DEF One
  <2> QED
    BY <1>0, <1>1, <2>2 DEF Celebrating
<1> QED
  BY <1>1, <1>2, <1>3, <1>4 DEF FleetInv, OverIsCommitted, OnOlderFiles, Grounding

LEMMA FleetNextHolds == FleetInv /\ [FleetNext]_fleetVars => FleetInv'
<1> SUFFICES ASSUME FleetInv, [FleetNext]_fleetVars PROVE FleetInv'
  OBVIOUS
<1>1. ASSUME Scheduled \/ Started PROVE FleetInv'
  <2>1. PICK answered \in SUBSET Agents : Begin(answered)
    BY <1>1, AgentsAssumption DEF Scheduled, Started
  <2> QED
    BY <2>1, BeginHolds
<1>2. CASE UNCHANGED fleetVars
  BY <1>2 DEF fleetVars, outside, queue, runner, history, FleetInv, FleetTypeOK,
              OverIsCommitted, Climbing, Celebrating, OnOlderFiles, Grounding
<1> QED
  BY <1>1, <1>2, WorldHolds, NewDayHolds, QueueHolds, ActHolds, SendHolds, PushHolds, LoseHolds DEF FleetNext

LEMMA FleetInvariant == FleetSpec => []FleetInv
BY FleetInitHolds, FleetNextHolds, PTL DEF FleetSpec

\* World, files and runner of the fleet keep their types, for any agents, workflows
\* and outages.
THEOREM FleetTypeCorrect == FleetSpec => []FleetTypeOK
<1>1. FleetInv => FleetTypeOK
  BY DEF FleetInv
<1> QED
  BY <1>1, FleetInvariant, PTL

\* However runs die, pushes are rejected and issues are opened without an answer, an
\* agent that stays down is retried once and raised once, and once more for every
\* such loss and for every run that began on older files than the committed ones.
THEOREM LadderIsClimbedOnce == FleetSpec => []LadderClimbedOnce
<1>1. FleetInv => LadderClimbedOnce
  <2> SUFFICES ASSUME FleetInv, NEW a \in Agents
               PROVE  filed[a] <= 1 + lost + stale /\ retries[a] <= 1 + lost + stale
    BY DEF LadderClimbedOnce
  <2>1. filed[a] \in Nat /\ retries[a] \in Nat /\ lost \in Nat /\ stale \in Nat
    BY LostAssumption DEF FleetInv, FleetTypeOK
  <2>2. /\ retries[a] + One(todo[a] = "retry") <= One(files.seen[a].retried) + lost + stale
        /\ filed[a] <= One(files.seen[a].issue) + lost + stale
    BY DEF FleetInv, Climbing
  <2> QED
    BY <2>1, <2>2 DEF One
<1> QED
  BY <1>1, FleetInvariant, PTL

\* Whatever source flickers and whatever a person claims, a step is celebrated once,
\* and once more for every run that was lost or began on older files; and nothing is recorded as done that
\* was neither done nor declared where no check could run.
THEOREM CelebrationHappensOnce == FleetSpec => []CelebratedOnce
<1>1. FleetInv => CelebratedOnce
  <2> SUFFICES ASSUME FleetInv
               PROVE  told <= 1 + lost + stale /\ (step \in repo.done \cup files.done => grounded)
    BY DEF CelebratedOnce
  <2>1. told \in Nat /\ lost \in Nat /\ stale \in Nat
    BY LostAssumption DEF FleetInv, FleetTypeOK
  <2>2. told + One(step \in won) <= One(step \in files.done) + lost + stale
    BY DEF FleetInv, Celebrating
  <2>3. told <= 1 + lost + stale
    BY <2>1, <2>2 DEF One
  <2> QED
    BY <2>3 DEF FleetInv, Grounding
<1> QED
  BY <1>1, FleetInvariant, PTL

------------------------------------------------------------------------------
\* THE FUSE

Apart == ~disturbed => ~(resetting /\ Halfway # {})

FirstCallMade ==
    ~disturbed =>
        /\ Halfway # {} => concurrency = 0
        /\ resetting => concurrency = Concurrency

FuseInv == FuseTypeOK /\ Apart /\ FirstCallMade /\ StatusTruthful

USE AlarmsAssumption, CountsAssumption

------------------------------------------------------------------------------
LEMMA FuseInitHolds == FuseInit => FuseInv
<1> SUFFICES ASSUME FuseInit PROVE FuseInv
  OBVIOUS
<1>1. FuseTypeOK
  <2>1. 0 \in 0..MaxAttempts /\ 0 \in 0..MaxResets
    OBVIOUS
  <2>2. /\ attempts \in [Alarms -> 0..MaxAttempts] /\ resets \in 0..MaxResets
        /\ silent \in [Alarms -> Nat]
    BY <2>1 DEF FuseInit
  <2>3. /\ deliveries \in [Alarms -> Nat]
        /\ \A a \in Alarms : deliveries[a] <= MaxDeliveries[a]
    BY DEF FuseInit
  <2>4. fuse \in [Fuses -> {"ARMED", "TRIPPED"}] /\ concurrency \in {0, Concurrency}
    BY DEF FuseInit
  <2>5. handling \in
          [Alarms -> {"none", "invoked", "stopped", "failed", "handled", "gave_up"}]
    BY DEF FuseInit
  <2>6. resetting \in BOOLEAN /\ disturbed \in BOOLEAN /\ ownerTold \subseteq Alarms
    BY DEF FuseInit
  <2> QED
    BY <2>2, <2>3, <2>4, <2>5, <2>6 DEF FuseTypeOK
<1>2. Halfway = {}
  BY DEF FuseInit, Halfway
<1>3. fuse["AD_FUSE"] = "ARMED" /\ concurrency # 0 /\ ~resetting
  BY DEF FuseInit, Fuses, Kinds
<1> QED
  BY <1>1, <1>2, <1>3 DEF FuseInv, Apart, FirstCallMade, StatusTruthful

HandlingStates == {"none", "invoked", "stopped", "failed", "handled", "gave_up"}

\* An invocation that errs is run again or given up: it is not half done.
LEMMA ErrsType ==
  ASSUME FuseTypeOK, NEW a \in Alarms, NEW from \in {"invoked", "stopped", "failed"},
         Errs(a, from)
  PROVE  /\ handling' \in [Alarms -> HandlingStates]
         /\ attempts' \in [Alarms -> 0..MaxAttempts]
         /\ UNCHANGED deliveries
         /\ from # "stopped" => Halfway' = Halfway
<1>1. CASE attempts[a] < MaxAttempts
  <2>1. attempts[a] + 1 \in 0..MaxAttempts
    BY <1>1 DEF FuseTypeOK
  <2> QED
    BY <1>1, <2>1 DEF Errs, FuseTypeOK, Halfway, HandlingStates
<1>2. CASE ~(attempts[a] < MaxAttempts)
  BY <1>2 DEF Errs, FuseTypeOK, Halfway, HandlingStates
<1> QED
  BY <1>1, <1>2

LEMMA StepType ==
  ASSUME FuseTypeOK, NEW a \in Alarms, NEW from \in {"invoked", "stopped"},
         NEW to \in {"stopped", "failed", "handled"}, Step(a, from, to)
  PROVE  /\ handling' \in [Alarms -> HandlingStates]
         /\ to = "stopped" => Halfway' = Halfway \cup {a}
         /\ to # "stopped" => Halfway' = Halfway \ {a}
         /\ from = "stopped" => a \in Halfway
         /\ from = "invoked" => a \notin Halfway
BY DEF Step, FuseTypeOK, Halfway, HandlingStates

LEMMA SilentlyType ==
  ASSUME FuseTypeOK, NEW a \in Alarms, Silently(a)
  PROVE  silent' \in [Alarms -> Nat] /\ ownerTold' \subseteq Alarms
BY DEF Silently, FuseTypeOK

LEMMA InvokeHolds == ASSUME FuseInv, NEW a \in Alarms, Invoke(a) PROVE FuseInv'
<1>1. FuseTypeOK'
  <2>1. deliveries' \in [Alarms -> Nat] /\ \A b \in Alarms : deliveries'[b] <= MaxDeliveries[b]
    BY DEF FuseInv, FuseTypeOK, Invoke
  <2>2. /\ handling' \in [Alarms -> HandlingStates]
        /\ attempts' \in [Alarms -> 0..MaxAttempts]
        /\ ownerTold' \subseteq Alarms /\ silent' \in [Alarms -> Nat]
    BY DEF FuseInv, FuseTypeOK, Invoke, HandlingStates
  <2> QED
    BY <2>1, <2>2 DEF FuseInv, FuseTypeOK, Invoke, HandlingStates
<1>2. Halfway' = Halfway
  BY DEF FuseInv, FuseTypeOK, Invoke, Halfway
<1> QED
  BY <1>1, <1>2 DEF FuseInv, Invoke, Apart, FirstCallMade, StatusTruthful

LEMMA HandleHolds == ASSUME FuseInv, NEW a \in Alarms, Handle(a) PROVE FuseInv'
<1> USE DEF FuseInv, runs, notices
<1>1. CASE StopServing(a)
  <2>1. Step(a, "invoked", "stopped")
    BY <1>1 DEF StopServing
  <2>2. Halfway' = Halfway \cup {a} /\ handling' \in [Alarms -> HandlingStates]
    BY <2>1, StepType
  <2>3. FuseTypeOK'
    BY <1>1, <2>2 DEF StopServing, FuseTypeOK, HandlingStates
  <2> QED
    BY <1>1, <2>2, <2>3 DEF StopServing, Apart, FirstCallMade, StatusTruthful
<1>2. CASE StopServingFails(a)
  <2>1. Step(a, "invoked", "failed")
    BY <1>2 DEF StopServingFails
  <2>2. handling' \in [Alarms -> HandlingStates]
    BY <2>1, StepType
  <2>3. FuseTypeOK'
    BY <1>2, <2>2 DEF StopServingFails, FuseTypeOK, HandlingStates
  <2> QED
    BY <1>2, <2>3 DEF StopServingFails, Apart, FirstCallMade, StatusTruthful
<1>3. CASE Notify(a)
  <2>1. /\ handling' \in [Alarms -> HandlingStates]
        /\ attempts' \in [Alarms -> 0..MaxAttempts]
        /\ UNCHANGED deliveries
        /\ Halfway' = Halfway
    BY <1>3, ErrsType DEF Notify
  <2>2. silent' \in [Alarms -> Nat] /\ ownerTold' \subseteq Alarms
    BY <1>3, SilentlyType DEF Notify, FuseTypeOK
  <2>3. FuseTypeOK'
    BY <1>3, <2>1, <2>2 DEF Notify, FuseTypeOK, HandlingStates
  <2> QED
    BY <1>3, <2>1, <2>3 DEF Notify, Apart, FirstCallMade, StatusTruthful
<1>4. CASE RecordTrip(a)
  <2>1. Step(a, "stopped", "handled")
    BY <1>4 DEF RecordTrip
  <2>2. /\ Halfway' = Halfway \ {a}
        /\ a \in Halfway
        /\ handling' \in [Alarms -> HandlingStates]
    BY <2>1, StepType
  <2>3. FuseTypeOK'
    BY <1>4, <2>2 DEF RecordTrip, FuseTypeOK, HandlingStates
  <2>4. CASE fuse' = [fuse EXCEPT !["AD_FUSE"] = "TRIPPED"] /\ UNCHANGED disturbed
    <3>1. fuse'["AD_FUSE"] = "TRIPPED"
      BY <2>4 DEF FuseTypeOK, Fuses, Kinds
    <3> QED
      BY <1>4, <2>2, <2>3, <2>4, <3>1 DEF RecordTrip, Apart, FirstCallMade, StatusTruthful
  <2>5. CASE disturbed' = TRUE
    BY <2>3, <2>5 DEF Apart, FirstCallMade, StatusTruthful
  <2> QED
    BY <1>4, <2>4, <2>5 DEF RecordTrip
<1>5. CASE RecordAnalyticsTrip(a)
  <2>1. Step(a, "invoked", "handled")
    BY <1>5 DEF RecordAnalyticsTrip
  <2>2. Halfway' = Halfway /\ handling' \in [Alarms -> HandlingStates]
    BY <2>1, StepType
  <2>3. FuseTypeOK' /\ fuse'["AD_FUSE"] = fuse["AD_FUSE"]
    BY <1>5, <2>2 DEF RecordAnalyticsTrip, FuseTypeOK, Fuses, Kinds, HandlingStates
  <2> QED
    BY <1>5, <2>2, <2>3 DEF RecordAnalyticsTrip, Apart, FirstCallMade, StatusTruthful
<1>6. CASE RecordAnalyticsTripFails(a)
  <2>1. /\ handling' \in [Alarms -> HandlingStates]
        /\ attempts' \in [Alarms -> 0..MaxAttempts]
        /\ UNCHANGED deliveries
        /\ Halfway' = Halfway
    BY <1>6, ErrsType DEF RecordAnalyticsTripFails
  <2>2. FuseTypeOK' /\ fuse'["AD_FUSE"] = fuse["AD_FUSE"]
    BY <1>6, <2>1 DEF RecordAnalyticsTripFails, FuseTypeOK, Fuses, Kinds, HandlingStates
  <2> QED
    BY <1>6, <2>1, <2>2 DEF RecordAnalyticsTripFails, Apart, FirstCallMade, StatusTruthful
<1>7. CASE Warn(a)
  <2>1. Step(a, "invoked", "handled")
    BY <1>7 DEF Warn
  <2>2. Halfway' = Halfway /\ handling' \in [Alarms -> HandlingStates]
    BY <2>1, StepType
  <2>3. FuseTypeOK'
    BY <1>7, <2>2 DEF Warn, FuseTypeOK, HandlingStates
  <2> QED
    BY <1>7, <2>2, <2>3 DEF Warn, Apart, FirstCallMade, StatusTruthful
<1>8. CASE CutShort(a)
  <2>1. PICK from \in {"invoked", "stopped", "failed"} : Errs(a, from)
    BY <1>8 DEF CutShort
  <2>2. /\ handling' \in [Alarms -> HandlingStates]
        /\ attempts' \in [Alarms -> 0..MaxAttempts]
        /\ UNCHANGED deliveries
    BY <2>1, ErrsType
  <2>3. silent' \in [Alarms -> Nat] /\ ownerTold' \subseteq Alarms
    BY <1>8, SilentlyType DEF CutShort
  <2>4. fuse' \in [Fuses -> {"ARMED", "TRIPPED"}]
    BY <1>8 DEF CutShort, FuseTypeOK
  <2>5. concurrency' \in {0, Concurrency} /\ disturbed' \in BOOLEAN
    BY <1>8 DEF CutShort, FuseTypeOK
  <2>6. FuseTypeOK'
    BY <1>8, <2>2, <2>3, <2>4, <2>5 DEF CutShort, FuseTypeOK, HandlingStates
  <2>7. CASE disturbed' = TRUE
    BY <2>6, <2>7 DEF Apart, FirstCallMade, StatusTruthful
  <2>8. CASE disturbed' # TRUE
    <3>1. Errs(a, "invoked") \/ Errs(a, "failed")
      BY <1>8, <2>8 DEF CutShort
    <3>2. Halfway' = Halfway
      BY <3>1, ErrsType
    <3>3. UNCHANGED <<concurrency, disturbed, resetting>>
      BY <1>8, <2>8 DEF CutShort
    <3>4. fuse'["AD_FUSE"] = fuse["AD_FUSE"]
      <4>1. fuse' = fuse \/ fuse' = [fuse EXCEPT !["ANALYTICS_FUSE"] = "TRIPPED"]
        BY <1>8, <2>8 DEF CutShort
      <4>2. fuse \in [Fuses -> {"ARMED", "TRIPPED"}] /\ "AD_FUSE" \in Fuses
        BY DEF FuseTypeOK, Fuses, Kinds
      <4> QED
        BY <4>1, <4>2
    <3> QED
      BY <2>6, <3>2, <3>3, <3>4 DEF Apart, FirstCallMade, StatusTruthful
  <2> QED
    BY <2>7, <2>8
<1> QED
  BY <1>1, <1>2, <1>3, <1>4, <1>5, <1>6, <1>7, <1>8 DEF Handle

LEMMA ResetHolds == ASSUME FuseInv, Reset PROVE FuseInv'
<1> USE DEF FuseInv, runs, notices
<1>1. CASE ResetAdFuse
  <2>1. FuseTypeOK' /\ Halfway' = Halfway
    BY <1>1 DEF ResetAdFuse, FuseTypeOK, Halfway
  <2> QED
    BY <1>1, <2>1 DEF ResetAdFuse, Apart, FirstCallMade, StatusTruthful
<1>2. CASE RearmAdFuse
  <2>1. FuseTypeOK' /\ Halfway' = Halfway
    BY <1>2 DEF RearmAdFuse, FuseTypeOK, Halfway
  <2>2. CASE fuse' = [fuse EXCEPT !["AD_FUSE"] = "ARMED"] /\ UNCHANGED disturbed
    <3>1. fuse'["AD_FUSE"] = "ARMED"
      BY <2>2 DEF FuseTypeOK, Fuses, Kinds
    <3> QED
      BY <1>2, <2>1, <2>2, <3>1 DEF RearmAdFuse, Apart, FirstCallMade, StatusTruthful
  <2>3. CASE disturbed' = TRUE
    BY <2>1, <2>3 DEF Apart, FirstCallMade, StatusTruthful
  <2> QED
    BY <1>2, <2>2, <2>3 DEF RearmAdFuse
<1>3. CASE ResetAnalyticsFuse
  <2>1. FuseTypeOK' /\ Halfway' = Halfway /\ fuse'["AD_FUSE"] = fuse["AD_FUSE"]
    BY <1>3 DEF ResetAnalyticsFuse, FuseTypeOK, Halfway, Fuses, Kinds
  <2> QED
    BY <1>3, <2>1 DEF ResetAnalyticsFuse, Apart, FirstCallMade, StatusTruthful
<1> QED
  BY <1>1, <1>2, <1>3 DEF Reset

LEMMA FuseNextHolds == FuseInv /\ [FuseNext]_fuseVars => FuseInv'
<1> SUFFICES ASSUME FuseInv, [FuseNext]_fuseVars PROVE FuseInv'
  OBVIOUS
<1>1. CASE FuseNext
  BY <1>1, InvokeHolds, HandleHolds, ResetHolds DEF FuseNext
<1>2. CASE UNCHANGED fuseVars
  BY <1>2 DEF fuseVars, runs, notices, FuseInv, FuseTypeOK, Apart, FirstCallMade, StatusTruthful, Halfway
<1> QED
  BY <1>1, <1>2

LEMMA FuseInvariant == FuseSpec => []FuseInv
BY FuseInitHolds, FuseNextHolds, PTL DEF FuseSpec

\* The concurrency is zero or what it is when armed, each fuse is armed or
\* tripped, and no delivery of an alarm is attempted more often than Lambda would.
THEOREM FuseTypeCorrect == FuseSpec => []FuseTypeOK
<1>1. FuseInv => FuseTypeOK
  BY DEF FuseInv
<1> QED
  BY <1>1, FuseInvariant, PTL

\* However trips and resets interleave and whatever fails, the row of the ad fuse
\* tells what the ad server does once the last of them went through.
THEOREM StatusIsTruthful == FuseSpec => []StatusTruthful
<1>1. FuseInv => StatusTruthful
  BY DEF FuseInv
<1> QED
  BY <1>1, FuseInvariant, PTL

------------------------------------------------------------------------------
\* SUMS, as sets of units

Units(f, S) == UNION {{a} \X (1..f[a]) : a \in S}

LEMMA FirstNumbers ==
  ASSUME NEW n \in Nat
  PROVE  IsFiniteSet(1..n) /\ Cardinality(1..n) = n
<1>1. 1 \in Int /\ n \in Int /\ n >= 0
  OBVIOUS
<1> QED
  BY <1>1, FS_Interval

LEMMA UnitsOfOne ==
  ASSUME NEW x, NEW n \in Nat
  PROVE  IsFiniteSet({x} \X (1..n)) /\ Cardinality({x} \X (1..n)) = n
<1>1. IsFiniteSet({x}) /\ Cardinality({x}) = 1
  BY FS_Singleton
<1>2. IsFiniteSet(1..n) /\ Cardinality(1..n) = n
  BY FirstNumbers
<1>3. /\ IsFiniteSet({x} \X (1..n))
      /\ Cardinality({x} \X (1..n)) = Cardinality({x}) * Cardinality(1..n)
  BY <1>1, <1>2, FS_Product, Zenon
<1>4. 1 * n = n
  OBVIOUS
<1> QED
  BY <1>1, <1>2, <1>3, <1>4, Zenon

LEMMA DisjointUnion ==
  ASSUME NEW A, IsFiniteSet(A), NEW B, IsFiniteSet(B), A \cap B = {}
  PROVE  Cardinality(A \cup B) = Cardinality(A) + Cardinality(B)
<1>1. Cardinality(A) \in Nat /\ Cardinality(B) \in Nat
  BY FS_CardinalityType
<1>2. Cardinality(A \cup B) = Cardinality(A) + Cardinality(B) - Cardinality(A \cap B)
  BY FS_Union
<1>3. Cardinality(A \cap B) = 0
  BY FS_EmptySet
<1> QED
  BY <1>1, <1>2, <1>3

LEMMA UnitIn ==
  ASSUME NEW f, NEW S
  PROVE  /\ \A a, k : <<a, k>> \in Units(f, S) <=> a \in S /\ k \in 1..f[a]
         /\ \A x \in Units(f, S) : x = <<x[1], x[2]>> /\ x[1] \in S /\ x[2] \in 1..f[x[1]]
<1>1. \A a, k : <<a, k>> \in Units(f, S) <=> a \in S /\ k \in 1..f[a]
  BY DEF Units
<1>2. \A x \in Units(f, S) : x = <<x[1], x[2]>> /\ x[1] \in S /\ x[2] \in 1..f[x[1]]
  BY DEF Units
<1> QED
  BY <1>1, <1>2

\* A sum of at most m each is at most m times as many.
LEMMA TotalBound ==
  ASSUME NEW S, IsFiniteSet(S), NEW f, NEW m \in Nat,
         \A a \in S : f[a] \in Nat /\ f[a] <= m
  PROVE  /\ IsFiniteSet(Units(f, S)) /\ Total(f, S) \in Nat
         /\ Total(f, S) = Cardinality(Units(f, S))
         /\ Cardinality(S) \in Nat /\ Total(f, S) <= Cardinality(S) * m
<1>1. Units(f, S) \in SUBSET (S \X (1..m))
  <2> SUFFICES ASSUME NEW x \in Units(f, S) PROVE x \in S \X (1..m)
    OBVIOUS
  <2>1. x = <<x[1], x[2]>> /\ x[1] \in S /\ x[2] \in 1..f[x[1]]
    BY UnitIn
  <2>2. f[x[1]] \in Nat /\ f[x[1]] <= m
    BY <2>1
  <2>3. x[2] \in 1..m
    BY <2>1, <2>2
  <2> QED
    BY <2>1, <2>3
<1>2. IsFiniteSet(1..m) /\ Cardinality(1..m) = m
  BY FirstNumbers
<1>3. IsFiniteSet(S \X (1..m)) /\ Cardinality(S \X (1..m)) = Cardinality(S) * m
  BY <1>2, FS_Product
<1>4. Cardinality(S) \in Nat
  BY FS_CardinalityType
<1> QED
  BY <1>1, <1>3, <1>4, FS_Subset, FS_CardinalityType DEF Total, Units

\* What is said of bounded terms holds of any, for a finite set of them has a bound.
LEMMA TotalCounts ==
  ASSUME NEW S, IsFiniteSet(S), NEW f, \A a \in S : f[a] \in Int
  PROVE  /\ IsFiniteSet(Units(f, S)) /\ Total(f, S) \in Nat
         /\ Total(f, S) = Cardinality(Units(f, S))
<1> DEFINE T == {{a} \X (1..f[a]) : a \in S}
           g == [a \in S |-> {a} \X (1..f[a])]
<1>1. g \in Surjection(S, T)
  BY DEF Surjection
<1>2. IsFiniteSet(T)
  <2> HIDE DEF g, T
  <2> QED
    BY <1>1, FS_Surjection
<1>3. \A U \in T : IsFiniteSet(U)
  <2> SUFFICES ASSUME NEW a \in S PROVE IsFiniteSet({a} \X (1..f[a]))
    OBVIOUS
  <2>1. f[a] \in Int /\ 1 \in Int
    OBVIOUS
  <2>2. IsFiniteSet(1..f[a])
    BY <2>1, FS_Interval
  <2>3. IsFiniteSet({a})
    BY FS_Singleton
  <2> QED
    BY <2>2, <2>3, FS_Product
<1>4. IsFiniteSet(UNION T)
  <2> HIDE DEF T
  <2> QED
    BY <1>2, <1>3, FS_UNION
<1> QED
  BY <1>4, FS_CardinalityType DEF Total, Units

LEMMA TotalType ==
  ASSUME NEW S, IsFiniteSet(S), NEW f, \A a \in S : f[a] \in Nat
  PROVE  /\ IsFiniteSet(Units(f, S)) /\ Total(f, S) \in Nat
         /\ Total(f, S) = Cardinality(Units(f, S))
<1>1. \A a \in S : f[a] \in Int
  OBVIOUS
<1> QED
  BY <1>1, TotalCounts

LEMMA TotalEmpty == ASSUME NEW f PROVE Total(f, {}) = 0
<1>1. UNION {{a} \X (1..f[a]) : a \in {}} = {}
  OBVIOUS
<1> QED
  BY <1>1, FS_EmptySet DEF Total

LEMMA TotalOne == ASSUME NEW f, NEW a, f[a] \in Nat PROVE Total(f, {a}) = f[a]
<1>1. Cardinality({a} \X (1..f[a])) = f[a]
  BY UnitsOfOne
<1>2. UNION {{b} \X (1..f[b]) : b \in {a}} = {a} \X (1..f[a])
  OBVIOUS
<1> QED
  BY <1>1, <1>2 DEF Total

LEMMA TotalMono ==
  ASSUME NEW T, IsFiniteSet(T), NEW S \in SUBSET T, NEW f, NEW g,
         \A a \in T : f[a] \in Nat /\ g[a] \in Nat, \A a \in S : f[a] <= g[a]
  PROVE  Total(f, S) <= Total(g, T)
<1>1. IsFiniteSet(S)
  BY FS_Subset
<1>2. Units(f, S) \in SUBSET Units(g, T)
  <2> SUFFICES ASSUME NEW x \in Units(f, S) PROVE x \in Units(g, T)
    OBVIOUS
  <2>1. x = <<x[1], x[2]>> /\ x[1] \in S /\ x[2] \in 1..f[x[1]]
    BY UnitIn
  <2>2. x[1] \in T /\ x[2] \in 1..g[x[1]]
    BY <2>1
  <2>3. <<x[1], x[2]>> \in Units(g, T)
    BY <2>2, UnitIn
  <2> QED
    BY <2>1, <2>3
<1>3. IsFiniteSet(Units(g, T)) /\ Total(g, T) = Cardinality(Units(g, T))
  BY TotalType
<1>4. Total(f, S) = Cardinality(Units(f, S))
  BY <1>1, TotalType
<1> QED
  BY <1>2, <1>3, <1>4, FS_Subset

LEMMA TotalSame ==
  ASSUME NEW S, NEW f, NEW g, \A a \in S : f[a] = g[a]
  PROVE  Total(f, S) = Total(g, S)
<1>1. {{a} \X (1..f[a]) : a \in S} = {{a} \X (1..g[a]) : a \in S}
  OBVIOUS
<1> QED
  BY <1>1 DEF Total

LEMMA TotalSplit ==
  ASSUME NEW S, IsFiniteSet(S), NEW T, IsFiniteSet(T), S \cap T = {}, NEW f,
         \A a \in S \cup T : f[a] \in Nat
  PROVE  Total(f, S \cup T) = Total(f, S) + Total(f, T)
<1>1. IsFiniteSet(Units(f, S)) /\ Total(f, S) = Cardinality(Units(f, S))
  BY TotalType
<1>2. IsFiniteSet(Units(f, T)) /\ Total(f, T) = Cardinality(Units(f, T))
  BY TotalType
<1>3. Units(f, S \cup T) = Units(f, S) \cup Units(f, T)
  BY DEF Units
<1>4. Units(f, S) \cap Units(f, T) = {}
  BY UnitIn
<1>5. Total(f, S \cup T) = Cardinality(Units(f, S) \cup Units(f, T))
  BY <1>3 DEF Total, Units
<1> QED
  BY <1>1, <1>2, <1>4, <1>5, DisjointUnion

\* The sum of sums: the units of the second above those of the first.
LEMMA TotalPlus ==
  ASSUME NEW S, IsFiniteSet(S), NEW f, NEW g, NEW h,
         \A a \in S : f[a] \in Nat /\ g[a] \in Nat /\ h[a] = f[a] + g[a]
  PROVE  Total(h, S) = Total(f, S) + Total(g, S)
<1> DEFINE above == [u \in Units(g, S) |-> <<u[1], f[u[1]] + u[2]>>]
           Above == {above[u] : u \in Units(g, S)}
<1>1. IsFiniteSet(Units(f, S)) /\ Total(f, S) = Cardinality(Units(f, S))
  BY TotalType
<1>2. IsFiniteSet(Units(g, S)) /\ Total(g, S) = Cardinality(Units(g, S))
  BY TotalType
<1>3. Total(h, S) = Cardinality(Units(h, S))
  BY DEF Total, Units
<1>4. \A u \in Units(g, S) : /\ u = <<u[1], u[2]>> /\ u[1] \in S
                             /\ u[2] \in 1..g[u[1]] /\ f[u[1]] \in Nat
  BY UnitIn
<1>5. IsFiniteSet(Above) /\ Cardinality(Above) = Cardinality(Units(g, S))
  <2>1. above \in [Units(g, S) -> Above]
    OBVIOUS
  <2>2. \A u, v \in Units(g, S) : above[u] = above[v] => u = v
    <3> SUFFICES ASSUME NEW u \in Units(g, S), NEW v \in Units(g, S), above[u] = above[v]
                 PROVE  u = v
      OBVIOUS
    <3>1. u[1] = v[1] /\ f[u[1]] + u[2] = f[v[1]] + v[2]
      OBVIOUS
    <3>2. f[u[1]] \in Nat /\ u[2] \in Nat /\ v[2] \in Nat
      <4>1. u[2] \in 1..g[u[1]] /\ v[2] \in 1..g[v[1]] /\ f[u[1]] \in Nat
        BY <1>4
      <4>2. g[u[1]] \in Nat /\ g[v[1]] \in Nat
        BY <1>4
      <4> QED
        BY <4>1, <4>2
    <3>3. u[2] = v[2]
      BY <3>1, <3>2
    <3>4. u = <<u[1], u[2]>> /\ v = <<v[1], v[2]>>
      BY <1>4
    <3> QED
      BY <3>1, <3>3, <3>4
  <2>3. \A w \in Above : \E u \in Units(g, S) : above[u] = w
    OBVIOUS
  <2> HIDE DEF above, Above
  <2>4. ExistsBijection(Units(g, S), Above)
    BY <2>1, <2>2, <2>3 DEF ExistsBijection, Bijection, Injection, Surjection, IsInjective
  <2> QED
    BY <1>2, <2>4, FS_Bijection
<1>6. \A w \in Above : \E a \in S : \E k \in 1..g[a] : w = <<a, f[a] + k>>
  <2> SUFFICES ASSUME NEW u \in Units(g, S)
               PROVE  \E a \in S : \E k \in 1..g[a] : above[u] = <<a, f[a] + k>>
    OBVIOUS
  <2> QED
    BY <1>4
<1>7. \A a \in S : \A k \in 1..g[a] : <<a, f[a] + k>> \in Above
  <2> SUFFICES ASSUME NEW a \in S, NEW k \in 1..g[a] PROVE <<a, f[a] + k>> \in Above
    OBVIOUS
  <2>1. <<a, k>> \in Units(g, S)
    BY UnitIn
  <2> QED
    BY <2>1
<1> HIDE DEF Above
<1>8. Units(h, S) = Units(f, S) \cup Above
  <2>1. ASSUME NEW x \in Units(h, S) PROVE x \in Units(f, S) \cup Above
    <3>1. x = <<x[1], x[2]>> /\ x[1] \in S /\ x[2] \in 1..h[x[1]]
      BY UnitIn
    <3>2. f[x[1]] \in Nat /\ g[x[1]] \in Nat /\ h[x[1]] = f[x[1]] + g[x[1]]
      BY <3>1
    <3>3. CASE x[2] <= f[x[1]]
      <4>1. x[2] \in 1..f[x[1]]
        BY <3>1, <3>2, <3>3
      <4> QED
        BY <3>1, <4>1, UnitIn
    <3>4. CASE x[2] > f[x[1]]
      <4> DEFINE k == x[2] - f[x[1]]
      <4>1. k \in 1..g[x[1]] /\ f[x[1]] + k = x[2]
        BY <3>1, <3>2, <3>4
      <4> HIDE DEF k
      <4>2. <<x[1], f[x[1]] + k>> \in Above
        BY <1>7, <3>1, <4>1
      <4> QED
        BY <3>1, <4>1, <4>2
    <3> QED
      BY <3>1, <3>2, <3>3, <3>4
  <2>2. ASSUME NEW x \in Units(f, S) PROVE x \in Units(h, S)
    <3>1. x = <<x[1], x[2]>> /\ x[1] \in S /\ x[2] \in 1..f[x[1]]
      BY UnitIn
    <3>2. x[2] \in 1..h[x[1]]
      BY <3>1
    <3> QED
      BY <3>1, <3>2, UnitIn
  <2>3. ASSUME NEW x \in Above PROVE x \in Units(h, S)
    <3>0. PICK a \in S : \E k \in 1..g[a] : x = <<a, f[a] + k>>
      BY <1>6
    <3>1. PICK k \in 1..g[a] : x = <<a, f[a] + k>>
      BY <3>0
    <3>2. f[a] + k \in 1..h[a]
      OBVIOUS
    <3> QED
      BY <3>1, <3>2, UnitIn
  <2> QED
    BY <2>1, <2>2, <2>3
<1>9. Units(f, S) \cap Above = {}
  <2> SUFFICES ASSUME NEW x \in Units(f, S), x \in Above PROVE FALSE
    OBVIOUS
  <2>1. x = <<x[1], x[2]>> /\ x[1] \in S /\ x[2] \in 1..f[x[1]]
    BY UnitIn
  <2>2. PICK a \in S : \E k \in 1..g[a] : x = <<a, f[a] + k>>
    BY <1>6
  <2> PICK k \in 1..g[a] : x = <<a, f[a] + k>>
    BY <2>2
  <2>3. x[1] = a /\ x[2] = f[a] + k /\ f[a] \in Nat /\ k \in Nat /\ k >= 1
    BY <2>2
  <2> QED
    BY <2>1, <2>3
<1>10. Cardinality(Units(f, S) \cup Above) = Cardinality(Units(f, S)) + Cardinality(Above)
  BY <1>1, <1>5, <1>9, DisjointUnion
<1> QED
  BY <1>1, <1>2, <1>3, <1>5, <1>8, <1>10

------------------------------------------------------------------------------
\* ARMS AND RANGES

Count == Len(Arms)

LEMMA ArmsFacts ==
  /\ Count \in Nat /\ Count >= 1 /\ DOMAIN Arms = 1..Count
  /\ ControlID = Arms[1]
  /\ \A i \in 1..Count : Arms[i] \in ArmIDs /\ Place(Arms[i]) = i
  /\ \A a \in ArmIDs : Place(a) \in 1..Count /\ Arms[Place(a)] = a
<1>1. Count \in Nat /\ DOMAIN Arms = 1..Count /\ Count # 0 /\ ControlID = Arms[1]
  BY ArmsAssumption DEF Count
<1>2. \A i \in 1..Count : Arms[i] \in ArmIDs
  BY <1>1 DEF ArmIDs, Range
<1>3. \A i, j \in 1..Count : Arms[i] = Arms[j] => i = j
  BY <1>1, ArmsAssumption
<1>4. \A a \in ArmIDs : \E i \in 1..Count : Arms[i] = a
  BY <1>1 DEF ArmIDs, Range
<1>5. \A a \in ArmIDs : Place(a) \in 1..Count /\ Arms[Place(a)] = a
  BY <1>1, <1>4 DEF Place
<1>6. \A i \in 1..Count : Place(Arms[i]) = i
  BY <1>2, <1>3, <1>5
<1> QED
  BY <1>1, <1>2, <1>5, <1>6

\* The arms up to the i-th.
First(i) == {Arms[j] : j \in 1..i}

LEMMA FirstFacts ==
  ASSUME NEW i \in 0..Count
  PROVE  /\ First(i) \in SUBSET ArmIDs
         /\ IsFiniteSet(First(i)) /\ Cardinality(First(i)) = i
         /\ \A j \in 1..Count : Arms[j] \in First(i) <=> j <= i
<1>1. \A j \in 1..Count : Arms[j] \in First(i) <=> j <= i
  BY ArmsFacts DEF First
<1>2. First(i) \in SUBSET ArmIDs
  BY ArmsFacts DEF First
<1> DEFINE f == [j \in 1..i |-> Arms[j]]
<1>3. f \in [1..i -> First(i)] /\ \A x \in First(i) : \E j \in 1..i : f[j] = x
  BY DEF First
<1>4. \A j, k \in 1..i : f[j] = f[k] => j = k
  <2> SUFFICES ASSUME NEW j \in 1..i, NEW k \in 1..i, Arms[j] = Arms[k] PROVE j = k
    OBVIOUS
  <2>1. j \in 1..Count /\ k \in 1..Count
    BY ArmsFacts
  <2> QED
    BY <2>1, ArmsFacts
<1> HIDE DEF f
<1>5. ExistsBijection(1..i, First(i))
  BY <1>3, <1>4 DEF ExistsBijection, Bijection, Injection, Surjection, IsInjective
<1>6. IsFiniteSet(1..i) /\ Cardinality(1..i) = i
  BY FS_Interval
<1> QED
  BY <1>1, <1>2, <1>5, <1>6, FS_Bijection

LEMMA AllArms ==
  /\ First(Count) = ArmIDs /\ First(0) = {}
  /\ IsFiniteSet(ArmIDs) /\ Cardinality(ArmIDs) = Count
<1>1. Count \in 0..Count
  BY ArmsFacts
<1>2. First(Count) = ArmIDs
  BY ArmsFacts DEF First
<1>3. First(0) = {}
  BY DEF First
<1> QED
  BY <1>1, <1>2, <1>3, FirstFacts

\* The arms after the i-th.
LEMMA RestFacts ==
  ASSUME NEW i \in 0..Count
  PROVE  /\ IsFiniteSet(ArmIDs \ First(i)) /\ Cardinality(ArmIDs \ First(i)) = Count - i
         /\ First(i) \cap (ArmIDs \ First(i)) = {}
         /\ First(i) \cup (ArmIDs \ First(i)) = ArmIDs
<1>1. /\ First(i) \cap (ArmIDs \ First(i)) = {}
      /\ First(i) \cup (ArmIDs \ First(i)) = ArmIDs
  BY FirstFacts
<1>2. IsFiniteSet(ArmIDs \ First(i))
  BY AllArms, FS_Subset
<1>3. Cardinality(ArmIDs) = Cardinality(First(i)) + Cardinality(ArmIDs \ First(i))
  BY <1>1, <1>2, FirstFacts, DisjointUnion
<1>4. Cardinality(ArmIDs \ First(i)) \in Nat
  BY <1>2, FS_CardinalityType
<1> QED
  BY <1>1, <1>2, <1>3, <1>4, FirstFacts, AllArms, ArmsFacts

\* The arms of the file are in the order of the names.
LEMMA PositionOrder ==
  ASSUME NEW a \in ArmIDs, NEW b \in ArmIDs
  PROVE  Position(b) <= Position(a) <=> Place(b) <= Place(a)
<1>1. /\ Place(a) \in DOMAIN Arms /\ Arms[Place(a)] = a /\ Place(a) \in Nat
      /\ Place(b) \in DOMAIN Arms /\ Arms[Place(b)] = b /\ Place(b) \in Nat
  BY ArmsFacts
<1>2. Position(a) \in Nat /\ Position(b) \in Nat
  <2>1. \A c \in ArmIDs : Position(c) \in DOMAIN Names
    <3> SUFFICES ASSUME NEW c \in ArmIDs PROVE Position(c) \in DOMAIN Names
      OBVIOUS
    <3>1. \E k \in DOMAIN Names : Names[k] = c
      BY NamesAssumption DEF Range
    <3> QED
      BY <3>1 DEF Position
  <2>2. DOMAIN Names = 1..Len(Names) /\ Len(Names) \in Nat
    BY NamesAssumption
  <2> QED
    BY <2>1, <2>2
<1>3. /\ Place(a) < Place(b) => Position(a) < Position(b)
      /\ Place(b) < Place(a) => Position(b) < Position(a)
  BY <1>1, NamesAssumption
<1> QED
  BY <1>1, <1>2, <1>3

LEMMA Sizes ==
  /\ BucketCount \in Nat /\ MinArmShare \in Nat /\ MaxMovePerRun \in Nat
  /\ 1 <= MinArmShare /\ MinArmShare <= MaxMovePerRun /\ MaxMovePerRun <= BucketCount
  /\ BucketCount <= 20 * MinArmShare
BY BucketAssumption, SharesAssumption

\* What rounding may come to, half a bucket for each arm; the last arm bears it.
Half == Count \div 2

Least(i) == IF i = Count THEN MinArmShare - Half ELSE MinArmShare

LEMMA HalfFacts ==
  /\ Half \in Nat /\ 2 * Half <= Count /\ Count <= 2 * Half + 1
  /\ Half + 1 <= MinArmShare /\ (Count = 1 => Half = 0)
  /\ \A i \in 1..Count : Least(i) \in Nat /\ 1 <= Least(i) /\ Least(i) <= MinArmShare
<1>1. Half \in Nat /\ 2 * Half <= Count /\ Count <= 2 * Half + 1
  BY ArmsFacts DEF Half
<1>2. Half + 1 <= MinArmShare
  <2>1. 2 * MinArmShare > Count
    BY SharesAssumption DEF Count
  <2> QED
    BY <1>1, <2>1, ArmsFacts, Sizes
<1> QED
  BY <1>1, <1>2, ArmsFacts, Sizes DEF Least

\* Ranges that split the buckets, none smaller than the minimum, but for the rounding.
Tiles(r) ==
    /\ r \in [ArmIDs -> [start : 0..BucketCount, end : 0..BucketCount]]
    /\ \A i \in 1..Count : r[Arms[i]].start + Least(i) <= r[Arms[i]].end
    /\ \A i, j \in 1..Count : i < j => r[Arms[i]].end <= r[Arms[j]].start
    /\ r[Arms[1]].start = 0 /\ r[Arms[Count]].end = BucketCount
    /\ \A b \in Buckets : \E a \in ArmIDs : r[a].start <= b /\ b < r[a].end

LEMMA RangeType ==
  ASSUME NEW r, Tiles(r), NEW a \in ArmIDs
  PROVE  /\ r[a].start \in 0..BucketCount /\ r[a].end \in 0..BucketCount
         /\ r[a].start \in Nat /\ r[a].end \in Nat
         /\ r[a].start + Least(Place(a)) <= r[a].end /\ r[a].start < r[a].end
<1>1. r[a] \in [start : 0..BucketCount, end : 0..BucketCount]
  BY DEF Tiles
<1>2. r[a].start + Least(Place(a)) <= r[a].end
  BY ArmsFacts DEF Tiles
<1>3. Least(Place(a)) \in Nat /\ 1 <= Least(Place(a))
  BY ArmsFacts, HalfFacts
<1> QED
  BY <1>1, <1>2, <1>3, Sizes

\* The least of a set of numbers.
LEMMA LeastIndex ==
  ASSUME NEW S \in SUBSET Nat, S # {}
  PROVE  \E i \in S : \A j \in S : ~(j < i)
<1>1. \E i \in S : \A j \in S : ~(<<j, i>> \in OpToRel(<, Nat))
  BY NatLessThanWellFounded, WFMin
<1> QED
  BY <1>1 DEF OpToRel

\* Ranges laid out along ends that leave each arm its minimum split the buckets.
LEMMA TilesAlong ==
  ASSUME NEW E \in [0..Count -> 0..BucketCount], E[0] = 0, E[Count] = BucketCount,
         \A i, j \in 0..Count : i < j => E[i] + Least(j) <= E[j],
         NEW r, r = [a \in ArmIDs |-> [start |-> E[Place(a) - 1], end |-> E[Place(a)]]]
  PROVE  Tiles(r)
<1>1. \A a \in ArmIDs : /\ r[a] = [start |-> E[Place(a) - 1], end |-> E[Place(a)]]
                        /\ Place(a) \in 0..Count /\ Place(a) - 1 \in 0..Count
  BY ArmsFacts
<1>2. r \in [ArmIDs -> [start : 0..BucketCount, end : 0..BucketCount]]
  BY <1>1
<1>3. ASSUME NEW i \in 1..Count PROVE r[Arms[i]].start + Least(i) <= r[Arms[i]].end
  <2>1. Arms[i] \in ArmIDs /\ Place(Arms[i]) = i /\ i \in 0..Count /\ i - 1 \in 0..Count
    BY ArmsFacts
  <2>2. E[i - 1] + Least(i) <= E[i]
    BY <2>1
  <2> QED
    BY <1>1, <2>1, <2>2
<1>4. ASSUME NEW i \in 1..Count
      PROVE  /\ i \in 0..Count /\ i - 1 \in 0..Count
             /\ r[Arms[i]].start = E[i - 1] /\ r[Arms[i]].end = E[i]
  BY <1>1, ArmsFacts
<1>5. ASSUME NEW i \in 1..Count, NEW j \in 1..Count, i < j
      PROVE  r[Arms[i]].end <= r[Arms[j]].start
  <2>1. /\ r[Arms[i]].end = E[i] /\ r[Arms[j]].start = E[j - 1]
        /\ i \in 0..Count /\ j - 1 \in 0..Count
    BY <1>4
  <2>2. CASE i = j - 1
    BY <2>1, <2>2, Sizes
  <2>3. CASE i < j - 1
    <3>1. E[i] + Least(j - 1) <= E[j - 1] /\ E[i] \in 0..BucketCount /\ E[j - 1] \in 0..BucketCount
      BY <2>1, <2>3
    <3>2. Least(j - 1) \in Nat
      <4>1. j - 1 \in 1..Count
        BY <2>1, <2>3, ArmsFacts
      <4> QED
        BY <4>1, HalfFacts
    <3> QED
      BY <2>1, <3>1, <3>2, Sizes
  <2> QED
    BY <1>5, <2>2, <2>3
<1>6. 1 \in 1..Count /\ Count \in 1..Count
  BY ArmsFacts
<1>7. r[Arms[1]].start = 0 /\ r[Arms[Count]].end = BucketCount
  BY <1>4, <1>6
<1>8. ASSUME NEW b \in Buckets PROVE \E a \in ArmIDs : r[a].start <= b /\ b < r[a].end
  <2> DEFINE S == {i \in 0..Count : b < E[i]}
  <2>1. b \in Nat /\ b < BucketCount
    BY Sizes DEF Buckets
  <2>2. Count \in S
    BY <2>1, ArmsFacts
  <2>3. S \in SUBSET Nat
    BY ArmsFacts
  <2>4. PICK i \in S : \A j \in S : ~(j < i)
    <3> HIDE DEF S
    <3> QED
      BY <2>2, <2>3, LeastIndex
  <2>5. i \in 1..Count /\ i - 1 \in 0..Count /\ b < E[i]
    BY <2>1, ArmsFacts
  <2>6. ~(b < E[i - 1])
    BY <2>4, <2>5
  <2>7. E[i - 1] <= b
    BY <2>1, <2>5, <2>6, Sizes
  <2>8. r[Arms[i]].start = E[i - 1] /\ r[Arms[i]].end = E[i] /\ Arms[i] \in ArmIDs
    BY <1>4, <2>5, ArmsFacts
  <2> QED
    BY <2>5, <2>7, <2>8
<1> QED
  BY <1>2, <1>3, <1>5, <1>7, <1>8 DEF Tiles

\* A bucket has one owner.
LEMMA OneOwner ==
  ASSUME NEW r, Tiles(r), NEW b \in Nat, NEW i \in 1..Count, NEW j \in 1..Count,
         r[Arms[i]].start <= b, b < r[Arms[i]].end,
         r[Arms[j]].start <= b, b < r[Arms[j]].end
  PROVE  i = j
<1>1. /\ r[Arms[i]].start \in Nat /\ r[Arms[i]].end \in Nat
      /\ r[Arms[j]].start \in Nat /\ r[Arms[j]].end \in Nat
  BY ArmsFacts, RangeType
<1>2. ~(i < j) /\ ~(j < i)
  BY <1>1 DEF Tiles
<1> QED
  BY <1>2

\* The shares of the arms up to the i-th are the buckets up to its end.
SharesOf(r) == [a \in ArmIDs |-> r[a].end - r[a].start]

LEMMA ShareType ==
  ASSUME NEW r, Tiles(r), NEW a \in ArmIDs
  PROVE  /\ SharesOf(r)[a] = r[a].end - r[a].start
         /\ SharesOf(r)[a] \in Nat
         /\ Least(Place(a)) <= SharesOf(r)[a] /\ SharesOf(r)[a] <= BucketCount
<1>1. Least(Place(a)) \in Nat
  BY ArmsFacts, HalfFacts
<1> QED
  BY <1>1, RangeType, Sizes DEF SharesOf

LEMMA Telescope ==
  ASSUME NEW r, Tiles(r), NEW i \in 1..Count
  PROVE  Total(SharesOf(r), First(i)) = r[Arms[i]].end
<1> DEFINE U == Units(SharesOf(r), First(i))
           e == r[Arms[i]].end
           f == [u \in U |-> r[u[1]].start + u[2]]
<1>0. i \in 0..Count /\ Arms[i] \in ArmIDs /\ e \in Nat /\ e <= BucketCount
  BY ArmsFacts, RangeType, Sizes
<1>1. \A a \in First(i) : /\ a \in ArmIDs /\ Place(a) \in 1..Count /\ Place(a) <= i
                          /\ Arms[Place(a)] = a
  BY <1>0, FirstFacts, ArmsFacts
<1>2. \A a \in First(i) : r[a].end <= e
  <2> SUFFICES ASSUME NEW a \in First(i) PROVE r[a].end <= e
    OBVIOUS
  <2>1. /\ a \in ArmIDs /\ Place(a) \in 1..Count /\ Place(a) <= i /\ Arms[Place(a)] = a
    BY <1>1
  <2>2. CASE Place(a) = i
    BY <1>0, <2>1, <2>2, RangeType
  <2>3. CASE Place(a) < i
    <3>1. r[a].end <= r[Arms[i]].start
      BY <2>1, <2>3 DEF Tiles
    <3> QED
      BY <1>0, <2>1, <3>1, RangeType, Sizes
  <2> QED
    BY <2>1, <2>2, <2>3
<1>3. ASSUME NEW u \in U
      PROVE  /\ u = <<u[1], u[2]>> /\ u[1] \in First(i) /\ u[1] \in ArmIDs
             /\ u[2] \in Nat /\ 1 <= u[2]
             /\ u[2] <= r[u[1]].end - r[u[1]].start
             /\ r[u[1]].start \in Nat /\ r[u[1]].end \in Nat
  <2>1. u = <<u[1], u[2]>> /\ u[1] \in First(i) /\ u[2] \in 1..SharesOf(r)[u[1]]
    BY UnitIn
  <2>2. u[1] \in ArmIDs
    BY <1>1, <2>1
  <2> QED
    BY <2>1, <2>2, ShareType, RangeType
<1>4. f \in [U -> 1..e]
  <2> SUFFICES ASSUME NEW u \in U PROVE r[u[1]].start + u[2] \in 1..e
    OBVIOUS
  <2>1. r[u[1]].end <= e
    BY <1>2, <1>3
  <2> QED
    BY <1>0, <1>3, <2>1
<1>5. \A u, v \in U : f[u] = f[v] => u = v
  <2> SUFFICES ASSUME NEW u \in U, NEW v \in U, r[u[1]].start + u[2] = r[v[1]].start + v[2]
               PROVE  u = v
    OBVIOUS
  <2> DEFINE b == r[u[1]].start + u[2] - 1
  <2>1. /\ b \in Nat /\ r[u[1]].start <= b /\ b < r[u[1]].end
        /\ r[v[1]].start <= b /\ b < r[v[1]].end
    BY <1>3
  <2>2. Place(u[1]) \in 1..Count /\ Arms[Place(u[1])] = u[1]
        /\ Place(v[1]) \in 1..Count /\ Arms[Place(v[1])] = v[1]
    BY <1>1, <1>3
  <2> HIDE DEF b
  <2>3. Place(u[1]) = Place(v[1])
    BY <2>1, <2>2, OneOwner
  <2>4. u[1] = v[1]
    BY <2>2, <2>3
  <2>5. u[2] = v[2]
    BY <1>3, <2>4
  <2> QED
    BY <1>3, <2>4, <2>5
<1>6. \A k \in 1..e : \E u \in U : f[u] = k
  <2> SUFFICES ASSUME NEW k \in 1..e PROVE \E u \in U : f[u] = k
    OBVIOUS
  <2> DEFINE b == k - 1
  <2>1. b \in Buckets /\ b < e /\ b \in Nat
    BY <1>0, Sizes DEF Buckets
  <2>2. PICK a \in ArmIDs : r[a].start <= b /\ b < r[a].end
    BY <2>1 DEF Tiles
  <2>3. Place(a) \in 1..Count /\ Arms[Place(a)] = a
    BY ArmsFacts
  <2>4. r[a].start \in Nat /\ r[a].end \in Nat
    BY RangeType
  <2>5. Place(a) <= i
    <3> SUFFICES ASSUME i < Place(a) PROVE FALSE
      BY <2>3
    <3>1. e <= r[a].start
      BY <2>3 DEF Tiles
    <3> QED
      BY <1>0, <2>1, <2>2, <2>4, <3>1
  <2>6. a \in First(i)
    BY <1>0, <2>3, <2>5, FirstFacts
  <2>7. k - r[a].start \in 1..SharesOf(r)[a]
    BY <2>2, <2>4 DEF SharesOf
  <2>8. <<a, k - r[a].start>> \in U
    BY <2>6, <2>7, UnitIn
  <2>9. f[<<a, k - r[a].start>>] = r[a].start + (k - r[a].start)
    BY <2>8
  <2> QED
    BY <2>4, <2>8, <2>9
<1> HIDE DEF U, f, e
<1>7. ExistsBijection(U, 1..e)
  BY <1>4, <1>5, <1>6 DEF ExistsBijection, Bijection, Injection, Surjection, IsInjective
<1>8. IsFiniteSet(U) /\ Total(SharesOf(r), First(i)) = Cardinality(U)
  <2>1. \A a \in First(i) : SharesOf(r)[a] \in Nat
    BY <1>1, ShareType
  <2>2. IsFiniteSet(First(i))
    BY <1>0, FirstFacts
  <2> QED
    BY <2>1, <2>2, TotalType DEF U
<1>9. Cardinality(1..e) = Cardinality(U)
  BY <1>7, <1>8, FS_Bijection
<1>10. Cardinality(1..e) = e
  BY <1>0, FS_Interval
<1> QED
  BY <1>8, <1>9, <1>10 DEF e

------------------------------------------------------------------------------
\* ONE RUN

Marks == {"breached", "nothing", "earning"}

LEMMA ZeroSum ==
  ASSUME NEW S \in SUBSET ArmIDs, NEW f, \A a \in S : f[a] = 0
  PROVE  Total(f, S) = 0
<1>1. IsFiniteSet(S)
  BY AllArms, FS_Subset
<1>2. Total(f, S) \in Nat /\ Cardinality(S) \in Nat /\ Total(f, S) <= Cardinality(S) * 0
  BY <1>1, TotalBound
<1> QED
  BY <1>2

\* What the last arm may have that is less than the minimum.
Slack == [a \in ArmIDs |-> IF a = Arms[Count] THEN Half ELSE 0]

LEMMA SlackFacts ==
  /\ \A a \in ArmIDs : /\ Slack[a] \in Nat /\ Slack[a] <= Half
                       /\ MinArmShare <= Least(Place(a)) + Slack[a]
  /\ Total(Slack, ArmIDs) = Half
<1>1. Count \in 1..Count /\ Arms[Count] \in ArmIDs /\ Place(Arms[Count]) = Count
  BY ArmsFacts
<1>2. ASSUME NEW a \in ArmIDs
      PROVE  /\ Slack[a] \in Nat /\ Slack[a] <= Half
             /\ MinArmShare <= Least(Place(a)) + Slack[a]
  <2>1. Place(a) = Count <=> a = Arms[Count]
    BY <1>1, ArmsFacts
  <2> QED
    BY <2>1, HalfFacts, Sizes DEF Slack, Least
<1> DEFINE Final == {Arms[Count]}
           Others == ArmIDs \ Final
<1>3. /\ IsFiniteSet(Final) /\ IsFiniteSet(Others) /\ Final \cap Others = {}
      /\ Final \cup Others = ArmIDs /\ Others \in SUBSET ArmIDs
  BY <1>1, AllArms, FS_Subset, FS_Singleton
<1>4. Total(Slack, Final) = Half
  BY <1>1, HalfFacts, TotalOne DEF Slack
<1>5. Total(Slack, Others) = 0
  <2>1. \A a \in Others : Slack[a] = 0
    BY DEF Slack
  <2> HIDE DEF Others, Final
  <2> QED
    BY <1>3, <2>1, ZeroSum
<1> HIDE DEF Final, Others
<1>6. Total(Slack, Final \cup Others) = Total(Slack, Final) + Total(Slack, Others)
  BY <1>2, <1>3, TotalSplit
<1>7. Total(Slack, ArmIDs) = Total(Slack, Final) + Total(Slack, Others)
  BY <1>3, <1>6, Zenon
<1> QED
  BY <1>2, <1>4, <1>5, <1>7, HalfFacts

\* The bounds leave every arm the minimum, none more than it has from below, but for the
\* rounding, and none that is not breached farther away than the limit.
LEMMA BoundsHold ==
  ASSUME Tiles(file), NEW log \in [ArmIDs -> Marks], NEW a \in ArmIDs
  PROVE  /\ Share(a) \in Nat /\ SharesOf(file)[a] = Share(a)
         /\ lo(log)[a] \in Nat /\ hi(log)[a] \in Nat
         /\ MinArmShare <= lo(log)[a] /\ lo(log)[a] <= Share(a) + Slack[a]
         /\ lo(log)[a] <= hi(log)[a]
         /\ log[a] # "breached" =>
               /\ Share(a) - MaxMovePerRun <= lo(log)[a]
               /\ hi(log)[a] <= Share(a) + MaxMovePerRun
               /\ a = ControlID => Share(a) <= lo(log)[a]
<1>1. /\ Share(a) \in Nat /\ Share(a) <= BucketCount /\ SharesOf(file)[a] = Share(a)
      /\ Slack[a] \in Nat /\ Slack[a] <= MaxMovePerRun
      /\ MinArmShare <= Share(a) + Slack[a]
  <2>1. Least(Place(a)) \in Nat
    BY ArmsFacts, HalfFacts
  <2> QED
    BY <2>1, ShareType, SlackFacts, HalfFacts, Sizes DEF Share
<1>2. /\ floor(a) \in Nat /\ MinArmShare <= floor(a) /\ floor(a) <= Share(a) + Slack[a]
      /\ a = ControlID => Share(a) <= floor(a)
  BY <1>1, Sizes DEF floor, Larger
<1>3. lo(log)[a] = IF log[a] = "breached" THEN MinArmShare
                   ELSE Larger(floor(a), Share(a) - MaxMovePerRun)
  BY DEF lo
<1>4. hi(log)[a] = IF log[a] = "breached" THEN MinArmShare
                   ELSE Larger(Smaller(BucketCount, Share(a) + MaxMovePerRun), lo(log)[a])
  BY DEF hi
<1>5. CASE log[a] = "breached"
  BY <1>1, <1>3, <1>4, <1>5, Sizes
<1>6. CASE log[a] # "breached"
  <2>1. /\ lo(log)[a] \in Nat /\ MinArmShare <= lo(log)[a]
        /\ lo(log)[a] <= Share(a) + Slack[a]
        /\ Share(a) - MaxMovePerRun <= lo(log)[a]
        /\ a = ControlID => Share(a) <= lo(log)[a]
    BY <1>1, <1>2, <1>3, <1>6, Sizes DEF Larger
  <2>2. /\ hi(log)[a] \in Nat /\ lo(log)[a] <= hi(log)[a]
        /\ hi(log)[a] <= Share(a) + MaxMovePerRun
    BY <1>1, <1>4, <1>6, <2>1, Sizes DEF Larger, Smaller
  <2> QED
    BY <1>1, <2>1, <2>2
<1> QED
  BY <1>5, <1>6

\* Shares within the bounds, that do not add up to more than there is, but for the
\* rounding.
Fits(log, t) ==
    /\ t \in [ArmIDs -> Nat]
    /\ \A a \in ArmIDs : lo(log)[a] <= t[a] /\ t[a] <= hi(log)[a]
    /\ Total(t, ArmIDs) \in Nat /\ Total(t, ArmIDs) <= BucketCount + Half

LEMMA SharesFill ==
  ASSUME Tiles(file)
  PROVE  Total(SharesOf(file), ArmIDs) = BucketCount
<1>1. Count \in 1..Count
  BY ArmsFacts
<1> QED
  BY <1>1, Telescope, AllArms DEF Tiles

\* The lower bounds leave the room.
LEMMA RoomFacts ==
  ASSUME Tiles(file), NEW log \in [ArmIDs -> Marks]
  PROVE  /\ room(log) \in Nat /\ Total(lo(log), ArmIDs) \in Nat
         /\ Total(lo(log), ArmIDs) + room(log) <= BucketCount + Half
         /\ room(log) # 0 => Total(lo(log), ArmIDs) + room(log) = BucketCount
<1> DEFINE most == [a \in ArmIDs |-> SharesOf(file)[a] + Slack[a]]
<1>1. \A a \in ArmIDs : /\ lo(log)[a] \in Nat /\ SharesOf(file)[a] \in Nat
                        /\ Slack[a] \in Nat /\ most[a] = SharesOf(file)[a] + Slack[a]
                        /\ most[a] \in Nat /\ lo(log)[a] <= most[a]
  BY BoundsHold, SlackFacts
<1> HIDE DEF most
<1>2. Total(lo(log), ArmIDs) <= Total(most, ArmIDs)
  BY <1>1, AllArms, TotalMono
<1>3. Total(most, ArmIDs) = Total(SharesOf(file), ArmIDs) + Total(Slack, ArmIDs)
  BY <1>1, AllArms, TotalPlus
<1>4. Total(lo(log), ArmIDs) \in Nat
  BY <1>1, AllArms, TotalType
<1>5. room(log) = Larger(0, BucketCount - Total(lo(log), ArmIDs))
  BY DEF room
<1> QED
  BY <1>2, <1>3, <1>4, <1>5, SharesFill, SlackFacts, HalfFacts, Sizes DEF Larger

\* Parts that come to the room, but for the rounding, make shares that fit.
LEMMA SharesFit ==
  ASSUME Tiles(file), NEW log \in [ArmIDs -> Marks],
         NEW S \in SUBSET ArmIDs, NEW more, DOMAIN more = S,
         \A a \in S : more[a] \in Nat /\ more[a] <= headroom(log)[a],
         Total(more, S) <= room(log) + Half,
         room(log) = 0 => Total(more, S) = 0
  PROVE  Fits(log, Shares(log, more))
<1> DEFINE t == Shares(log, more)
           add == [a \in ArmIDs |-> IF a \in S THEN more[a] ELSE 0]
<1>1. t = [a \in ArmIDs |-> lo(log)[a] + add[a]]
  BY DEF Shares
<1>2. \A a \in ArmIDs : /\ lo(log)[a] \in Nat /\ hi(log)[a] \in Nat /\ lo(log)[a] <= hi(log)[a]
                        /\ headroom(log)[a] = hi(log)[a] - lo(log)[a]
  BY BoundsHold DEF headroom
<1>3. \A a \in ArmIDs : add[a] \in Nat /\ lo(log)[a] + add[a] <= hi(log)[a]
  <2> SUFFICES ASSUME NEW a \in ArmIDs PROVE add[a] \in Nat /\ lo(log)[a] + add[a] <= hi(log)[a]
    OBVIOUS
  <2>1. CASE a \in S
    <3>1. add[a] = more[a] /\ more[a] \in Nat /\ more[a] <= headroom(log)[a]
      BY <2>1
    <3> HIDE DEF add
    <3> QED
      BY <1>2, <3>1
  <2>2. CASE a \notin S
    <3>1. add[a] = 0
      BY <2>2
    <3> HIDE DEF add
    <3> QED
      BY <1>2, <3>1
  <2> QED
    BY <2>1, <2>2
<1>4. Total(add, ArmIDs) = Total(more, S) /\ Total(add, ArmIDs) \in Nat
  <2>1. Total(add, S) = Total(more, S)
    <3>1. \A a \in S : add[a] = more[a]
      OBVIOUS
    <3> HIDE DEF add
    <3> QED
      BY <3>1, TotalSame
  <2>2. Total(add, ArmIDs \ S) = 0
    <3>1. \A a \in ArmIDs \ S : add[a] = 0
      OBVIOUS
    <3> HIDE DEF add
    <3> QED
      BY <3>1, ZeroSum
  <2> HIDE DEF add
  <2>3. /\ IsFiniteSet(S) /\ IsFiniteSet(ArmIDs \ S)
        /\ S \cup (ArmIDs \ S) = ArmIDs /\ S \cap (ArmIDs \ S) = {}
    BY AllArms, FS_Subset
  <2>4. \A a \in S \cup (ArmIDs \ S) : add[a] \in Nat
    BY <1>3, <2>3
  <2>5. Total(add, S \cup (ArmIDs \ S)) = Total(add, S) + Total(add, ArmIDs \ S)
    BY <2>3, <2>4, TotalSplit
  <2>6. Total(add, ArmIDs) = Total(add, S) + Total(add, ArmIDs \ S)
    BY <2>3, <2>5, Zenon
  <2>7. Total(add, S) \in Nat
    BY <1>3, <2>3, TotalType
  <2> QED
    BY <2>1, <2>2, <2>6, <2>7
<1> HIDE DEF add, t
<1>5. \A a \in ArmIDs : /\ t[a] \in Nat /\ t[a] = lo(log)[a] + add[a]
                        /\ lo(log)[a] <= t[a] /\ t[a] <= hi(log)[a]
  BY <1>1, <1>2, <1>3
<1>6. Total(t, ArmIDs) = Total(lo(log), ArmIDs) + Total(add, ArmIDs)
  BY <1>2, <1>3, <1>5, AllArms, TotalPlus
<1>7. Total(t, ArmIDs) \in Nat /\ Total(t, ArmIDs) <= BucketCount + Half
  BY <1>4, <1>6, RoomFacts, HalfFacts, Sizes
<1>8. t \in [ArmIDs -> Nat]
  BY <1>1, <1>5
<1> QED
  BY <1>5, <1>7, <1>8 DEF Fits, t

\* Those that want of the room may take what is between their bounds.
LEMMA TakersFacts ==
  ASSUME Tiles(file), NEW log \in [ArmIDs -> Marks]
  PROVE  /\ takers(log) \in SUBSET ArmIDs /\ IsFiniteSet(takers(log))
         /\ \A a \in ArmIDs : headroom(log)[a] \in Nat
         /\ Total(headroom(log), takers(log)) \in Nat
<1>1. takers(log) \in SUBSET ArmIDs
  BY DEF takers
<1>2. IsFiniteSet(takers(log))
  BY <1>1, AllArms, FS_Subset
<1>3. \A a \in ArmIDs : headroom(log)[a] \in Nat
  BY BoundsHold DEF headroom
<1>4. \A a \in takers(log) : headroom(log)[a] \in Nat
  BY <1>1, <1>3
<1> QED
  BY <1>1, <1>2, <1>3, <1>4, TotalType

LEMMA ProportionalFits ==
  ASSUME Tiles(file), NEW log \in [ArmIDs -> Marks], NEW more \in Proportional(log)
  PROVE  Fits(log, Shares(log, more))
<1> DEFINE W == takers(log)
           n == room(log)
           most == [a \in W |-> headroom(log)[a]]
           some == {a \in W : more[a] > 0}
<1>1. /\ more \in [W -> 0..n]
      /\ \A a \in W : more[a] <= headroom(log)[a]
      /\ Total(more, W) - n > 0 => 2 * (Total(more, W) - n) <= Cardinality(some)
  <2>1. more \in Rounded(n, most) /\ DOMAIN most = W
    BY DEF Proportional
  <2>2. \A a \in W : most[a] = headroom(log)[a]
    OBVIOUS
  <2> HIDE DEF most, n, W
  <2>3. /\ more \in [W -> 0..n]
        /\ \A a \in W : more[a] <= most[a]
        /\ Total(more, W) - n > 0 => 2 * (Total(more, W) - n) <= Cardinality({a \in DOMAIN more : more[a] > 0})
    BY <2>1 DEF Rounded
  <2>4. DOMAIN more = W
    BY <2>3
  <2> QED
    BY <2>2, <2>3, <2>4
<1>2. n \in Nat /\ W \in SUBSET ArmIDs /\ IsFiniteSet(W)
  BY RoomFacts, TakersFacts
<1> HIDE DEF n, W, most
<1>3. \A a \in W : more[a] \in Nat /\ more[a] <= headroom(log)[a]
  BY <1>1, <1>2
<1>4. Total(more, W) \in Nat
  BY <1>2, <1>3, TotalType
<1>5. Cardinality(some) \in Nat /\ Cardinality(some) <= Count
  <2>1. some \in SUBSET ArmIDs
    BY <1>2
  <2> HIDE DEF some
  <2> QED
    BY <2>1, AllArms, FS_Subset, FS_CardinalityType
<1> HIDE DEF some
<1>6. Total(more, W) <= n + Half
  BY <1>1, <1>2, <1>4, <1>5, HalfFacts, ArmsFacts
<1>7. n = 0 => Total(more, W) = 0
  <2>1. n = 0 => \A a \in W : more[a] = 0
    BY <1>1
  <2> QED
    BY <1>2, <2>1, ZeroSum
<1>8. DOMAIN more = W
  BY <1>1
<1> QED
  BY <1>2, <1>3, <1>6, <1>7, <1>8, SharesFit DEF n

LEMMA Quotient ==
  ASSUME NEW x \in Nat, NEW c \in Nat, c > 0
  PROVE  x \div c \in Nat /\ c * (x \div c) <= x
OBVIOUS

LEMMA Fewer ==
  ASSUME NEW m \in Nat, NEW n \in Nat, m <= n, NEW k \in Nat
  PROVE  m * k <= n * k
OBVIOUS

\* Of x in n parts, rounded half up, m make at most x, and half of one for each.
LEMMA EqualParts ==
  ASSUME NEW x \in Nat, NEW n \in Nat, n > 0, NEW m \in Nat, m <= n
  PROVE  LET each == (2 * x + n) \div (2 * n) IN
         /\ each \in Nat /\ m * each \in Nat /\ 2 * (m * each) <= 2 * x + n
         /\ x = 0 => each = 0
<1> DEFINE each == (2 * x + n) \div (2 * n)
<1>1. each \in Nat /\ (2 * n) * each <= 2 * x + n
  <2>1. 2 * x + n \in Nat /\ 2 * n \in Nat /\ 2 * n > 0
    OBVIOUS
  <2> QED
    BY <2>1, Quotient
<1> HIDE DEF each
<1>2. m * each \in Nat /\ n * each \in Nat /\ m * each <= n * each
  BY <1>1, Fewer
<1>3. (2 * n) * each = 2 * (n * each)
  BY <1>1
<1>4. x = 0 => each = 0
  <2> SUFFICES ASSUME x = 0, each >= 1 PROVE FALSE
    BY <1>1
  <2>1. n * 1 <= n * each
    <3>1. 1 * n <= each * n
      BY <1>1, Fewer
    <3>2. 1 * n = n * 1 /\ each * n = n * each
      BY <1>1
    <3> QED
      BY <3>1, <3>2
  <2> QED
    BY <1>1, <1>2, <1>3, <2>1
<1> QED
  BY <1>1, <1>2, <1>3, <1>4 DEF each

LEMMA RemainderFits ==
  ASSUME Tiles(file), NEW log \in [ArmIDs -> Marks],
         Total(headroom(log), takers(log)) <= room(log)
  PROVE  Fits(log, Shares(log, Remainder(log)))
<1> DEFINE W == takers(log)
           left == room(log) - Total(headroom(log), W)
           movable == {a \in DOMAIN log \ wanted(log) : headroom(log)[a] > 0}
           first == IF ControlID \in movable
                    THEN Smaller(left, headroom(log)[ControlID]) ELSE 0
           n == Cardinality(movable)
           each == IF n = 0 THEN 0 ELSE (2 * (left - first) + n) \div (2 * n)
           C == movable \cap {ControlID}
           M == movable \ {ControlID}
           S == W \cup movable
           more == Remainder(log)
<1>1. more = [a \in S |->
         IF a \in W THEN headroom(log)[a]
         ELSE IF a = ControlID THEN first ELSE Smaller(each, headroom(log)[a])]
  BY DEF Remainder
<1>2. /\ W \in SUBSET ArmIDs /\ IsFiniteSet(W)
      /\ \A a \in ArmIDs : headroom(log)[a] \in Nat
      /\ Total(headroom(log), W) \in Nat /\ room(log) \in Nat
  BY TakersFacts, RoomFacts
<1>3. left \in Nat /\ left <= room(log) /\ room(log) = left + Total(headroom(log), W)
  BY <1>2
<1>4. /\ movable \in SUBSET ArmIDs /\ IsFiniteSet(movable) /\ W \cap movable = {}
      /\ n \in Nat /\ n <= Count /\ (n = 0 => movable = {})
  <2>1. movable \in SUBSET ArmIDs /\ W \cap movable = {}
    BY DEF takers
  <2> HIDE DEF movable, W
  <2> QED
    BY <2>1, AllArms, FS_Subset, FS_CardinalityType, FS_EmptySet
<1> HIDE DEF left, movable, W
<1>5. /\ first \in Nat /\ first <= left
      /\ ControlID \in movable => first <= headroom(log)[ControlID]
  <2>1. CASE ControlID \in movable
    BY <1>2, <1>3, <1>4, <2>1 DEF Smaller
  <2>2. CASE ControlID \notin movable
    BY <1>3, <2>2
  <2> QED
    BY <2>1, <2>2
<1> HIDE DEF first
<1>6. /\ IsFiniteSet(C) /\ IsFiniteSet(M) /\ C \cap M = {} /\ C \cup M = movable
      /\ Cardinality(M) \in Nat /\ Cardinality(M) <= n
  <2>1. C \in SUBSET movable /\ M \in SUBSET movable
    OBVIOUS
  <2> QED
    BY <1>4, <2>1, FS_Subset, FS_CardinalityType
<1>7. /\ each \in Nat /\ Cardinality(M) * each \in Nat
      /\ 2 * (Cardinality(M) * each) <= 2 * (left - first) + n
      /\ left - first = 0 => each = 0
  <2> HIDE DEF M
  <2>1. CASE n = 0
    <3>1. each = 0
      BY <2>1
    <3> HIDE DEF each, n
    <3> QED
      BY <1>3, <1>4, <1>5, <1>6, <3>1
  <2>2. CASE n # 0
    <3>1. each = (2 * (left - first) + n) \div (2 * n) /\ left - first \in Nat /\ n > 0
      BY <1>3, <1>4, <1>5, <2>2
    <3> HIDE DEF each, n
    <3> QED
      BY <1>4, <1>6, <3>1, EqualParts
  <2> QED
    BY <2>1, <2>2
<1> HIDE DEF each, n
<1>8. /\ S \in SUBSET ArmIDs /\ DOMAIN more = S
      /\ \A a \in W : more[a] = headroom(log)[a]
      /\ \A a \in C : a = ControlID /\ more[a] = first /\ first <= headroom(log)[a]
      /\ \A a \in M : more[a] = Smaller(each, headroom(log)[a])
  BY <1>1, <1>2, <1>4, <1>5
<1>9. \A a \in M : more[a] \in Nat /\ more[a] <= each /\ more[a] <= headroom(log)[a]
  <2>1. \A a \in M : a \in ArmIDs
    BY <1>4
  <2> HIDE DEF M, more
  <2> QED
    BY <1>2, <1>7, <1>8, <2>1 DEF Smaller
<1>10. \A a \in S : more[a] \in Nat /\ more[a] <= headroom(log)[a]
  <2>1. \A a \in S : a \in W \/ a \in C \/ a \in M
    OBVIOUS
  <2>2. \A a \in W : a \in ArmIDs
    BY <1>2
  <2> HIDE DEF S, C, M, more
  <2> QED
    BY <1>2, <1>5, <1>8, <1>9, <2>1, <2>2
<1> HIDE DEF more
<1>11. Total(more, W) = Total(headroom(log), W)
  BY <1>8, TotalSame
<1>12. Total(more, C) \in Nat /\ Total(more, C) <= first
  <2>1. CASE ControlID \in movable
    <3>1. C = {ControlID} /\ more[ControlID] = first
      BY <1>8, <2>1
    <3> QED
      BY <1>5, <3>1, TotalOne
  <2>2. CASE ControlID \notin movable
    <3>1. C = {}
      BY <2>2
    <3> QED
      BY <1>5, <3>1, TotalEmpty
  <2> QED
    BY <2>1, <2>2
<1>13. Total(more, M) \in Nat /\ Total(more, M) <= Cardinality(M) * each
  <2> HIDE DEF M
  <2> QED
    BY <1>6, <1>7, <1>9, TotalBound
<1>14. Total(more, C \cup M) = Total(more, C) + Total(more, M)
  <2>1. \A a \in C \cup M : more[a] \in Nat
    BY <1>6, <1>10
  <2> HIDE DEF C, M
  <2> QED
    BY <1>6, <2>1, TotalSplit
<1>15. Total(more, S) = Total(more, W) + Total(more, C \cup M)
  <2>1. Total(more, W \cup movable) = Total(more, W) + Total(more, movable)
    BY <1>2, <1>4, <1>10, TotalSplit
  <2> HIDE DEF C, M
  <2> QED
    BY <1>6, <2>1
<1> HIDE DEF S, C, M
<1>16. Total(more, S) <= room(log) + Half
  <2> DEFINE k == Cardinality(M) * each
  <2>1. k \in Nat /\ 2 * k <= 2 * (left - first) + n
    BY <1>7
  <2>2. Total(more, M) \in Nat /\ Total(more, M) <= k
    BY <1>13
  <2> HIDE DEF k
  <2>3. k <= left - first + Half
    BY <1>3, <1>4, <1>5, <2>1, HalfFacts, ArmsFacts
  <2>4. Total(more, S) = Total(headroom(log), W) + (Total(more, C) + Total(more, M))
    BY <1>11, <1>14, <1>15
  <2>5. Total(more, C) + Total(more, M) <= left + Half
    BY <1>3, <1>5, <1>12, <2>1, <2>2, <2>3, HalfFacts
  <2> QED
    BY <1>2, <1>3, <1>12, <2>2, <2>4, <2>5, HalfFacts
<1>17. room(log) = 0 => Total(more, S) = 0
  <2> SUFFICES ASSUME room(log) = 0 PROVE Total(more, S) = 0
    OBVIOUS
  <2>1. left = 0 /\ first = 0 /\ Total(headroom(log), W) = 0 /\ each = 0
    BY <1>2, <1>3, <1>5, <1>7
  <2>2. Cardinality(M) * each = 0
    BY <1>6, <2>1
  <2> QED
    BY <1>11, <1>12, <1>13, <1>14, <1>15, <2>1, <2>2
<1> QED
  BY <1>8, <1>10, <1>16, <1>17, SharesFit DEF more

LEMMA WaterFits ==
  ASSUME Tiles(file), NEW log \in [ArmIDs -> Marks], NEW t \in waterFill(log)
  PROVE  Fits(log, t)
<1>1. CASE room(log) < Total(headroom(log), takers(log))
  BY <1>1, ProportionalFits DEF waterFill
<1>2. CASE ~(room(log) < Total(headroom(log), takers(log)))
  <2>1. Total(headroom(log), takers(log)) <= room(log)
    BY <1>2, RoomFacts, TakersFacts
  <2> QED
    BY <1>2, <2>1, RemainderFits DEF waterFill
<1> QED
  BY <1>1, <1>2

LEMMA TotalFirst ==
  ASSUME NEW t \in [ArmIDs -> Nat], \A a \in ArmIDs : MinArmShare <= t[a],
         NEW i \in 0..Count
  PROVE  /\ Total(t, First(i)) \in Nat /\ Total(t, First(i)) <= Total(t, ArmIDs)
         /\ \A j \in 1..Count : i < j =>
               Total(t, First(i)) + MinArmShare <= Total(t, First(j))
<1>1. First(i) \in SUBSET ArmIDs /\ IsFiniteSet(First(i))
  BY FirstFacts
<1>2. Total(t, First(i)) \in Nat
  BY <1>1, TotalType
<1>3. Total(t, First(i)) <= Total(t, ArmIDs)
  BY <1>1, AllArms, TotalMono
<1>4. ASSUME NEW j \in 1..Count, i < j
      PROVE  Total(t, First(i)) + MinArmShare <= Total(t, First(j))
  <2>1. /\ j \in 0..Count /\ Arms[j] \in ArmIDs
        /\ Arms[j] \in First(j) /\ Arms[j] \notin First(i)
    BY <1>4, FirstFacts, ArmsFacts
  <2>2. First(i) \subseteq First(j)
    <3> SUFFICES ASSUME NEW a \in First(i) PROVE a \in First(j)
      OBVIOUS
    <3>1. a \in ArmIDs
      BY <1>1
    <3>2. Place(a) \in 1..Count /\ Arms[Place(a)] = a
      BY <3>1, ArmsFacts
    <3>3. Place(a) <= i
      BY <3>2, FirstFacts
    <3>4. Place(a) <= j
      BY <1>4, <3>2, <3>3
    <3> QED
      BY <2>1, <3>2, <3>4, FirstFacts
  <2>3. t[Arms[j]] \in Nat /\ Total(t, {Arms[j]}) = t[Arms[j]] /\ MinArmShare <= t[Arms[j]]
    BY <2>1, TotalOne
  <2>4. Total(t, First(i) \cup {Arms[j]}) = Total(t, First(i)) + Total(t, {Arms[j]})
    <3>1. IsFiniteSet({Arms[j]})
      BY FS_Singleton
    <3>0. First(i) \cap {Arms[j]} = {}
      BY <2>1
    <3>2. \A a \in First(i) \cup {Arms[j]} : t[a] \in Nat
      BY <1>1, <2>1
    <3> QED
      BY <1>1, <3>0, <3>1, <3>2, TotalSplit
  <2>5. Total(t, First(i) \cup {Arms[j]}) <= Total(t, First(j))
    <3>1. IsFiniteSet(First(j)) /\ First(j) \in SUBSET ArmIDs
      BY <2>1, FirstFacts
    <3>2. First(i) \cup {Arms[j]} \in SUBSET First(j)
      BY <2>1, <2>2
    <3>3. \A a \in First(j) : t[a] \in Nat /\ t[a] <= t[a]
      BY <3>1
    <3> QED
      BY <3>1, <3>2, <3>3, TotalMono
  <2>6. Total(t, First(j)) \in Nat
    BY <2>1, FirstFacts, TotalType
  <2> QED
    BY <1>2, <2>3, <2>4, <2>5, <2>6, Sizes
<1> QED
  BY <1>2, <1>3, <1>4

\* The layout goes along the sums of the shares, and so splits the buckets.
LEMMA LayoutTiles ==
  ASSUME NEW t \in [ArmIDs -> Nat], \A a \in ArmIDs : MinArmShare <= t[a],
         Total(t, ArmIDs) \in Nat, Total(t, ArmIDs) <= BucketCount + Half
  PROVE  /\ Tiles(Layout(t))
         /\ \A i \in 1..Count : Layout(t)[Arms[i]].end =
               IF i = Count THEN BucketCount ELSE Total(t, First(i))
<1> DEFINE E == [i \in 0..Count |-> IF i = Count THEN BucketCount ELSE Total(t, First(i))]
<1>1. ASSUME NEW i \in 0..Count
      PROVE  /\ Total(t, First(i)) \in Nat
             /\ i # Count => /\ Total(t, First(i)) + Least(Count) <= BucketCount
                            /\ EndOf(t, First(i)) = Total(t, First(i))
  <2>1. Total(t, First(i)) \in Nat
    BY TotalFirst
  <2>2. i # Count => Total(t, First(i)) + MinArmShare <= BucketCount + Half
    <3>1. Count \in 1..Count /\ (i # Count => i < Count)
      BY ArmsFacts
    <3>2. i # Count => Total(t, First(i)) + MinArmShare <= Total(t, First(Count))
      BY <3>1, TotalFirst
    <3> QED
      BY <2>1, <3>2, AllArms, Sizes, HalfFacts
  <2>3. Least(Count) = MinArmShare - Half /\ Half \in Nat /\ Half < MinArmShare
    BY HalfFacts, Sizes DEF Least
  <2> QED
    BY <2>1, <2>2, <2>3, Sizes DEF EndOf, Smaller
<1>2. ASSUME NEW i \in 1..Count
      PROVE  /\ UpTo(t, Arms[i]) = First(i)
             /\ UpTo(t, Arms[i]) \ {Arms[i]} = First(i - 1)
             /\ UpTo(t, Arms[i]) = DOMAIN t <=> i = Count
  <2>1. i \in 0..Count /\ i - 1 \in 0..Count
    BY ArmsFacts
  <2>2. UpTo(t, Arms[i]) = {b \in ArmIDs : Place(b) <= i}
    BY ArmsFacts, PositionOrder DEF UpTo
  <2>3. \A b \in ArmIDs : /\ b \in First(i) <=> Place(b) <= i
                          /\ b \in First(i - 1) <=> Place(b) <= i - 1
                          /\ b = Arms[i] <=> Place(b) = i
    BY <2>1, ArmsFacts, FirstFacts
  <2>4. First(i) \subseteq ArmIDs /\ First(i - 1) \subseteq ArmIDs
    BY <2>1, FirstFacts
  <2>5. UpTo(t, Arms[i]) = First(i)
    BY <2>2, <2>3, <2>4
  <2>6. UpTo(t, Arms[i]) \ {Arms[i]} = First(i - 1)
    <3>1. \A b \in ArmIDs : Place(b) <= i /\ Place(b) # i <=> Place(b) <= i - 1
      BY ArmsFacts
    <3> QED
      BY <2>2, <2>3, <2>4, <3>1
  <2>7. i # Count => First(i) # ArmIDs
    <3>1. Count \in 1..Count /\ Arms[Count] \in ArmIDs
      BY ArmsFacts
    <3>2. i # Count => Arms[Count] \notin First(i)
      BY <2>1, <3>1, FirstFacts, ArmsFacts
    <3> QED
      BY <3>1, <3>2
  <2> QED
    BY <2>5, <2>6, <2>7, AllArms
<1>3. \A a \in ArmIDs :
         Layout(t)[a] = [start |-> E[Place(a) - 1], end |-> E[Place(a)]]
  <2> SUFFICES ASSUME NEW i \in 1..Count
               PROVE  Layout(t)[Arms[i]] = [start |-> E[i - 1], end |-> E[i]]
    BY ArmsFacts
  <2>1. i \in 0..Count /\ i - 1 \in 0..Count /\ i - 1 # Count /\ Arms[i] \in ArmIDs
    BY ArmsFacts
  <2>2. Layout(t)[Arms[i]] =
           [start |-> EndOf(t, UpTo(t, Arms[i]) \ {Arms[i]}),
            end |-> IF UpTo(t, Arms[i]) = DOMAIN t THEN BucketCount
                    ELSE EndOf(t, UpTo(t, Arms[i]))]
    BY <2>1 DEF Layout
  <2>3. E[i - 1] = EndOf(t, First(i - 1))
    BY <1>1, <2>1
  <2>4. E[i] = IF i = Count THEN BucketCount ELSE EndOf(t, First(i))
    BY <1>1, <2>1
  <2> HIDE DEF E
  <2> QED
    BY <1>2, <2>2, <2>3, <2>4
<1>4. Layout(t) = [a \in ArmIDs |-> [start |-> E[Place(a) - 1], end |-> E[Place(a)]]]
  <2>1. Layout(t) = [a \in ArmIDs |-> Layout(t)[a]]
    BY DEF Layout
  <2> QED
    BY <1>3, <2>1
<1>5. E \in [0..Count -> 0..BucketCount]
  <2>1. ASSUME NEW i \in 0..Count PROVE E[i] \in 0..BucketCount
    <3>1. CASE i = Count
      BY <3>1, Sizes
    <3>2. CASE i # Count
      <4>1. Least(Count) \in Nat
        BY ArmsFacts, HalfFacts
      <4>2. E[i] = Total(t, First(i))
        BY <3>2
      <4> HIDE DEF E
      <4> QED
        BY <1>1, <3>2, <4>1, <4>2, Sizes
    <3> QED
      BY <3>1, <3>2
  <2> QED
    BY <2>1
<1>6. E[0] = 0 /\ E[Count] = BucketCount
  <2>1. Total(t, First(0)) = 0
    BY AllArms, TotalEmpty
  <2>2. 0 \in 0..Count /\ Count \in 0..Count /\ Count # 0
    BY ArmsFacts
  <2> QED
    BY <2>1, <2>2
<1>7. ASSUME NEW i \in 0..Count, NEW j \in 0..Count, i < j
      PROVE  E[i] + Least(j) <= E[j]
  <2>1. j \in 1..Count /\ i # Count
    BY <1>7, ArmsFacts
  <2>2. Total(t, First(i)) + MinArmShare <= Total(t, First(j))
    BY <1>7, <2>1, TotalFirst
  <2>3. CASE j = Count
    <3>1. E[j] = BucketCount /\ E[i] = Total(t, First(i))
      BY <2>1, <2>3
    <3> QED
      BY <1>1, <2>1, <2>3, <3>1
  <2>4. CASE j # Count
    BY <2>1, <2>2, <2>4 DEF Least
  <2> QED
    BY <2>3, <2>4
<1>8. \A i \in 1..Count : Layout(t)[Arms[i]].end = E[i]
  <2> SUFFICES ASSUME NEW i \in 1..Count PROVE Layout(t)[Arms[i]].end = E[i]
    OBVIOUS
  <2> HIDE DEF E
  <2>1. Arms[i] \in ArmIDs /\ Place(Arms[i]) = i
    BY ArmsFacts
  <2>2. Layout(t)[Arms[i]] = [start |-> E[i - 1], end |-> E[i]]
    BY <1>3, <2>1
  <2> QED
    BY <2>2
<1>9. Tiles(Layout(t))
  <2> HIDE DEF E
  <2> QED
    BY <1>4, <1>5, <1>6, <1>7, TilesAlong
<1>10. \A i \in 1..Count : E[i] = IF i = Count THEN BucketCount ELSE Total(t, First(i))
  BY ArmsFacts
<1> HIDE DEF E
<1> QED
  BY <1>8, <1>9, <1>10

\* Shares that each moved by at most the limit end within Reach of where they ended,
\* if they fill the buckets but for the rounding: by what is before a boundary, or by
\* what is after it.
Reach == (MaxMovePerRun + 1) * (Len(Arms) \div 2)

LEMMA TotalNear ==
  ASSUME NEW S, IsFiniteSet(S), NEW f, NEW g,
         \A a \in S : f[a] \in Nat /\ g[a] \in Nat /\ f[a] <= g[a] + MaxMovePerRun
  PROVE  Total(f, S) <= Total(g, S) + Cardinality(S) * MaxMovePerRun
<1> DEFINE h == [a \in S |-> g[a] + MaxMovePerRun]
           m == [a \in S |-> MaxMovePerRun]
<1>1. \A a \in S : /\ m[a] \in Nat /\ m[a] <= MaxMovePerRun
                   /\ h[a] = g[a] + m[a] /\ h[a] \in Nat /\ f[a] <= h[a]
  BY Sizes
<1> HIDE DEF h, m
<1>2. Total(f, S) <= Total(h, S)
  BY <1>1, TotalMono
<1>3. Total(h, S) = Total(g, S) + Total(m, S)
  BY <1>1, TotalPlus
<1>4. /\ Total(m, S) \in Nat /\ Total(m, S) <= Cardinality(S) * MaxMovePerRun
      /\ Cardinality(S) \in Nat
  BY <1>1, TotalBound, Sizes
<1>5. Total(f, S) \in Nat /\ Total(g, S) \in Nat
  BY TotalType
<1>6. Cardinality(S) * MaxMovePerRun \in Nat
  BY <1>4, Sizes
<1> QED
  BY <1>2, <1>3, <1>4, <1>5, <1>6

LEMMA Halves ==
  ASSUME NEW i \in 0..Count
  PROVE  /\ Reach \in Nat /\ i * MaxMovePerRun \in Nat /\ (Count - i) * MaxMovePerRun \in Nat
         /\ i * MaxMovePerRun + Half <= Reach \/ (Count - i) * MaxMovePerRun + Half <= Reach
<1> DEFINE half == Count \div 2
<1>1. /\ half \in Nat /\ (i <= half \/ Count - i <= half) /\ Count - i \in Nat /\ i \in Nat
      /\ Half = half
  BY ArmsFacts DEF Half
<1>2. Reach = MaxMovePerRun * half + half
  <2>1. Reach = (MaxMovePerRun + 1) * half
    BY DEF Reach, Count
  <2> HIDE DEF half
  <2> QED
    BY <1>1, <2>1, Sizes
<1> HIDE DEF half
<1>3. MaxMovePerRun * half = half * MaxMovePerRun /\ half * MaxMovePerRun \in Nat
  BY <1>1, Sizes
<1>4. i <= half => i * MaxMovePerRun <= half * MaxMovePerRun
  BY <1>1, Sizes, Fewer
<1>5. Count - i <= half => (Count - i) * MaxMovePerRun <= half * MaxMovePerRun
  <2> DEFINE k == Count - i
  <2>1. k \in Nat
    BY <1>1
  <2> HIDE DEF k
  <2>2. k <= half => k * MaxMovePerRun <= half * MaxMovePerRun
    BY <1>1, <2>1, Sizes, Fewer
  <2> QED
    BY <2>2 DEF k
<1>6. i * MaxMovePerRun \in Nat /\ (Count - i) * MaxMovePerRun \in Nat
  BY <1>1, Sizes
<1> QED
  BY <1>1, <1>2, <1>3, <1>4, <1>5, <1>6

LEMMA EndsNear ==
  ASSUME NEW f \in [ArmIDs -> Nat], NEW g \in [ArmIDs -> Nat],
         \A a \in ArmIDs : f[a] <= g[a] + MaxMovePerRun /\ g[a] <= f[a] + MaxMovePerRun,
         Total(f, ArmIDs) - BucketCount \in -Half..Half, Total(g, ArmIDs) = BucketCount,
         NEW i \in 0..Count
  PROVE  /\ Total(f, First(i)) \in Nat /\ Total(g, First(i)) \in Nat
         /\ Total(f, First(i)) <= Total(g, First(i)) + Reach
         /\ Total(g, First(i)) <= Total(f, First(i)) + Reach
<1> DEFINE P == First(i)
           R == ArmIDs \ First(i)
<1>1. /\ IsFiniteSet(P) /\ Cardinality(P) = i /\ IsFiniteSet(R) /\ Cardinality(R) = Count - i
      /\ P \cap R = {} /\ P \cup R = ArmIDs /\ P \in SUBSET ArmIDs /\ R \in SUBSET ArmIDs
  BY FirstFacts, RestFacts
<1>2. \A S \in {P, R} : /\ IsFiniteSet(S)
                        /\ \A a \in S : /\ f[a] \in Nat /\ g[a] \in Nat
                                        /\ f[a] <= g[a] + MaxMovePerRun
                                        /\ g[a] <= f[a] + MaxMovePerRun
  BY <1>1
<1> HIDE DEF P, R
<1>3. \A S \in {P, R} : /\ Total(f, S) \in Nat /\ Total(g, S) \in Nat
                        /\ Total(f, S) <= Total(g, S) + Cardinality(S) * MaxMovePerRun
                        /\ Total(g, S) <= Total(f, S) + Cardinality(S) * MaxMovePerRun
  BY <1>2, TotalType, TotalNear
<1>4. /\ Total(f, P \cup R) = Total(f, P) + Total(f, R)
      /\ Total(g, P \cup R) = Total(g, P) + Total(g, R)
  BY <1>1, TotalSplit
<1>5. /\ Total(f, P) + Total(f, R) <= BucketCount + Half
      /\ BucketCount <= Total(f, P) + Total(f, R) + Half
      /\ BucketCount = Total(g, P) + Total(g, R)
  <2>1. Total(f, ArmIDs) = Total(f, P) + Total(f, R)
    BY <1>1, <1>4, Zenon
  <2>2. Total(g, ArmIDs) = Total(g, P) + Total(g, R)
    BY <1>1, <1>4, Zenon
  <2>3. /\ Total(f, ArmIDs) <= BucketCount + Half
        /\ BucketCount <= Total(f, ArmIDs) + Half
    <3>1. Total(f, ArmIDs) \in Nat
      BY AllArms, TotalType
    <3> QED
      BY <3>1, HalfFacts, Sizes
  <2> QED
    BY <2>1, <2>2, <2>3
<1>6. /\ Total(f, P) \in Nat /\ Total(g, P) \in Nat /\ Total(f, R) \in Nat /\ Total(g, R) \in Nat
      /\ Total(f, P) <= Total(g, P) + i * MaxMovePerRun
      /\ Total(g, P) <= Total(f, P) + i * MaxMovePerRun
      /\ Total(f, R) <= Total(g, R) + (Count - i) * MaxMovePerRun
      /\ Total(g, R) <= Total(f, R) + (Count - i) * MaxMovePerRun
  BY <1>1, <1>3
<1> QED
  BY <1>5, <1>6, Halves, HalfFacts, Sizes DEF P

------------------------------------------------------------------------------
\* ANY NUMBER OF RUNS

Split == unlike \in Nat /\ (unlike = 0 => Tiles(file))

Kept == unlike = 0 /\ ~drained => FirstEnd[1] <= file[ControlID].end

\* What a proposal for the arms of the file would do to the file it was made from.
Close(f, r) ==
    \A i \in 1..Count : /\ r[Arms[i]].end <= f[Arms[i]].end + Reach
                        /\ f[Arms[i]].end <= r[Arms[i]].end + Reach

Proposed ==
    printed # Nothing /\ unlike = 0 /\ Observed = ArmIDs =>
        /\ Tiles(printed.ranges)
        /\ ControlID \notin printed.breached =>
              file[ControlID].end <= printed.ranges[ControlID].end
        /\ printed.breached = {} /\ Total(printed.to, ArmIDs) - BucketCount \in -Half..Half =>
              Close(file, printed.ranges)

YieldInv == Split /\ Kept /\ Proposed

LEMMA FirstFileTiles == Tiles(FirstFile) /\ FirstEnd[1] <= FirstFile[ControlID].end
<1> DEFINE E == [i \in 0..Count |-> End(i)]
<1>1. DOMAIN Arms = 1..Count /\ Count \in Nat /\ Count >= 1 /\ Count = Len(Arms)
  BY ArmsFacts DEF Count
<1>2. \A i \in 1..Count : FirstEnd[i] \in MinArmShare..BucketCount
  BY <1>1, FirstEndAssumption
<1>3. E \in [0..Count -> 0..BucketCount]
  <2>1. \A i \in 0..Count : End(i) \in 0..BucketCount
    <3> SUFFICES ASSUME NEW i \in 0..Count PROVE End(i) \in 0..BucketCount
      OBVIOUS
    <3>1. CASE i = 0
      BY <3>1, Sizes DEF End
    <3>2. CASE i # 0
      <4>1. i \in 1..Count
        BY <1>1, <3>2
      <4> QED
        BY <1>2, <3>2, <4>1, Sizes DEF End
    <3> QED
      BY <3>1, <3>2
  <2> QED
    BY <2>1
<1>4. E[0] = 0 /\ E[Count] = BucketCount
  <2>1. 0 \in 0..Count /\ Count \in 0..Count /\ Count # 0
    BY <1>1
  <2>2. FirstEnd[Count] = BucketCount
    BY <1>1, FirstEndAssumption
  <2> QED
    BY <2>1, <2>2 DEF End
<1>5. ASSUME NEW i \in 0..Count, NEW j \in 0..Count, i < j
      PROVE  E[i] + Least(j) <= E[j]
  <2>1. j \in 1..Count /\ j # 0 /\ Least(j) \in Nat /\ Least(j) <= MinArmShare
    BY <1>1, <1>5, HalfFacts
  <2>2. E[j] = FirstEnd[j]
    BY <2>1 DEF End
  <2>3. CASE i = 0
    <3>1. E[i] = 0
      BY <2>3 DEF End
    <3> QED
      BY <1>2, <2>1, <2>2, <3>1, Sizes
  <2>4. CASE i # 0
    <3>1. i \in 1..Count /\ E[i] = FirstEnd[i]
      BY <1>1, <2>4 DEF End
    <3>2. FirstEnd[i] + MinArmShare <= FirstEnd[j]
      BY <1>1, <1>5, <2>1, <3>1, FirstEndAssumption
    <3> QED
      BY <1>2, <2>1, <2>2, <3>1, <3>2, Sizes
  <2> QED
    BY <2>3, <2>4
<1>6. FirstFile = [a \in ArmIDs |-> [start |-> E[Place(a) - 1], end |-> E[Place(a)]]]
  <2>1. \A a \in ArmIDs : Place(a) \in 0..Count /\ Place(a) - 1 \in 0..Count
    BY ArmsFacts
  <2>2. \A a \in ArmIDs : E[Place(a)] = End(Place(a)) /\ E[Place(a) - 1] = End(Place(a) - 1)
    BY <2>1
  <2> HIDE DEF E
  <2> QED
    BY <2>2 DEF FirstFile
<1>7. Tiles(FirstFile)
  <2> HIDE DEF E
  <2> QED
    BY <1>3, <1>4, <1>5, <1>6, TilesAlong
<1>8. FirstFile[ControlID].end = FirstEnd[1]
  <2>1. ControlID \in ArmIDs /\ Place(ControlID) = 1
    BY ArmsFacts
  <2> QED
    BY <2>1 DEF FirstFile, End
<1>9. FirstEnd[1] <= FirstFile[ControlID].end
  BY <1>1, <1>2, <1>8, Sizes
<1> QED
  BY <1>7, <1>9

LEMMA YieldInitHolds == YieldInit => YieldInv
BY FirstFileTiles DEF YieldInit, YieldInv, Split, Kept, Proposed

LEMMA ProposeHolds ==
  ASSUME YieldInv, NEW log \in Logs, Propose(log)
  PROVE  YieldInv'
<1>1. PICK t \in waterFill(log) :
         printed' = [breached |-> Having(log, "breached"), to |-> t, ranges |-> Layout(t)]
  BY DEF Propose
<1>2. UNCHANGED <<file, unlike, drained>>
  BY DEF Propose
<1>3. Split' /\ Kept'
  BY <1>2 DEF YieldInv, Split, Kept, Tiles
<1>4. ASSUME unlike' = 0, Observed' = ArmIDs
      PROVE  /\ Tiles(printed'.ranges)
             /\ ControlID \notin printed'.breached =>
                   file'[ControlID].end <= printed'.ranges[ControlID].end
             /\ printed'.breached = {} /\ Total(printed'.to, ArmIDs) - BucketCount \in -Half..Half =>
                   Close(file', printed'.ranges)
  <2>1. Tiles(file)
    BY <1>2, <1>4 DEF YieldInv, Split
  <2>2. /\ printed'.ranges = Layout(t) /\ printed'.to = t
        /\ printed'.breached = Having(log, "breached")
    BY <1>1
  <2>3. DOMAIN t = DOMAIN log
    BY DEF waterFill, Shares
  <2>4. DOMAIN log = ArmIDs
    BY <1>4, <2>2, <2>3 DEF Observed, Layout
  <2>5. log \in [ArmIDs -> Marks]
    BY <2>4 DEF Logs, Marks
  <2>6. Fits(log, t)
    BY <2>1, <2>5, WaterFits
  <2>7. /\ t \in [ArmIDs -> Nat]
        /\ \A a \in ArmIDs : /\ Share(a) \in Nat /\ SharesOf(file)[a] = Share(a)
                             /\ MinArmShare <= t[a]
                             /\ log[a] # "breached" =>
                                   /\ t[a] <= Share(a) + MaxMovePerRun
                                   /\ Share(a) <= t[a] + MaxMovePerRun
                                   /\ a = ControlID => Share(a) <= t[a]
    <3> SUFFICES ASSUME NEW a \in ArmIDs
                 PROVE  /\ Share(a) \in Nat /\ SharesOf(file)[a] = Share(a)
                        /\ MinArmShare <= t[a]
                        /\ log[a] # "breached" =>
                              /\ t[a] <= Share(a) + MaxMovePerRun
                              /\ Share(a) <= t[a] + MaxMovePerRun
                              /\ a = ControlID => Share(a) <= t[a]
      BY <2>6 DEF Fits
    <3>1. t[a] \in Nat /\ lo(log)[a] <= t[a] /\ t[a] <= hi(log)[a]
      BY <2>6 DEF Fits
    <3> QED
      BY <2>1, <2>5, <3>1, BoundsHold, Sizes
  <2>8. /\ Tiles(Layout(t))
        /\ \A i \in 1..Count : Layout(t)[Arms[i]].end =
              IF i = Count THEN BucketCount ELSE Total(t, First(i))
    BY <2>6, <2>7, LayoutTiles DEF Fits
  <2>9. ASSUME ControlID \notin Having(log, "breached")
        PROVE  file[ControlID].end <= Layout(t)[ControlID].end
    <3>1. ControlID = Arms[1] /\ 1 \in 1..Count /\ ControlID \in ArmIDs /\ 1 \in 0..Count
      BY ArmsFacts
    <3>2. Share(ControlID) <= t[ControlID] /\ t[ControlID] \in Nat
      BY <2>4, <2>7, <2>9, <3>1 DEF Having
    <3>3. Share(ControlID) = file[ControlID].end /\ file[ControlID].end \in 0..BucketCount
      <4>1. file[ControlID].start = 0
        BY <2>1, <3>1 DEF Tiles
      <4> QED
        BY <2>1, <3>1, <4>1, RangeType DEF Share
    <3>4. CASE Count = 1
      BY <2>8, <3>1, <3>3, <3>4, Sizes
    <3>5. CASE Count # 1
      <4>1. First(1) = {ControlID}
        BY <3>1 DEF First
      <4>2. Total(t, First(1)) = t[ControlID]
        BY <3>2, <4>1, TotalOne
      <4> QED
        BY <2>8, <3>1, <3>2, <3>3, <3>5, <4>2
    <3> QED
      BY <3>4, <3>5
  <2>10. ASSUME Having(log, "breached") = {}, Total(t, ArmIDs) - BucketCount \in -Half..Half
         PROVE  Close(file, Layout(t))
    <3>1. \A a \in ArmIDs : log[a] # "breached"
      BY <2>4, <2>10 DEF Having
    <3>2. /\ SharesOf(file) \in [ArmIDs -> Nat]
          /\ \A a \in ArmIDs : /\ t[a] <= SharesOf(file)[a] + MaxMovePerRun
                               /\ SharesOf(file)[a] <= t[a] + MaxMovePerRun
      <4>1. \A a \in ArmIDs : SharesOf(file)[a] \in Nat
        BY <2>7
      <4>2. SharesOf(file) = [a \in ArmIDs |-> SharesOf(file)[a]]
        BY DEF SharesOf
      <4> QED
        BY <2>7, <3>1, <4>1, <4>2
    <3>3. Total(SharesOf(file), ArmIDs) = BucketCount
      BY <2>1, SharesFill
    <3> SUFFICES ASSUME NEW i \in 1..Count
                 PROVE  /\ Layout(t)[Arms[i]].end <= file[Arms[i]].end + Reach
                        /\ file[Arms[i]].end <= Layout(t)[Arms[i]].end + Reach
      BY DEF Close
    <3>4. i \in 0..Count
      BY ArmsFacts
    <3>5. CASE i = Count
      <4>1. Layout(t)[Arms[i]].end = BucketCount /\ file[Arms[i]].end = BucketCount
        BY <2>1, <2>8, <3>5 DEF Tiles
      <4>2. Reach \in Nat
        BY <3>4, Halves
      <4> QED
        BY <4>1, <4>2, Sizes
    <3>6. CASE i # Count
      <4>1. Layout(t)[Arms[i]].end = Total(t, First(i))
        BY <2>8, <3>6
      <4>2. file[Arms[i]].end = Total(SharesOf(file), First(i))
        BY <2>1, Telescope
      <4> QED
        BY <2>7, <2>10, <3>2, <3>3, <3>4, <4>1, <4>2, EndsNear
    <3> QED
      BY <3>5, <3>6
  <2> QED
    BY <1>2, <2>2, <2>8, <2>9, <2>10 DEF Close
<1> QED
  BY <1>3, <1>4 DEF YieldInv, Proposed, Tiles

LEMMA EnterHolds ==
  ASSUME YieldInv, Enter
  PROVE  YieldInv'
<1>1. /\ printed # Nothing /\ printed' = Nothing
      /\ file' = [a \in ArmIDs |-> IF a \in Observed THEN printed.ranges[a] ELSE file[a]]
      /\ unlike' = unlike + (IF Observed = ArmIDs THEN 0 ELSE 1)
      /\ drained' = (drained \/ ControlID \in printed.breached)
  BY DEF Enter
<1>0. unlike \in Nat /\ unlike' \in Nat
  BY <1>1 DEF YieldInv, Split
<1>2. Proposed'
  BY <1>1 DEF Proposed
<1>3. CASE unlike' # 0
  BY <1>0, <1>2, <1>3 DEF YieldInv, Split, Kept
<1>4. CASE unlike' = 0
  <2>1. unlike = 0 /\ Observed = ArmIDs
    BY <1>0, <1>1, <1>4
  <2>2. Tiles(printed.ranges)
    BY <1>1, <2>1 DEF YieldInv, Proposed
  <2>3. file' = printed.ranges
    BY <1>1, <2>1, <2>2 DEF Tiles
  <2>4. Split'
    BY <1>0, <2>2, <2>3 DEF Split, Tiles
  <2>5. Kept'
    <3> SUFFICES ASSUME ~drained' PROVE FirstEnd[1] <= file'[ControlID].end
      BY DEF Kept
    <3>1. ~drained /\ ControlID \notin printed.breached
      BY <1>1
    <3>2. FirstEnd[1] <= file[ControlID].end
      BY <2>1, <3>1 DEF YieldInv, Kept
    <3>3. file[ControlID].end <= printed.ranges[ControlID].end
      BY <1>1, <2>1, <3>1 DEF YieldInv, Proposed
    <3>4. /\ file[ControlID].end \in Nat /\ printed.ranges[ControlID].end \in Nat
          /\ FirstEnd[1] \in Nat
      <4>1. ControlID \in ArmIDs /\ 1 \in DOMAIN Arms
        BY ArmsFacts
      <4>2. FirstEnd[1] \in MinArmShare..BucketCount
        BY <4>1, FirstEndAssumption
      <4>3. Tiles(file)
        BY <2>1 DEF YieldInv, Split
      <4> QED
        BY <2>2, <4>1, <4>2, <4>3, RangeType, Sizes
    <3> QED
      BY <2>3, <3>2, <3>3, <3>4
  <2> QED
    BY <1>2, <2>4, <2>5 DEF YieldInv
<1> QED
  BY <1>3, <1>4

LEMMA DiscardHolds ==
  ASSUME YieldInv, Discard
  PROVE  YieldInv'
<1>1. printed' = Nothing /\ UNCHANGED <<file, unlike, drained>>
  BY DEF Discard
<1> QED
  BY <1>1 DEF YieldInv, Split, Kept, Proposed, Tiles

LEMMA YieldNextHolds == YieldInv /\ [YieldNext]_yieldVars => YieldInv'
<1> SUFFICES ASSUME YieldInv, [YieldNext]_yieldVars PROVE YieldInv'
  OBVIOUS
<1>1. CASE UNCHANGED yieldVars
  BY <1>1 DEF yieldVars, YieldInv, Split, Kept, Proposed, Tiles, Observed, Close
<1> QED
  BY <1>1, ProposeHolds, EnterHolds, DiscardHolds DEF YieldNext

LEMMA YieldInvariant == YieldSpec => []YieldInv
BY YieldInitHolds, YieldNextHolds, PTL DEF YieldSpec

\* Whatever the arms earn, breach and are measured, and however often: as long as
\* every log had the arms of the file, it splits the buckets, no arm is empty and the
\* control has its twentieth.
LEMMA FileStaysASplit == YieldSpec => [](unlike = 0 => IsSplit(Served))
<1>1. YieldInv => (unlike = 0 => IsSplit(Served))
  <2> SUFFICES ASSUME Tiles(file) PROVE IsSplit(Served)
    BY DEF YieldInv, Split
  <2> DEFINE v(i) == Variant(Arms[i], file[Arms[i]].start, file[Arms[i]].end, "")
  <2>1. /\ Served.variants = [i \in 1..Count |-> v(i)]
        /\ DOMAIN Served.variants = 1..Count /\ Len(Served.variants) = Count
    <3>1. DOMAIN Arms = 1..Count /\ Count \in Nat
      BY ArmsFacts
    <3>2. Served.variants = [i \in 1..Count |-> v(i)]
      BY <3>1 DEF Served, Experiment
    <3> HIDE DEF v
    <3> QED
      BY <3>1, <3>2
  <2>2. \A i \in 1..Count : /\ Served.variants[i] = v(i)
                            /\ v(i).id = Arms[i]
                            /\ v(i).start = file[Arms[i]].start
                            /\ v(i).end = file[Arms[i]].end
    BY <2>1 DEF Variant
  <2> HIDE DEF v
  <2>3. \A i \in 1..Count : /\ Arms[i] \in ArmIDs
                            /\ v(i).start \in Nat /\ v(i).end \in Nat
                            /\ v(i).start + Least(i) <= v(i).end
                            /\ v(i).start < v(i).end
                            /\ v(i).end <= BucketCount
    <3> SUFFICES ASSUME NEW i \in 1..Count
                 PROVE  /\ Arms[i] \in ArmIDs
                        /\ v(i).start \in Nat /\ v(i).end \in Nat
                        /\ v(i).start + Least(i) <= v(i).end
                        /\ v(i).start < v(i).end
                        /\ v(i).end <= BucketCount
      OBVIOUS
    <3>1. Arms[i] \in ArmIDs /\ Place(Arms[i]) = i
      BY ArmsFacts
    <3>2. /\ file[Arms[i]].end \in 0..BucketCount
          /\ file[Arms[i]].start \in Nat /\ file[Arms[i]].end \in Nat
          /\ file[Arms[i]].start + Least(i) <= file[Arms[i]].end
          /\ file[Arms[i]].start < file[Arms[i]].end
      BY <3>1, RangeType
    <3>3. v(i).start = file[Arms[i]].start /\ v(i).end = file[Arms[i]].end
      BY <2>2
    <3> QED
      BY <3>1, <3>2, <3>3
  <2>4. VariantsOf(Served) = {v(i) : i \in 1..Count}
    BY <2>1, <2>2 DEF VariantsOf
  <2>5. ASSUME NEW b \in Buckets
        PROVE  Cardinality({i \in DOMAIN Served.variants : Owns(Served.variants[i], b)}) = 1
    <3>1. b \in Nat
      BY Sizes DEF Buckets
    <3>2. PICK a \in ArmIDs : file[a].start <= b /\ b < file[a].end
      BY DEF Tiles
    <3>3. Place(a) \in 1..Count /\ Arms[Place(a)] = a
      BY ArmsFacts
    <3>4. \A i \in 1..Count : Owns(Served.variants[i], b) <=> i = Place(a)
      <4> SUFFICES ASSUME NEW i \in 1..Count
                   PROVE  Owns(Served.variants[i], b) <=> i = Place(a)
        OBVIOUS
      <4>1. Owns(Served.variants[i], b) <=> file[Arms[i]].start <= b /\ b < file[Arms[i]].end
        BY <2>2 DEF Owns
      <4> QED
        BY <3>1, <3>2, <3>3, <4>1, OneOwner
    <3>5. {i \in DOMAIN Served.variants : Owns(Served.variants[i], b)} = {Place(a)}
      BY <2>1, <3>3, <3>4
    <3> QED
      BY <3>5, FS_Singleton
  <2>6. \A w \in VariantsOf(Served) : 0 <= w.start /\ w.start < w.end /\ w.end <= BucketCount
    BY <2>3, <2>4, Sizes
  <2>7. Cardinality({w.id : w \in VariantsOf(Served)}) = Len(Served.variants)
    <3>1. {w.id : w \in VariantsOf(Served)} = ArmIDs
      <4>1. {w.id : w \in VariantsOf(Served)} = {Arms[i] : i \in 1..Count}
        BY <2>2, <2>4
      <4> QED
        BY <4>1, AllArms DEF First
    <3> QED
      BY <2>1, <3>1, AllArms
  <2>8. ControlID \in {w.id : w \in VariantsOf(Served)}
    BY <2>2, <2>4, ArmsFacts
  <2>9. \A w \in VariantsOf(Served) :
           w.id = ControlID => 20 * (w.end - w.start) >= BucketCount
    <3> SUFFICES ASSUME NEW i \in 1..Count, v(i).id = ControlID
                 PROVE  20 * (v(i).end - v(i).start) >= BucketCount
      BY <2>4
    <3>1. i = 1
      BY <2>2, ArmsFacts
    <3>2. Least(1) = MinArmShare
      BY HalfFacts, Sizes DEF Least
    <3> QED
      BY <2>3, <3>1, <3>2, Sizes
  <2> QED
    BY <2>5, <2>6, <2>7, <2>8, <2>9 DEF IsSplit
<1> QED
  BY <1>1, YieldInvariant, PTL

\* The control keeps its first buckets for good: whatever the other arms earn, for any
\* arms, shares and number of runs.
THEOREM HoldoutIsKept == YieldSpec => []HoldoutKept
<1>1. YieldInv => HoldoutKept
  <2> SUFFICES ASSUME Tiles(file), FirstEnd[1] <= file[ControlID].end,
                      NEW b \in Buckets, b < FirstEnd[1]
               PROVE  AssignBucket(Served, b, "unit").holdout
    BY DEF YieldInv, Split, Kept, HoldoutKept
  <2>1. /\ ControlID = Arms[1] /\ ControlID \in ArmIDs /\ Count \in Nat /\ 1 \in 1..Count
        /\ DOMAIN Arms = 1..Count
    BY ArmsFacts
  <2>2. /\ b \in Nat /\ file[Arms[1]].start = 0 /\ file[Arms[1]].end \in Nat
        /\ FirstEnd[1] \in Nat
    <3>1. FirstEnd[1] \in MinArmShare..BucketCount
      BY <2>1, FirstEndAssumption
    <3> QED
      BY <2>1, <3>1, RangeType, Sizes DEF Buckets, Tiles
  <2>3. /\ DOMAIN Served.variants = 1..Count /\ Len(Served.variants) = Count
        /\ Served.variants[1].id = ControlID /\ Served.control = ControlID
        /\ Owns(Served.variants[1], b)
    <3> DEFINE v(i) == Variant(Arms[i], file[Arms[i]].start, file[Arms[i]].end, "")
    <3>1. Served.variants = [i \in 1..Count |-> v(i)] /\ Served.control = ControlID
      BY <2>1 DEF Served, Experiment
    <3>2. /\ v(1).id = ControlID
          /\ v(1).start = file[Arms[1]].start /\ v(1).end = file[Arms[1]].end
      BY <2>1 DEF Variant
    <3> HIDE DEF v
    <3>3. DOMAIN Served.variants = 1..Count /\ Served.variants[1] = v(1)
      BY <2>1, <3>1
    <3>4. Len(Served.variants) = Count
      BY <2>1, <3>1
    <3>5. Owns(v(1), b)
      <4>1. file[Arms[1]].start <= b /\ b < file[Arms[1]].end
        BY <2>1, <2>2
      <4> QED
        BY <3>2, <4>1 DEF Owns
    <3> QED
      BY <3>1, <3>2, <3>3, <3>4, <3>5
  <2> DEFINE I == {i \in 1..Len(Served.variants) : Owns(Served.variants[i], b)}
  <2>4. 1 \in I /\ \A i \in I : i \in Nat /\ 1 <= i
    BY <2>1, <2>3
  <2>5. Min(I) = 1
    <3> HIDE DEF I
    <3>1. Min(I) \in I /\ \A i \in I : Min(I) <= i
      BY <2>4 DEF Min
    <3> QED
      BY <2>4, <3>1
  <2>6. SelectInSeq(Served.variants, LAMBDA w : Owns(w, b)) = 1
    BY <2>4, <2>5 DEF SelectInSeq
  <2>7. \E w \in VariantsOf(Served) : Owns(w, b)
    BY <2>1, <2>3 DEF VariantsOf
  <2> QED
    BY <2>3, <2>6, <2>7 DEF AssignBucket, Assignment
<1> QED
  BY <1>1, YieldInvariant, PTL

\* Only buckets near a boundary change arms: within half as many moves as there are
\* arms of where a range ended, and a bucket more for each that was rounded, for any
\* arms, shares and number of runs.
THEOREM OnlyBoundariesMove == YieldSpec => []BoundaryBucketsMove
<1>1. YieldInv => BoundaryBucketsMove
  <2> SUFFICES ASSUME Tiles(file), Tiles(printed.ranges), Close(file, printed.ranges),
                      NEW b \in Moved
               PROVE  \E a \in ArmIDs : b - file[a].end \in -Reach..(Reach - 1)
    BY DEF YieldInv, Split, Proposed, BoundaryBucketsMove, Reach, Half, Count
  <2>1. b \in Buckets /\ b \in Nat /\ Owner(file, b) # Owner(printed.ranges, b)
    BY Sizes DEF Moved, Buckets
  <2>2. PICK i \in 1..Count : file[Arms[i]].start <= b /\ b < file[Arms[i]].end
    <3>1. PICK a \in ArmIDs : file[a].start <= b /\ b < file[a].end
      BY <2>1 DEF Tiles
    <3> QED
      BY <3>1, ArmsFacts
  <2>3. PICK k \in 1..Count :
           printed.ranges[Arms[k]].start <= b /\ b < printed.ranges[Arms[k]].end
    <3>1. PICK a \in ArmIDs : printed.ranges[a].start <= b /\ b < printed.ranges[a].end
      BY <2>1 DEF Tiles
    <3> QED
      BY <3>1, ArmsFacts
  <2>4. i # k
    <3> SUFFICES ASSUME i = k PROVE FALSE
      OBVIOUS
    <3>1. Owner(file, b) = {Arms[i]}
      <4>1. \A a \in ArmIDs : file[a].start <= b /\ b < file[a].end => a = Arms[i]
        BY <2>1, <2>2, OneOwner, ArmsFacts
      <4> QED
        BY <2>2, <4>1, ArmsFacts DEF Owner
    <3>2. Owner(printed.ranges, b) = {Arms[i]}
      <4>1. \A a \in ArmIDs :
               printed.ranges[a].start <= b /\ b < printed.ranges[a].end => a = Arms[i]
        BY <2>1, <2>3, OneOwner, ArmsFacts
      <4> QED
        BY <2>3, <4>1, ArmsFacts DEF Owner
    <3> QED
      BY <2>1, <3>1, <3>2
  <2>5. \A j \in 1..Count :
           /\ Arms[j] \in ArmIDs
           /\ file[Arms[j]].end \in Nat /\ printed.ranges[Arms[j]].end \in Nat
           /\ file[Arms[j]].start \in Nat /\ printed.ranges[Arms[j]].start \in Nat
           /\ printed.ranges[Arms[j]].end <= file[Arms[j]].end + Reach
           /\ file[Arms[j]].end <= printed.ranges[Arms[j]].end + Reach
    BY ArmsFacts, RangeType DEF Close
  <2>6. Reach \in Nat
    <3>1. 0 \in 0..Count
      BY ArmsFacts
    <3> QED
      BY <3>1, Halves
  <2>7. CASE i < k
    <3>1. printed.ranges[Arms[i]].end <= printed.ranges[Arms[k]].start
      BY <2>7 DEF Tiles
    <3>2. printed.ranges[Arms[i]].end <= b
      BY <2>1, <2>3, <2>5, <3>1
    <3>3. b - file[Arms[i]].end \in -Reach..(Reach - 1)
      BY <2>1, <2>2, <2>5, <2>6, <3>2
    <3> QED
      BY <2>5, <3>3
  <2>8. CASE k < i
    <3>1. file[Arms[k]].end <= file[Arms[i]].start
      BY <2>8 DEF Tiles
    <3>2. file[Arms[k]].end <= b
      BY <2>1, <2>2, <2>5, <3>1
    <3>3. b - file[Arms[k]].end \in -Reach..(Reach - 1)
      BY <2>1, <2>3, <2>5, <2>6, <3>2
    <3> QED
      BY <2>5, <3>3
  <2> QED
    BY <2>4, <2>7, <2>8
<1> QED
  BY <1>1, YieldInvariant, PTL

------------------------------------------------------------------------------
\* VALIDATE, for any experiment

HasRanges(vs) ==
    /\ Len(vs) \in Nat /\ DOMAIN vs = 1..Len(vs)
    /\ \A i \in DOMAIN vs : vs[i].start \in Int /\ vs[i].end \in Int

LEMMA LeastOf ==
  ASSUME NEW S, IsFiniteSet(S), S # {}, NEW R,
         \A i \in S : <<i, i>> \notin R,
         \A i, j, k \in S : <<i, j>> \in R /\ <<j, k>> \in R => <<i, k>> \in R
  PROVE  \E i \in S : \A j \in S : <<j, i>> \notin R
<1> DEFINE Below(i) == {j \in S : <<j, i>> \in R}
           Counts == {Cardinality(Below(i)) : i \in S}
<1>1. \A i \in S : IsFiniteSet(Below(i)) /\ Cardinality(Below(i)) \in Nat
  <2>1. \A i \in S : Below(i) \in SUBSET S
    OBVIOUS
  <2> HIDE DEF Below
  <2> QED
    BY <2>1, FS_Subset, FS_CardinalityType
<1>2. PICK n \in Counts : \A m \in Counts : ~(m < n)
  <2>1. Counts \subseteq Nat /\ Counts # {}
    <3> HIDE DEF Below
    <3> QED
      BY <1>1
  <2> HIDE DEF Counts
  <2>2. \E n \in Counts : \A m \in Counts : ~(<<m, n>> \in OpToRel(<, Nat))
    BY <2>1, NatLessThanWellFounded, WFMin
  <2> QED
    BY <2>1, <2>2 DEF OpToRel
<1>3. PICK r \in S : n = Cardinality(Below(r))
  BY <1>2
<1>4. \A j \in S : <<j, r>> \notin R
  <2> SUFFICES ASSUME NEW j \in S, <<j, r>> \in R PROVE FALSE
    OBVIOUS
  <2>1. Below(j) \subseteq Below(r) /\ j \in Below(r) /\ j \notin Below(j)
    OBVIOUS
  <2> HIDE DEF Below
  <2>2. /\ Cardinality(Below(j)) <= Cardinality(Below(r))
        /\ Cardinality(Below(j)) # Cardinality(Below(r))
    BY <1>1, <2>1, FS_Subset
  <2>3. Cardinality(Below(j)) < n
    BY <1>1, <1>3, <2>2
  <2> QED
    BY <1>2, <2>3
<1> QED
  BY <1>4

\* The order Validate goes through the variants in is one.
LEMMA AheadIsOrder ==
  ASSUME NEW vs, HasRanges(vs), NEW i \in DOMAIN vs, NEW j \in DOMAIN vs
  PROVE  /\ ~Ahead(vs, i, i)
         /\ \A k \in DOMAIN vs : Ahead(vs, i, j) /\ Ahead(vs, j, k) => Ahead(vs, i, k)
         /\ i # j => Ahead(vs, i, j) \/ Ahead(vs, j, i)
         /\ ~(Ahead(vs, i, j) /\ Ahead(vs, j, i))
         /\ vs[i].start < vs[j].start => Ahead(vs, i, j)
         /\ Ahead(vs, i, j) => vs[i].start <= vs[j].start
BY DEF HasRanges, Ahead

LEMMA VariantsFinite ==
  ASSUME NEW vs, HasRanges(vs), NEW S \in SUBSET DOMAIN vs
  PROVE  IsFiniteSet(S)
<1>1. Len(vs) \in Int /\ 1 \in Int /\ DOMAIN vs = 1..Len(vs)
  BY DEF HasRanges
<1>2. IsFiniteSet(1..Len(vs))
  BY <1>1, FS_Interval
<1> QED
  BY <1>1, <1>2, FS_Subset

LEMMA FirstOf ==
  ASSUME NEW vs, HasRanges(vs), NEW S \in SUBSET DOMAIN vs, S # {}
  PROVE  \E i \in S : \A j \in S : ~Ahead(vs, j, i)
<1> DEFINE R == {p \in S \X S : Ahead(vs, p[1], p[2])}
<1>1. \A i, j \in S : <<i, j>> \in R <=> Ahead(vs, i, j)
  OBVIOUS
<1>2. IsFiniteSet(S)
  BY VariantsFinite
<1> HIDE DEF R
<1>3. \A i \in S : <<i, i>> \notin R
  BY <1>1, AheadIsOrder
<1>4. \A i, j, k \in S : <<i, j>> \in R /\ <<j, k>> \in R => <<i, k>> \in R
  BY <1>1, AheadIsOrder
<1>5. \E i \in S : \A j \in S : <<j, i>> \notin R
  BY <1>2, <1>3, <1>4, LeastOf
<1> QED
  BY <1>1, <1>5

LEMMA LastOf ==
  ASSUME NEW vs, HasRanges(vs), NEW S \in SUBSET DOMAIN vs, S # {}
  PROVE  \E i \in S : (\A j \in S \ {i} : Ahead(vs, j, i)) /\ Cursor(vs, S) = vs[i].end
<1> DEFINE R == {p \in S \X S : Ahead(vs, p[2], p[1])}
<1>1. \A i, j \in S : <<i, j>> \in R <=> Ahead(vs, j, i)
  OBVIOUS
<1>2. IsFiniteSet(S)
  BY VariantsFinite
<1> HIDE DEF R
<1>3. \A i \in S : <<i, i>> \notin R
  BY <1>1, AheadIsOrder
<1>4. \A i, j, k \in S : <<i, j>> \in R /\ <<j, k>> \in R => <<i, k>> \in R
  BY <1>1, AheadIsOrder
<1>5. PICK i \in S : \A j \in S : ~Ahead(vs, i, j)
  <2>1. \E i \in S : \A j \in S : <<j, i>> \notin R
    BY <1>2, <1>3, <1>4, LeastOf
  <2> QED
    BY <1>1, <2>1
<1>6. \A j \in S \ {i} : Ahead(vs, j, i)
  BY <1>5, AheadIsOrder
<1>7. \A k \in S : (\A j \in S \ {k} : Ahead(vs, j, k)) => k = i
  BY <1>6, AheadIsOrder
<1>8. Cursor(vs, S) = vs[i].end
  BY <1>6, <1>7 DEF Cursor
<1> QED
  BY <1>6, <1>8

Covered(vs) == \A b \in Buckets : Cardinality({i \in DOMAIN vs : Owns(vs[i], b)}) = 1

Within(vs) == \A i \in DOMAIN vs :
    0 <= vs[i].start /\ vs[i].start < vs[i].end /\ vs[i].end <= BucketCount

WalksThrough(vs) ==
    /\ NonEmpty(vs) = DOMAIN vs
    /\ \A i \in DOMAIN vs : vs[i].start = Cursor(vs, Passed(vs, i))
    /\ Cursor(vs, DOMAIN vs) = BucketCount

\* If the cursor goes through, each range begins where the one before it ended.
LEMMA WalkTakesSplits ==
  ASSUME NEW vs, HasRanges(vs), DOMAIN vs # {}, WalksThrough(vs)
  PROVE  Within(vs) /\ Covered(vs)
<1> DEFINE D == DOMAIN vs
<1>1. \A i \in D : /\ vs[i].start \in Int /\ vs[i].end \in Int /\ vs[i].start < vs[i].end
                   /\ vs[i].start = Cursor(vs, Passed(vs, i))
                   /\ Passed(vs, i) = {j \in D : Ahead(vs, j, i)}
  BY DEF HasRanges, WalksThrough, NonEmpty, Passed
<1>2. BucketCount \in Nat
  BY BucketAssumption
<1>3. \A i, k \in D : Ahead(vs, i, k) => vs[i].end <= vs[k].start
  <2> DEFINE Bad == {k \in D : \E i \in D : Ahead(vs, i, k) /\ ~(vs[i].end <= vs[k].start)}
  <2> SUFFICES ASSUME Bad # {} PROVE FALSE
    OBVIOUS
  <2>1. PICK k \in Bad : \A j \in Bad : ~Ahead(vs, j, k)
    <3>1. Bad \in SUBSET DOMAIN vs
      OBVIOUS
    <3> HIDE DEF Bad
    <3> QED
      BY <3>1, FirstOf
  <2>2. k \in D
    OBVIOUS
  <2>3. PICK i \in D : Ahead(vs, i, k) /\ ~(vs[i].end <= vs[k].start)
    OBVIOUS
  <2>4. Passed(vs, k) \in SUBSET DOMAIN vs /\ i \in Passed(vs, k)
    BY <1>1, <2>2, <2>3
  <2>5. PICK p \in Passed(vs, k) :
           /\ \A j \in Passed(vs, k) \ {p} : Ahead(vs, j, p)
           /\ Cursor(vs, Passed(vs, k)) = vs[p].end
    BY <2>4, LastOf
  <2>6. p \in D /\ Ahead(vs, p, k) /\ vs[k].start = vs[p].end
    BY <1>1, <2>2, <2>5
  <2>7. p \notin Bad
    BY <2>1, <2>6
  <2>8. i # p
    BY <1>1, <2>2, <2>3, <2>6
  <2>9. Ahead(vs, i, p)
    BY <2>4, <2>5, <2>8
  <2>10. vs[i].end <= vs[p].start
    BY <2>6, <2>7, <2>9
  <2> HIDE DEF Bad
  <2> QED
    BY <1>1, <2>2, <2>3, <2>6, <2>10
<1>4. PICK f \in D : \A j \in D : ~Ahead(vs, j, f)
  BY FirstOf
<1>5. vs[f].start = 0
  <2>1. Passed(vs, f) = {}
    BY <1>1, <1>4
  <2> QED
    BY <1>1, <2>1 DEF Cursor
<1>6. PICK l \in D : (\A j \in D \ {l} : Ahead(vs, j, l)) /\ Cursor(vs, D) = vs[l].end
  BY LastOf
<1>7. vs[l].end = BucketCount
  BY <1>6 DEF WalksThrough
<1>8. Within(vs)
  <2> SUFFICES ASSUME NEW i \in D
               PROVE  0 <= vs[i].start /\ vs[i].start < vs[i].end /\ vs[i].end <= BucketCount
    BY DEF Within
  <2>1. 0 <= vs[i].start
    <3>1. CASE i = f
      BY <1>5, <3>1
    <3>2. CASE i # f
      <4>1. Ahead(vs, f, i)
        BY <1>4, <3>2, AheadIsOrder
      <4>2. vs[f].start <= vs[i].start
        BY <4>1, AheadIsOrder
      <4> QED
        BY <1>1, <1>5, <4>2
    <3> QED
      BY <3>1, <3>2
  <2>2. vs[i].end <= BucketCount
    <3>1. CASE i = l
      BY <1>2, <1>7, <3>1
    <3>2. CASE i # l
      <4>1. vs[i].end <= vs[l].start
        BY <1>3, <1>6, <3>2
      <4> QED
        BY <1>1, <1>2, <1>7, <4>1
    <3> QED
      BY <3>1, <3>2
  <2> QED
    BY <1>1, <2>1, <2>2
<1>9. ASSUME NEW b \in Buckets
      PROVE  Cardinality({i \in DOMAIN vs : Owns(vs[i], b)}) = 1
  <2>1. b \in Nat /\ b < BucketCount
    BY <1>2, <1>9 DEF Buckets
  <2> DEFINE S == {i \in D : vs[i].start <= b}
             T == {i \in D : ~(vs[i].start <= b)}
  <2>2. S \in SUBSET DOMAIN vs /\ T \in SUBSET DOMAIN vs /\ S # {}
    BY <1>5, <2>1
  <2>3. PICK o \in S : (\A j \in S \ {o} : Ahead(vs, j, o)) /\ Cursor(vs, S) = vs[o].end
    <3> HIDE DEF S, T
    <3> QED
      BY <2>2, LastOf
  <2>4. o \in D /\ vs[o].start <= b
    OBVIOUS
  <2>5. b < vs[o].end
    <3> SUFFICES ASSUME vs[o].end <= b PROVE FALSE
      BY <1>1, <2>1, <2>4
    <3>1. CASE T = {}
      <4>1. S = D
        BY <3>1
      <4>2. vs[o].end = BucketCount
        BY <2>3, <4>1 DEF WalksThrough
      <4> QED
        BY <1>2, <2>1, <4>2
    <3>2. CASE T # {}
      <4>1. PICK k \in T : \A j \in T : ~Ahead(vs, j, k)
        <5> HIDE DEF S, T
        <5> QED
          BY <2>2, <3>2, FirstOf
      <4>2. k \in D /\ ~(vs[k].start <= b)
        OBVIOUS
      <4>3. \A j \in D : Ahead(vs, j, k) <=> j \in S
        <5> SUFFICES ASSUME NEW j \in D PROVE Ahead(vs, j, k) <=> j \in S
          OBVIOUS
        <5>1. CASE j \in S
          <6>1. vs[j].start < vs[k].start
            BY <1>1, <2>1, <4>2, <5>1
          <6> QED
            BY <4>2, <5>1, <6>1, AheadIsOrder
        <5>2. CASE j \notin S
          BY <4>1, <5>2
        <5> QED
          BY <5>1, <5>2
      <4>4. Passed(vs, k) = S
        BY <1>1, <4>2, <4>3
      <4>5. vs[k].start = vs[o].end
        BY <1>1, <2>3, <4>2, <4>4
      <4> QED
        BY <4>2, <4>5
    <3> QED
      BY <3>1, <3>2
  <2>6. \A i \in D : Owns(vs[i], b) => i = o
    <3> SUFFICES ASSUME NEW i \in D, vs[i].start <= b, b < vs[i].end, i # o PROVE FALSE
      BY DEF Owns
    <3>1. CASE Ahead(vs, i, o)
      <4>1. vs[i].end <= vs[o].start
        BY <1>3, <2>4, <3>1
      <4> QED
        BY <1>1, <2>1, <2>4, <4>1
    <3>2. CASE Ahead(vs, o, i)
      <4>1. vs[o].end <= vs[i].start
        BY <1>3, <2>4, <3>2
      <4> QED
        BY <1>1, <2>1, <2>4, <2>5, <4>1
    <3> QED
      BY <2>4, <3>1, <3>2, AheadIsOrder
  <2>7. {i \in DOMAIN vs : Owns(vs[i], b)} = {o}
    BY <2>4, <2>5, <2>6 DEF Owns
  <2> QED
    BY <2>7, FS_Singleton
<1> QED
  BY <1>8, <1>9 DEF Covered

\* And if the ranges split the buckets, the cursor goes through.
LEMMA SplitsWalk ==
  ASSUME NEW vs, HasRanges(vs), DOMAIN vs # {}, Within(vs), Covered(vs)
  PROVE  WalksThrough(vs)
<1> DEFINE D == DOMAIN vs
<1>1. \A i \in D : /\ vs[i].start \in Int /\ vs[i].end \in Int
                   /\ 0 <= vs[i].start /\ vs[i].start < vs[i].end /\ vs[i].end <= BucketCount
  BY DEF HasRanges, Within
<1>2. BucketCount \in Nat
  BY BucketAssumption
<1>3. \A b \in Int : 0 <= b /\ b < BucketCount =>
         \E o \in D : /\ vs[o].start <= b /\ b < vs[o].end
                      /\ \A i \in D : vs[i].start <= b /\ b < vs[i].end => i = o
  <2> SUFFICES ASSUME NEW b \in Int, 0 <= b, b < BucketCount
               PROVE  \E o \in D : /\ vs[o].start <= b /\ b < vs[o].end
                                   /\ \A i \in D : vs[i].start <= b /\ b < vs[i].end => i = o
    OBVIOUS
  <2> DEFINE S == {i \in D : Owns(vs[i], b)}
  <2>1. b \in Buckets
    BY <1>2 DEF Buckets
  <2>2. Cardinality(S) = 1
    BY <2>1 DEF Covered
  <2>3. IsFiniteSet(S)
    <3>1. S \in SUBSET DOMAIN vs
      OBVIOUS
    <3> HIDE DEF S
    <3> QED
      BY <3>1, VariantsFinite
  <2>4. PICK o : S = {o}
    <3> HIDE DEF S
    <3> QED
      BY <2>2, <2>3, FS_Singleton
  <2> QED
    BY <2>4 DEF Owns
<1>4. NonEmpty(vs) = D
  BY <1>1 DEF NonEmpty
<1>5. ASSUME NEW i \in D PROVE vs[i].start = Cursor(vs, Passed(vs, i))
  <2>1. Passed(vs, i) = {j \in D : Ahead(vs, j, i)}
    BY <1>4 DEF Passed
  <2>2. ASSUME 0 < vs[i].start
        PROVE  \E j \in Passed(vs, i) : vs[j].start < vs[i].start /\ vs[i].start <= vs[j].end
    <3>1. PICK j \in D : vs[j].start <= vs[i].start - 1 /\ vs[i].start - 1 < vs[j].end
      <4>1. vs[i].start - 1 \in Int /\ 0 <= vs[i].start - 1 /\ vs[i].start - 1 < BucketCount
        BY <1>1, <1>2, <2>2
      <4> QED
        BY <1>3, <4>1
    <3>2. vs[j].start < vs[i].start /\ vs[i].start <= vs[j].end
      BY <1>1, <3>1
    <3>3. Ahead(vs, j, i)
      BY <3>2, AheadIsOrder
    <3> QED
      BY <2>1, <3>2, <3>3
  <2>3. CASE Passed(vs, i) = {}
    BY <1>1, <2>2, <2>3 DEF Cursor
  <2>4. CASE Passed(vs, i) # {}
    <3>1. PICK p \in Passed(vs, i) :
             /\ \A j \in Passed(vs, i) \ {p} : Ahead(vs, j, p)
             /\ Cursor(vs, Passed(vs, i)) = vs[p].end
      BY <2>1, <2>4, LastOf
    <3>2. p \in D /\ Ahead(vs, p, i) /\ p # i /\ vs[p].start <= vs[i].start
      BY <2>1, <3>1, AheadIsOrder
    <3>3. vs[p].end <= vs[i].start
      <4> SUFFICES ASSUME vs[i].start < vs[p].end PROVE FALSE
        BY <1>1, <3>2
      <4>1. vs[i].start \in Int /\ 0 <= vs[i].start /\ vs[i].start < BucketCount
        BY <1>1, <1>2
      <4> QED
        BY <1>1, <1>3, <3>2, <4>1
    <3>4. vs[i].start <= vs[p].end
      <4> SUFFICES ASSUME vs[p].end < vs[i].start PROVE FALSE
        BY <1>1, <3>2
      <4>1. 0 < vs[i].start
        BY <1>1, <3>2
      <4>2. PICK j \in Passed(vs, i) : vs[j].start < vs[i].start /\ vs[i].start <= vs[j].end
        BY <2>2, <4>1
      <4>3. j \in D /\ j # p
        BY <1>1, <2>1, <3>2, <4>2
      <4>4. vs[j].start <= vs[p].start
        BY <3>1, <3>2, <4>2, <4>3, AheadIsOrder
      <4>5. vs[p].start < vs[j].end
        BY <1>1, <3>2, <4>2, <4>3
      <4>6. vs[p].start \in Int /\ 0 <= vs[p].start /\ vs[p].start < BucketCount
        BY <1>1, <1>2, <3>2
      <4> QED
        BY <1>1, <1>3, <3>2, <4>3, <4>4, <4>5, <4>6
    <3> QED
      BY <1>1, <3>1, <3>2, <3>3, <3>4
  <2> QED
    BY <2>3, <2>4
<1>6. Cursor(vs, D) = BucketCount
  <2>1. PICK l \in D : (\A j \in D \ {l} : Ahead(vs, j, l)) /\ Cursor(vs, D) = vs[l].end
    BY LastOf
  <2>2. PICK o \in D : vs[o].start <= BucketCount - 1 /\ BucketCount - 1 < vs[o].end
    <3>1. BucketCount - 1 \in Int /\ 0 <= BucketCount - 1 /\ BucketCount - 1 < BucketCount
      BY BucketAssumption
    <3> QED
      BY <1>3, <3>1
  <2>3. vs[o].end = BucketCount
    BY <1>1, <1>2, <2>2
  <2>4. o = l
    <3> SUFFICES ASSUME o # l PROVE FALSE
      OBVIOUS
    <3>1. vs[o].start <= vs[l].start
      BY <2>1, AheadIsOrder
    <3>2. /\ vs[l].start \in Int /\ 0 <= vs[l].start /\ vs[l].start < BucketCount
          /\ vs[l].start < vs[o].end /\ vs[l].start < vs[l].end /\ vs[l].start <= vs[l].start
      BY <1>1, <1>2, <2>3
    <3> QED
      BY <1>3, <3>1, <3>2
  <2> QED
    BY <2>1, <2>3, <2>4
<1> QED
  BY <1>4, <1>5, <1>6 DEF WalksThrough
\* As many names as variants: none occurs twice.
LEMMA NamesDiffer ==
  ASSUME NEW vs, HasRanges(vs)
  PROVE  Cardinality({vs[i].id : i \in DOMAIN vs}) = Len(vs) <=> ~Repeated(vs)
<1> DEFINE T == {vs[i].id : i \in DOMAIN vs}
           f == [i \in 1..Len(vs) |-> vs[i].id]
<1>1. Len(vs) \in Nat /\ DOMAIN vs = 1..Len(vs)
  BY DEF HasRanges
<1>2. f \in Surjection(1..Len(vs), T)
  BY <1>1 DEF Surjection
<1>3. f \in Injection(1..Len(vs), T) <=> ~Repeated(vs)
  <2>1. f \in [1..Len(vs) -> T]
    BY <1>1
  <2>2. \A i \in 1..Len(vs) : f[i] = vs[i].id
    OBVIOUS
  <2> HIDE DEF f, T
  <2>3. f \in Injection(1..Len(vs), T) <=> \A i, j \in 1..Len(vs) : f[i] = f[j] => i = j
    BY <2>1 DEF Injection, IsInjective
  <2>4. Repeated(vs) <=> \E i, j \in 1..Len(vs) : i # j /\ vs[i].id = vs[j].id
    BY <1>1, Zenon DEF Repeated
  <2>5. Repeated(vs) <=> \E i, j \in 1..Len(vs) : i # j /\ f[i] = f[j]
    BY <2>2, <2>4, Zenon
  <2>6. Repeated(vs) <=> ~(\A i, j \in 1..Len(vs) : f[i] = f[j] => i = j)
    BY <2>5
  <2> QED
    BY <2>3, <2>6, Zenon
<1>4. IsFiniteSet(1..Len(vs)) /\ Cardinality(1..Len(vs)) = Len(vs)
  BY <1>1, FirstNumbers
<1> HIDE DEF T, f
<1>5. Cardinality(T) = Cardinality(1..Len(vs)) <=> f \in Injection(1..Len(vs), T)
  BY <1>2, <1>4, FS_Surjection
<1> QED
  BY <1>3, <1>4, <1>5 DEF T

LEMMA ControlIsNamed ==
  ASSUME NEW x, HasRanges(x.variants), namedControl(x) # {}
  PROVE  \E i \in DOMAIN x.variants :
            x.variants[i].id = x.control /\ control(x) = x.variants[i]
<1> DEFINE vs == x.variants
           I == {i \in 1..Len(vs) : vs[i].id = x.control}
<1>1. DOMAIN vs = 1..Len(vs) /\ Len(vs) \in Nat
  BY DEF HasRanges
<1>2. I \in SUBSET Nat /\ I # {}
  BY <1>1 DEF namedControl, VariantsOf
<1>3. Min(I) \in I
  <2> HIDE DEF I
  <2>1. PICK i \in I : \A j \in I : ~(j < i)
    BY <1>2, LeastIndex
  <2>2. i \in I /\ \A j \in I : i <= j
    BY <1>2, <2>1
  <2> QED
    BY <2>2 DEF Min
<1>4. SelectInSeq(vs, LAMBDA v : v.id = x.control) = Min(I)
  BY <1>2 DEF SelectInSeq
<1>5. control(x) = vs[Min(I)]
  BY <1>4 DEF control
<1> HIDE DEF vs
<1> QED
  BY <1>1, <1>3, <1>5 DEF vs

LEMMA Twentieths ==
  ASSUME NEW n \in Nat, n % 20 = 0, NEW k \in Int
  PROVE  k < n \div 20 <=> 20 * k < n
OBVIOUS

\* Validate takes an experiment exactly if its ranges split the buckets, its names
\* differ, and the control is there and has its twentieth: any number of variants,
\* in any order, with any bounds (Validate, main.go's loadControlPlane).
THEOREM ValidateExact ==
  ASSUME NEW x, HasRanges(x.variants), DOMAIN x.variants # {}, x.control = ControlID
  PROVE  Problems(x) = {} <=> IsSplit(x)
<1> DEFINE vs == x.variants
           Named == {vs[i].id : i \in DOMAIN vs}
<1>1. /\ vs # <<>>
      /\ DOMAIN vs = 1..Len(vs)
      /\ VariantsOf(x) = {vs[i] : i \in DOMAIN vs}
  BY DEF HasRanges, VariantsOf
<1>2. Within(vs) /\ Covered(vs) <=> WalksThrough(vs)
  BY WalkTakesSplits, SplitsWalk
<1>3. WalksThrough(vs) <=>
         EmptyOnes(vs) = {} /\ GapsOrOverlaps(vs) = {} /\ Uncovered(vs) = {}
  BY DEF WalksThrough, EmptyOnes, GapsOrOverlaps, Uncovered
<1>4. Named = {v.id : v \in VariantsOf(x)}
  BY <1>1
<1>5. ControlID \in Named <=> namedControl(x) # {}
  BY <1>1 DEF namedControl
<1>6. Cardinality(Named) = Len(vs) <=> ~Repeated(vs)
  BY NamesDiffer
<1> DEFINE Short == /\ namedControl(x) # {}
                    /\ control(x).end - control(x).start < BucketCount \div 20
           Fair == \A i \in DOMAIN vs :
                      vs[i].id = ControlID => 20 * (vs[i].end - vs[i].start) >= BucketCount
<1>7. ASSUME namedControl(x) # {}, ~Repeated(vs)
      PROVE  Fair <=> ~Short
  <2>1. PICK c \in DOMAIN vs : vs[c].id = ControlID /\ control(x) = vs[c]
    BY <1>7, ControlIsNamed
  <2>2. \A i \in DOMAIN vs : vs[i].id = ControlID => i = c
    BY <1>7, <2>1 DEF Repeated
  <2>3. vs[c].end - vs[c].start \in Int
    BY <2>1 DEF HasRanges
  <2>4. BucketCount \in Nat /\ BucketCount % 20 = 0
    BY BucketAssumption, SharesAssumption
  <2>5. vs[c].end - vs[c].start < BucketCount \div 20 <=>
           20 * (vs[c].end - vs[c].start) < BucketCount
    BY <2>3, <2>4, Twentieths
  <2>6. Fair <=> 20 * (vs[c].end - vs[c].start) >= BucketCount
    BY <2>1, <2>2
  <2> HIDE DEF vs, Fair
  <2> QED
    BY <1>7, <2>1, <2>3, <2>4, <2>5, <2>6
<1>8. IsSplit(x) <=> /\ Covered(vs) /\ Within(vs)
                     /\ Cardinality(Named) = Len(vs)
                     /\ ControlID \in Named
                     /\ Fair
  <2>1. Within(vs) <=>
           \A v \in VariantsOf(x) : 0 <= v.start /\ v.start < v.end /\ v.end <= BucketCount
    BY <1>1 DEF Within
  <2>2. Fair <=> \A v \in VariantsOf(x) :
                    v.id = ControlID => 20 * (v.end - v.start) >= BucketCount
    BY <1>1
  <2> HIDE DEF Fair, Named
  <2> QED
    BY <1>4, <2>1, <2>2 DEF IsSplit, Covered
<1>9. Problems(x) = {} <=>
         /\ EmptyOnes(vs) = {} /\ GapsOrOverlaps(vs) = {} /\ Uncovered(vs) = {}
         /\ namedControl(x) # {} /\ ~Repeated(vs) /\ ~Short
  <2> HIDE DEF Short
  <2>1. Problems(x) = EmptyOnes(vs) \cup GapsOrOverlaps(vs) \cup Uncovered(vs)
           \cup (IF namedControl(x) = {} THEN {"control not found"} ELSE {})
           \cup (IF Repeated(vs) THEN {"duplicate variant"} ELSE {})
           \cup (IF Short THEN {"holdout"} ELSE {})
    BY <1>1 DEF Problems, Short
  <2> HIDE DEF vs
  <2> QED
    BY <2>1
<1> HIDE DEF vs, Named, Short, Fair
<1> QED
  BY <1>2, <1>3, <1>5, <1>6, <1>7, <1>8, <1>9

\* What Validate takes assigns every bucket to the one variant that owns it: Assign
\* never falls back on the control for want of an owner, and two ranges never compete.
THEOREM ValidatedAssigns ==
  ASSUME NEW x, HasRanges(x.variants), DOMAIN x.variants # {}, x.control = ControlID,
         Problems(x) = {}, NEW b \in Buckets, NEW unit
  PROVE  \E k \in DOMAIN x.variants :
            /\ \A i \in DOMAIN x.variants : Owns(x.variants[i], b) <=> i = k
            /\ AssignBucket(x, b, unit)
                  = Assignment(x.variants[k], unit, x.variants[k].id = ControlID)
<1> DEFINE vs == x.variants
           I == {i \in DOMAIN vs : Owns(vs[i], b)}
<1>1. Cardinality(I) = 1
  BY ValidateExact DEF IsSplit
<1>2. PICK k : I = {k}
  <2>1. IsFiniteSet(I)
    <3>1. IsFiniteSet(DOMAIN vs) /\ I \in SUBSET DOMAIN vs
      BY FS_Interval DEF HasRanges
    <3> QED
      BY <3>1, FS_Subset
  <2> HIDE DEF I
  <2> QED
    BY <1>1, <2>1, FS_Singleton
<1>3. k \in DOMAIN vs /\ k \in Nat /\ \A i \in DOMAIN vs : Owns(vs[i], b) <=> i = k
  <2>1. k \in I
    BY <1>2
  <2>2. k \in DOMAIN vs /\ DOMAIN vs = 1..Len(vs)
    BY <2>1 DEF HasRanges
  <2>3. k \in Nat
    BY <2>2 DEF HasRanges
  <2>4. \A i \in DOMAIN vs : Owns(vs[i], b) <=> i \in I
    OBVIOUS
  <2>5. \A i \in DOMAIN vs : Owns(vs[i], b) <=> i = k
    <3> HIDE DEF I
    <3> QED
      BY <1>2, <2>4
  <2> QED
    BY <2>2, <2>3, <2>5
<1>4. SelectInSeq(vs, LAMBDA w : Owns(w, b)) = k
  <2>1. {i \in 1..Len(vs) : Owns(vs[i], b)} = {k}
    BY <1>2 DEF HasRanges
  <2>2. Min({k}) = k
    BY <1>3 DEF Min
  <2> QED
    BY <2>1, <2>2 DEF SelectInSeq
<1>5. vs[k] \in VariantsOf(x) /\ Owns(vs[k], b)
  BY <1>3 DEF VariantsOf
<1>6. AssignBucket(x, b, unit) = Assignment(vs[k], unit, vs[k].id = ControlID)
  BY <1>4, <1>5 DEF AssignBucket
<1> QED
  BY <1>3, <1>6

------------------------------------------------------------------------------
\* The bounds of what is in the file and of what is printed, whichever arms a log had.
Ranges == [start : 0..BucketCount, end : 0..BucketCount]

RangesBounded ==
    /\ file \in [ArmIDs -> Ranges]
    /\ printed # Nothing =>
          /\ Observed \subseteq Range(Names) /\ DOMAIN printed.to = Observed
          /\ \A a \in Observed : printed.ranges[a] \in Ranges /\ printed.to[a] \in Nat

LEMMA NamesFinite == IsFiniteSet(Range(Names)) /\ ArmIDs \subseteq Range(Names)
<1>1. DOMAIN Names = 1..Len(Names) /\ Len(Names) \in Nat
  BY NamesAssumption
<1>2. /\ Names \in [1..Len(Names) -> Range(Names)]
      /\ \A x \in Range(Names) : \E k \in 1..Len(Names) : Names[k] = x
      /\ \A k, l \in 1..Len(Names) : Names[k] = Names[l] => k = l
  BY <1>1, NamesAssumption DEF Range
<1>3. ExistsBijection(1..Len(Names), Range(Names))
  BY <1>2 DEF ExistsBijection, Bijection, Injection, Surjection, IsInjective
<1>4. IsFiniteSet(1..Len(Names))
  BY <1>1, FirstNumbers
<1> QED
  BY <1>3, <1>4, FS_Bijection, NamesAssumption

LEMMA FilledWithNumbers ==
  ASSUME file \in [ArmIDs -> Ranges], NEW log \in Logs, NEW t \in waterFill(log)
  PROVE  /\ DOMAIN t = DOMAIN log /\ DOMAIN log \in SUBSET Range(Names)
         /\ IsFiniteSet(DOMAIN log) /\ \A a \in DOMAIN log : t[a] \in Nat
<1> DEFINE D == DOMAIN log
<1>1. D \in SUBSET Range(Names)
  BY DEF Logs
<1>2. IsFiniteSet(D)
  BY <1>1, NamesFinite, FS_Subset
<1>3. \A a \in ArmIDs : Share(a) \in Int
  BY Sizes DEF Share, Ranges
<1>4. \A a \in D : lo(log)[a] \in Nat /\ hi(log)[a] \in Int
  <2>1. \A a \in ArmIDs : floor(a) \in Nat
    BY <1>3, Sizes DEF floor, Larger
  <2>2. \A a \in D : lo(log)[a] \in Nat
    BY <1>3, <2>1, Sizes DEF lo, Larger
  <2>3. \A a \in D : hi(log)[a] \in Int
    BY <1>3, <2>2, Sizes DEF hi, Larger, Smaller
  <2> QED
    BY <2>2, <2>3
<1>5. \A a \in D : headroom(log)[a] \in Int
  BY <1>4 DEF headroom
<1>6. takers(log) \in SUBSET D /\ \A a \in takers(log) : headroom(log)[a] \in Nat
  <2>1. takers(log) \in SUBSET D /\ \A a \in takers(log) : headroom(log)[a] > 0
    BY DEF takers
  <2> QED
    BY <1>5, <2>1
<1>7. Total(headroom(log), takers(log)) \in Nat
  <2>1. IsFiniteSet(takers(log))
    BY <1>2, <1>6, FS_Subset
  <2> QED
    BY <1>6, <2>1, TotalType
<1>8. room(log) \in Nat
  <2>1. Total(lo(log), D) \in Nat
    BY <1>2, <1>4, TotalCounts
  <2> QED
    BY <2>1, Sizes DEF room, Larger
<1>9. PICK more : t = Shares(log, more) /\ \A a \in DOMAIN more : more[a] \in Nat
  <2>1. CASE room(log) < Total(headroom(log), takers(log))
    <3>1. PICK more \in Proportional(log) : t = Shares(log, more)
      BY <2>1 DEF waterFill
    <3>2. \A a \in DOMAIN more : more[a] \in 0..room(log)
      BY <3>1 DEF Proportional, Rounded
    <3> QED
      BY <1>8, <3>1, <3>2
  <2>2. CASE ~(room(log) < Total(headroom(log), takers(log)))
    <3> DEFINE left == room(log) - Total(headroom(log), takers(log))
               movable == {a \in DOMAIN log \ wanted(log) : headroom(log)[a] > 0}
               first == IF ControlID \in movable
                        THEN Smaller(left, headroom(log)[ControlID]) ELSE 0
               n == Cardinality(movable)
               each == IF n = 0 THEN 0 ELSE (2 * (left - first) + n) \div (2 * n)
               more == Remainder(log)
    <3>1. more = [a \in takers(log) \cup movable |->
             IF a \in takers(log) THEN headroom(log)[a]
             ELSE IF a = ControlID THEN first ELSE Smaller(each, headroom(log)[a])]
      BY DEF Remainder
    <3>2. left \in Nat
      BY <1>7, <1>8, <2>2
    <3>3. movable \in SUBSET D /\ \A a \in movable : headroom(log)[a] \in Nat
      BY <1>5
    <3> HIDE DEF left, movable
    <3>4. n \in Nat
      BY <1>2, <3>3, FS_Subset, FS_CardinalityType
    <3>5. first \in Nat /\ left - first \in Nat
      BY <3>2, <3>3 DEF Smaller
    <3> HIDE DEF first, n
    <3>6. each \in Nat
      <4>1. CASE n = 0
        BY <4>1
      <4>2. CASE n # 0
        <5>1. 2 * (left - first) + n \in Nat /\ 2 * n \in Nat /\ 2 * n > 0
          BY <3>4, <3>5, <4>2
        <5>2. (2 * (left - first) + n) \div (2 * n) \in Nat
          BY <5>1, Quotient
        <5> QED
          BY <4>2, <5>2
      <4> QED
        BY <4>1, <4>2
    <3> HIDE DEF each
    <3>7. \A a \in movable : Smaller(each, headroom(log)[a]) \in Nat
      BY <3>3, <3>6 DEF Smaller
    <3> HIDE DEF more
    <3>8. \A a \in DOMAIN more : more[a] \in Nat
      BY <1>6, <3>1, <3>5, <3>7
    <3>9. t = Shares(log, more)
      BY <2>2 DEF waterFill, more
    <3> QED
      BY <3>8, <3>9
  <2> QED
    BY <2>1, <2>2
<1>10. \A a \in D : t[a] \in Nat
  BY <1>4, <1>9 DEF Shares
<1>11. DOMAIN t = D
  BY <1>9 DEF Shares
<1> QED
  BY <1>1, <1>2, <1>10, <1>11

LEMMA RangesBoundedHolds ==
  ASSUME RangesBounded, [YieldNext]_yieldVars
  PROVE  RangesBounded'
<1>1. ASSUME NEW log \in Logs, Propose(log) PROVE RangesBounded'
  <2>1. PICK t \in waterFill(log) :
           printed' = [breached |-> Having(log, "breached"), to |-> t, ranges |-> Layout(t)]
    BY <1>1 DEF Propose
  <2>2. printed'.ranges = Layout(t) /\ printed'.to = t /\ file' = file
    BY <1>1, <2>1 DEF Propose
  <2>3. /\ DOMAIN t = DOMAIN log /\ DOMAIN log \in SUBSET Range(Names)
        /\ IsFiniteSet(DOMAIN log) /\ \A a \in DOMAIN log : t[a] \in Nat
    BY FilledWithNumbers DEF RangesBounded
  <2>4. \A S \in SUBSET DOMAIN t : EndOf(t, S) \in 0..BucketCount
    <3> SUFFICES ASSUME NEW S \in SUBSET DOMAIN t PROVE EndOf(t, S) \in 0..BucketCount
      OBVIOUS
    <3>1. IsFiniteSet(S) /\ \A a \in S : t[a] \in Int
      BY <2>3, FS_Subset
    <3>2. Total(t, S) \in Nat
      BY <3>1, TotalCounts
    <3> QED
      BY <3>2, Sizes DEF EndOf, Smaller
  <2>5. ASSUME NEW a \in DOMAIN t PROVE Layout(t)[a] \in Ranges
    <3>1. UpTo(t, a) \in SUBSET DOMAIN t /\ UpTo(t, a) \ {a} \in SUBSET DOMAIN t
      BY DEF UpTo
    <3>2. EndOf(t, UpTo(t, a)) \in 0..BucketCount /\ EndOf(t, UpTo(t, a) \ {a}) \in 0..BucketCount
      BY <2>4, <3>1
    <3> QED
      BY <3>2, Sizes DEF Layout, Ranges
  <2>6. DOMAIN printed'.ranges = DOMAIN t
    BY <2>2 DEF Layout
  <2> QED
    BY <2>2, <2>3, <2>5, <2>6 DEF RangesBounded, Observed, Ranges
<1>2. CASE Enter
  <2>1. file' = [a \in ArmIDs |-> IF a \in Observed THEN printed.ranges[a] ELSE file[a]]
    BY <1>2 DEF Enter
  <2>2. \A a \in ArmIDs : file'[a] \in Ranges
    BY <1>2, <2>1 DEF Enter, RangesBounded
  <2> QED
    BY <1>2, <2>1, <2>2 DEF Enter, RangesBounded, Ranges
<1>3. CASE Discard
  BY <1>3 DEF Discard, RangesBounded, Ranges
<1>4. CASE UNCHANGED yieldVars
  BY <1>4 DEF yieldVars, RangesBounded, Observed, Ranges
<1> QED
  BY <1>1, <1>2, <1>3, <1>4 DEF YieldNext

LEMMA RangesInvariant == YieldSpec => []RangesBounded
<1>1. YieldInit => RangesBounded
  <2> SUFFICES ASSUME YieldInit PROVE RangesBounded
    OBVIOUS
  <2>1. Tiles(file)
    BY YieldInitHolds DEF YieldInit, YieldInv, Split
  <2> QED
    BY <2>1 DEF YieldInit, RangesBounded, Tiles, Ranges
<1>2. RangesBounded /\ [YieldNext]_yieldVars => RangesBounded'
  BY RangesBoundedHolds
<1> QED
  BY <1>1, <1>2, PTL DEF YieldSpec

\* What is served is an experiment Validate can judge, whatever became of the file.
LEMMA ServedHasRanges ==
  ASSUME file \in [ArmIDs -> Ranges]
  PROVE  /\ HasRanges(Served.variants) /\ DOMAIN Served.variants # {}
         /\ Served.control = ControlID
<1> DEFINE v(i) == Variant(Arms[i], file[Arms[i]].start, file[Arms[i]].end, "")
<1>1. /\ DOMAIN Arms = 1..Count /\ Count \in Nat /\ 1 \in 1..Count
      /\ \A i \in 1..Count : Arms[i] \in ArmIDs
  BY ArmsFacts
<1>2. Served.variants = [i \in 1..Count |-> v(i)] /\ Served.control = ControlID
  BY <1>1 DEF Served, Experiment
<1>3. \A i \in 1..Count : v(i).start \in Int /\ v(i).end \in Int
  BY <1>1, Sizes DEF Variant, Ranges
<1> HIDE DEF v
<1>4. Len(Served.variants) = Count /\ DOMAIN Served.variants = 1..Count
  BY <1>1, <1>2
<1> QED
  BY <1>1, <1>2, <1>3, <1>4 DEF HasRanges

\* Validate's verdict on what is served is right, whichever logs were incomplete.
THEOREM ValidateIsRight == YieldSpec => []ValidateIsExact
<1>1. RangesBounded => ValidateIsExact
  BY ServedHasRanges, ValidateExact DEF RangesBounded, ValidateIsExact
<1> QED
  BY <1>1, RangesInvariant, PTL

\* As long as every log had the arms of the file, Validate takes what is served.
THEOREM FileStaysSound == YieldSpec => []StaysSound
<1>1. RangesBounded /\ (unlike = 0 => IsSplit(Served)) => StaysSound
  BY ServedHasRanges, ValidateExact DEF RangesBounded, StaysSound
<1> QED
  BY <1>1, RangesInvariant, FileStaysASplit, PTL
------------------------------------------------------------------------------
\* FOLDS

\* Induction, over the set of numbers of which something is so.
LEMMA Inductive ==
  ASSUME NEW S \in SUBSET Nat, 0 \in S, \A n \in S : n + 1 \in S
  PROVE  S = Nat
<1> SUFFICES ASSUME Nat \ S # {} PROVE FALSE
  OBVIOUS
<1>1. PICK n \in Nat \ S : \A m \in Nat \ S : ~(m < n)
  <2>1. Nat \ S \in SUBSET Nat
    OBVIOUS
  <2> QED
    BY <2>1, LeastIndex
<1>2. n - 1 \in Nat /\ n - 1 \in S
  BY <1>1
<1> QED
  BY <1>1, <1>2

\* Induction over the subsets of a finite set, likewise.
LEMMA SetsInductive ==
  ASSUME NEW S, IsFiniteSet(S), NEW Q \in SUBSET SUBSET S, {} \in Q,
         \A s \in SUBSET S : s # {} /\ (\A x \in s : s \ {x} \in Q) => s \in Q
  PROVE  Q = SUBSET S
<1> DEFINE Out == (SUBSET S) \ Q
           C == {Cardinality(s) : s \in Out}
<1> SUFFICES ASSUME Out # {} PROVE FALSE
  OBVIOUS
<1>1. \A s \in SUBSET S : IsFiniteSet(s) /\ Cardinality(s) \in Nat
  BY FS_Subset, FS_CardinalityType
<1>2. PICK c \in C : \A m \in C : ~(m < c)
  <2>1. C \in SUBSET Nat /\ C # {}
    BY <1>1
  <2> HIDE DEF C
  <2> QED
    BY <2>1, LeastIndex
<1>3. PICK s \in Out : c = Cardinality(s)
  BY <1>2
<1>4. ASSUME NEW x \in s PROVE s \ {x} \in Q
  <2> DEFINE r == s \ {x}
  <2>1. Cardinality(r) = Cardinality(s) - 1 /\ r \in SUBSET S
    BY <1>1, <1>3, FS_RemoveElement
  <2> HIDE DEF r
  <2>2. Cardinality(r) < c
    BY <1>1, <1>3, <2>1
  <2>3. Cardinality(r) \notin C
    <3> HIDE DEF C
    <3> QED
      BY <1>2, <2>2
  <2>4. r \in Q
    BY <2>1, <2>3
  <2> QED
    BY <2>4 DEF r
<1>5. s \in SUBSET S /\ s \notin Q
  BY <1>3
<1> QED
  BY <1>4, <1>5

\* A function that refers to itself, at an argument of a smaller rank, exists.
Recursive(X, V, z, rank, down, add) ==
    \E f \in [X -> V] :
        \A x \in X : f[x] = IF rank[x] = 0 THEN z ELSE add[<<x, f[down[x]]>>]

LEMMA Recursion ==
  ASSUME NEW X, NEW V, NEW z \in V, NEW rank \in [X -> Nat], NEW down \in [X -> X],
         NEW add \in [X \X V -> V],
         \A x \in X : rank[x] # 0 => rank[down[x]] < rank[x],
         NEW top \in Nat, \A x \in X : rank[x] <= top
  PROVE  Recursive(X, V, z, rank, down, add)
<1> DEFINE Under(n) == {x \in X : rank[x] < n}
           Next1(f, x) == IF rank[x] = 0 THEN z ELSE add[<<x, f[down[x]]>>]
           Solves(f, n) == \A x \in Under(n) : f[x] = Next1(f, x)
           S == {n \in Nat : \E f \in [Under(n) -> V] : Solves(f, n)}
<1>1. 0 \in S
  <2>1. Under(0) = {}
    OBVIOUS
  <2>2. [x \in Under(0) |-> z] \in [Under(0) -> V]
    OBVIOUS
  <2> QED
    BY <2>1, <2>2
<1>2. ASSUME NEW n \in S PROVE n + 1 \in S
  <2>1. PICK f \in [Under(n) -> V] : Solves(f, n)
    OBVIOUS
  <2> DEFINE g == [x \in Under(n + 1) |-> Next1(f, x)]
  <2>2. \A x \in Under(n + 1) : rank[x] # 0 => down[x] \in Under(n)
    OBVIOUS
  <2>3. \A x \in Under(n + 1) : Next1(f, x) \in V
    BY <2>2
  <2>4. g \in [Under(n + 1) -> V]
    <3> HIDE DEF Under, Next1
    <3> QED
      BY <2>3
  <2>5. \A x \in Under(n) : x \in Under(n + 1) /\ g[x] = f[x]
    <3>1. \A x \in Under(n) : x \in Under(n + 1)
      OBVIOUS
    <3> HIDE DEF Under, Next1
    <3> QED
      BY <2>1, <3>1
  <2>6. \A x \in Under(n + 1) : Next1(g, x) = Next1(f, x)
    BY <2>2, <2>5
  <2>7. Solves(g, n + 1)
    <3> HIDE DEF Under, Next1
    <3> QED
      BY <2>6
  <2>8. \E h \in [Under(n + 1) -> V] : Solves(h, n + 1)
    <3> HIDE DEF Under, Solves, g
    <3> QED
      BY <2>4, <2>7
  <2> HIDE DEF Under, Solves
  <2> QED
    BY <2>8
<1>3. S = Nat
  <2> HIDE DEF S
  <2>1. S \in SUBSET Nat
    BY DEF S
  <2> QED
    BY <1>1, <1>2, <2>1, Inductive
<1>4. PICK f \in [Under(top + 1) -> V] : Solves(f, top + 1)
  <2>1. top + 1 \in S
    <3> HIDE DEF S
    <3> QED
      BY <1>3
  <2> HIDE DEF Under, Solves
  <2> QED
    BY <2>1
<1>5. Under(top + 1) = X
  OBVIOUS
<1> QED
  BY <1>4, <1>5 DEF Recursive

\* So does the function a fold over the finite set S chooses, whichever element it
\* takes first: pick[s] for a subset s.
Foldable(S, V, z, pick, add) ==
    \E f \in [SUBSET S -> V] :
        \A s \in SUBSET S :
           f[s] = IF s = {} THEN z ELSE add[<<pick[s], f[s \ {pick[s]}]>>]

LEMMA FoldExists ==
  ASSUME NEW S, IsFiniteSet(S), NEW V, NEW z \in V, NEW pick,
         \A s \in SUBSET S : s # {} => pick[s] \in s,
         NEW add \in [S \X V -> V]
  PROVE  Foldable(S, V, z, pick, add)
<1> DEFINE X == SUBSET S
           rank == [s \in X |-> Cardinality(s)]
           down == [s \in X |-> s \ {pick[s]}]
           move == [x \in X \X V |-> IF x[1] = {} THEN z ELSE add[<<pick[x[1]], x[2]>>]]
<1>1. \A s \in X : /\ IsFiniteSet(s) /\ Cardinality(s) \in Nat
                   /\ Cardinality(s) <= Cardinality(S)
                   /\ Cardinality(s) = 0 <=> s = {}
  BY FS_Subset, FS_CardinalityType, FS_EmptySet
<1>2. rank \in [X -> Nat] /\ down \in [X -> X]
  BY <1>1
<1>3. move \in [X \X V -> V]
  <2> SUFFICES ASSUME NEW x \in X \X V
               PROVE  (IF x[1] = {} THEN z ELSE add[<<pick[x[1]], x[2]>>]) \in V
    OBVIOUS
  <2>1. x[1] \in X /\ x[2] \in V
    OBVIOUS
  <2>2. x[1] # {} => <<pick[x[1]], x[2]>> \in S \X V
    BY <2>1
  <2> QED
    BY <2>2
<1>4. \A s \in X : rank[s] # 0 => rank[down[s]] < rank[s]
  <2> SUFFICES ASSUME NEW s \in X, Cardinality(s) # 0
               PROVE  Cardinality(s \ {pick[s]}) < Cardinality(s)
    BY <1>1, <1>2
  <2>1. pick[s] \in s
    BY <1>1
  <2> QED
    BY <1>1, <2>1, FS_RemoveElement
<1>5. \A s \in X : rank[s] <= Cardinality(S)
  BY <1>1
<1>6. Cardinality(S) \in Nat
  BY FS_CardinalityType
<1>7. Recursive(X, V, z, rank, down, move)
  <2> HIDE DEF X, rank, down, move
  <2> QED
    BY <1>2, <1>3, <1>4, <1>5, <1>6, Recursion
<1>8. PICK f \in [X -> V] :
         \A s \in X : f[s] = IF rank[s] = 0 THEN z ELSE move[<<s, f[down[s]]>>]
  BY <1>7 DEF Recursive
<1>9. ASSUME NEW s \in X
      PROVE  f[s] = IF s = {} THEN z ELSE add[<<pick[s], f[s \ {pick[s]}]>>]
  <2>1. rank[s] = 0 <=> s = {}
    BY <1>1
  <2>2. down[s] = s \ {pick[s]} /\ f[down[s]] \in V
    BY <1>2
  <2>3. s # {} => move[<<s, f[down[s]]>>] = add[<<pick[s], f[down[s]]>>]
    <3>1. <<s, f[down[s]]>> \in X \X V
      BY <2>2
    <3> HIDE DEF X, down
    <3> QED
      BY <3>1
  <2> HIDE DEF rank, down, move
  <2> QED
    BY <1>8, <2>1, <2>2, <2>3
<1> QED
  BY <1>9 DEF Foldable

\* What Evaluate folds, and that it is the function it says it is.
NoDays == [days |-> 0, actual |-> 0, proposed |-> 0, worse |-> 0, damage |-> FALSE]

Grown(e, r) ==
    [days |-> e.days + 1,
     actual |-> e.actual + r.actual,
     proposed |-> e.proposed + r.proposed,
     worse |-> e.worse + (IF 0 < r.actual /\ r.proposed < r.actual THEN 1 ELSE 0),
     damage |-> e.damage \/ (0 < r.actual /\ 10 * (r.proposed - r.actual) < -r.actual)]

EvaluatesAs(f, records) ==
    f = [s \in SUBSET DOMAIN records |->
            IF s = {} THEN NoDays ELSE Grown(f[s \ {Max(s)}], records[Max(s)])]

LEMMA EvaluateIsFold ==
  ASSUME NEW records, NEW h, EvaluatesAs(h, records)
  PROVE  \E f : EvaluatesAs(f, records) /\ Evaluate(records) = f[DOMAIN records]
<1> DEFINE f == CHOOSE x : EvaluatesAs(x, records)
<1>1. Evaluate(records) = f[DOMAIN records]
  BY DEF Evaluate, FoldLeft, MapThenFoldSet, EvaluatesAs, Grown, NoDays
<1>2. EvaluatesAs(f, records)
  <2> HIDE DEF f
  <2> QED
   BY DEF f
<1> QED
  BY <1>1, <1>2

Chosen(s) == CHOOSE x \in s : TRUE

SumsAs(f, g, S) ==
    f = [s \in SUBSET S |-> IF s = {} THEN 0 ELSE g[Chosen(s)] + f[s \ {Chosen(s)}]]

\* A sum takes its elements in any order.
AddsUp(f, g, S) ==
    /\ f[{}] = 0
    /\ \A s \in SUBSET S : f[s] \in Int
    /\ \A s \in SUBSET S : \A x \in s : f[s] = f[s \ {x}] + g[x]

LEMMA SumStep ==
  ASSUME NEW S, IsFiniteSet(S), NEW g, \A x \in S : g[x] \in Int, NEW f, SumsAs(f, g, S)
  PROVE  AddsUp(f, g, S)
<1> DEFINE Takes(s) == /\ f[s] \in Int
                       /\ \A x \in s : f[s \ {x}] \in Int /\ f[s] = f[s \ {x}] + g[x]
           Q == {s \in SUBSET S : Takes(s)}
<1>1. \A s \in SUBSET S : f[s] = IF s = {} THEN 0 ELSE g[Chosen(s)] + f[s \ {Chosen(s)}]
  BY DEF SumsAs
<1>2. f[{}] = 0
  BY <1>1
<1>3. {} \in Q
  BY <1>2
<1>4. ASSUME NEW s \in SUBSET S, s # {}, \A x \in s : s \ {x} \in Q PROVE s \in Q
  <2> DEFINE a == Chosen(s)
  <2>1. a \in s
    BY <1>4 DEF Chosen
  <2>2. \A x \in s : Takes(s \ {x})
    BY <1>4
  <2>3. f[s] = g[a] + f[s \ {a}]
    BY <1>1, <1>4
  <2> HIDE DEF a
  <2>4. \A x \in s : g[x] \in Int /\ f[s \ {x}] \in Int
    BY <2>2
  <2>5. f[s] \in Int
    BY <2>1, <2>3, <2>4
  <2>6. ASSUME NEW x \in s PROVE f[s] = f[s \ {x}] + g[x]
    <3>1. CASE x = a
      <4>1. f[s] = g[x] + f[s \ {x}] /\ g[x] \in Int /\ f[s \ {x}] \in Int
        BY <2>3, <2>4, <3>1
      <4> QED
        BY <4>1
    <3>2. CASE x # a
      <4> DEFINE r == (s \ {a}) \ {x}
      <4>1. x \in s \ {a} /\ a \in s \ {x} /\ r = (s \ {x}) \ {a}
        BY <2>1, <3>2
      <4>2. f[s \ {a}] = f[r] + g[x] /\ f[r] \in Int
        BY <2>1, <2>2, <4>1
      <4>3. f[s \ {x}] = f[r] + g[a]
        BY <2>2, <4>1
      <4>4. g[x] \in Int /\ g[a] \in Int
        BY <2>1, <2>4
      <4> HIDE DEF r
      <4> QED
        BY <2>3, <4>2, <4>3, <4>4
    <3> QED
      BY <3>1, <3>2
  <2>7. Takes(s)
    BY <2>4, <2>5, <2>6
  <2> HIDE DEF Takes
  <2> QED
    BY <2>7
<1>5. Q = SUBSET S
  <2> HIDE DEF Q
  <2>1. Q \in SUBSET SUBSET S
    BY DEF Q
  <2> QED
    BY <1>3, <1>4, <2>1, SetsInductive
<1>6. \A s \in SUBSET S : Takes(s)
  <2> HIDE DEF Takes
  <2> QED
    BY <1>5
<1> QED
  BY <1>2, <1>6 DEF AddsUp

LEMMA SumsExist ==
  ASSUME NEW S, IsFiniteSet(S), NEW g, \A x \in S : g[x] \in Int
  PROVE  \E f : SumsAs(f, g, S)
<1> DEFINE pick == [s \in SUBSET S |-> Chosen(s)]
           add == [x \in S \X Int |-> g[x[1]] + x[2]]
<1>1. \A s \in SUBSET S : s # {} => pick[s] \in s
  BY DEF Chosen
<1>2. add \in [S \X Int -> Int]
  OBVIOUS
<1>3. PICK f \in [SUBSET S -> Int] :
        \A s \in SUBSET S : f[s] = IF s = {} THEN 0 ELSE add[<<pick[s], f[s \ {pick[s]}]>>]
  <2>1. 0 \in Int
    OBVIOUS
  <2> HIDE DEF pick, add
  <2>2. Foldable(S, Int, 0, pick, add)
    BY <1>1, <1>2, <2>1, FoldExists
  <2> QED
    BY <2>2 DEF Foldable
<1>4. ASSUME NEW s \in SUBSET S
      PROVE  f[s] = IF s = {} THEN 0 ELSE g[Chosen(s)] + f[s \ {Chosen(s)}]
  <2>1. CASE s = {}
    BY <1>3, <2>1
  <2>2. CASE s # {}
    <3>1. pick[s] = Chosen(s) /\ Chosen(s) \in S /\ f[s \ {Chosen(s)}] \in Int
      BY <1>1, <2>2
    <3>2. add[<<Chosen(s), f[s \ {Chosen(s)}]>>] = g[Chosen(s)] + f[s \ {Chosen(s)}]
      BY <3>1
    <3> HIDE DEF pick, add
    <3> QED
      BY <1>3, <2>2, <3>1, <3>2
  <2> QED
    BY <2>1, <2>2
<1>5. SumsAs(f, g, S)
  <2>1. f = [s \in SUBSET S |-> f[s]]
    BY <1>3
  <2> QED
    BY <1>4, <2>1 DEF SumsAs
<1> QED
  BY <1>5

\* A sum of numbers of which none is negative is not negative.
LEMMA SumOfNat ==
  ASSUME NEW S, IsFiniteSet(S), NEW g, \A x \in S : g[x] \in Nat, NEW f, SumsAs(f, g, S)
  PROVE  f[S] \in Nat
<1> DEFINE Q == {s \in SUBSET S : f[s] \in Nat}
<1>1. AddsUp(f, g, S)
  <2>1. \A x \in S : g[x] \in Int
    OBVIOUS
  <2> QED
    BY <2>1, SumStep
<1>2. {} \in Q
  BY <1>1 DEF AddsUp
<1>3. ASSUME NEW s \in SUBSET S, s # {}, \A x \in s : s \ {x} \in Q PROVE s \in Q
  <2>1. PICK x \in s : TRUE
    BY <1>3
  <2>2. f[s] = f[s \ {x}] + g[x]
    BY <1>1, <2>1 DEF AddsUp
  <2>3. f[s \ {x}] \in Nat /\ g[x] \in Nat
    BY <1>3, <2>1
  <2>4. f[s] \in Nat
    BY <2>2, <2>3
  <2> QED
    BY <2>4
<1>4. Q = SUBSET S
  <2> HIDE DEF Q
  <2>1. Q \in SUBSET SUBSET S
    BY DEF Q
  <2> QED
    BY <1>2, <1>3, <2>1, SetsInductive
<1>5. S \in Q
  <2> HIDE DEF Q
  <2> QED
    BY <1>4
<1> QED
  BY <1>5

------------------------------------------------------------------------------
\* SHADOW MODE

Days == [actual : Nat, proposed : Nat]
Evaluations == [days : Nat, actual : Nat, proposed : Nat, worse : Nat, damage : BOOLEAN]

\* The last day of some is one of them.
LEMMA LastDay ==
  ASSUME NEW n \in Nat, NEW s \in SUBSET (1..n), s # {}
  PROVE  Max(s) \in s /\ \A i \in s : Max(s) >= i
<1> DEFINE Z == {n - i : i \in s}
<1>1. Z \in SUBSET Nat /\ Z # {}
  <2>1. \A i \in s : n - i \in Nat
    OBVIOUS
  <2>2. PICK i \in s : TRUE
    OBVIOUS
  <2>3. n - i \in Z
    BY <2>2
  <2> QED
    BY <2>1, <2>3
<1>2. PICK z \in Z : \A y \in Z : ~(y < z)
  <2> HIDE DEF Z
  <2> QED
    BY <1>1, LeastIndex
<1>3. PICK i \in s : z = n - i
  BY <1>2
<1>4. ASSUME NEW j \in s PROVE i >= j
  <2>1. n - j \in Z
    OBVIOUS
  <2>2. ~(n - j < z)
    <3> HIDE DEF Z
    <3> QED
      BY <1>2, <2>1, Zenon
  <2>3. i \in Int /\ j \in Int /\ z = n - i
    BY <1>3
  <2> HIDE DEF Z
  <2> QED
    BY <2>2, <2>3
<1> QED
  BY <1>4 DEF Max

LEMMA GrownType ==
  ASSUME NEW e \in Evaluations, NEW r \in Days
  PROVE  Grown(e, r) \in Evaluations
<1>1. e.worse + (IF 0 < r.actual /\ r.proposed < r.actual THEN 1 ELSE 0) \in Nat
  BY DEF Evaluations
<1>2. (e.damage \/ (0 < r.actual /\ 10 * (r.proposed - r.actual) < -r.actual)) \in BOOLEAN
  OBVIOUS
<1>3. e.days + 1 \in Nat /\ e.actual + r.actual \in Nat /\ e.proposed + r.proposed \in Nat
  BY DEF Evaluations, Days
<1> QED
  BY <1>1, <1>2, <1>3 DEF Grown, Evaluations

LEMMA EvaluationExists ==
  ASSUME NEW n \in Nat, NEW records \in [1..n -> Days]
  PROVE  \E f : EvaluatesAs(f, records)
<1> DEFINE S == 1..n
           pick == [s \in SUBSET S |-> Max(s)]
           add == [x \in S \X Evaluations |-> Grown(x[2], records[x[1]])]
<1>1. \A s \in SUBSET S : s # {} => pick[s] \in s
  BY LastDay
<1>2. add \in [S \X Evaluations -> Evaluations]
  <2>1. \A x \in S \X Evaluations : x[2] \in Evaluations /\ records[x[1]] \in Days
    OBVIOUS
  <2>2. \A x \in S \X Evaluations : Grown(x[2], records[x[1]]) \in Evaluations
    BY <2>1, GrownType
  <2> QED
    BY <2>2
<1>3. NoDays \in Evaluations
  BY DEF NoDays, Evaluations
<1>4. IsFiniteSet(S)
  BY FS_Interval
<1>5. PICK f \in [SUBSET S -> Evaluations] :
        \A s \in SUBSET S : f[s] = IF s = {} THEN NoDays ELSE add[<<pick[s], f[s \ {pick[s]}]>>]
  <2> HIDE DEF S, pick, add
  <2>1. Foldable(S, Evaluations, NoDays, pick, add)
    BY <1>1, <1>2, <1>3, <1>4, FoldExists
  <2> QED
    BY <2>1 DEF Foldable
<1>6. ASSUME NEW s \in SUBSET S
      PROVE  f[s] = IF s = {} THEN NoDays ELSE Grown(f[s \ {Max(s)}], records[Max(s)])
  <2>1. CASE s = {}
    BY <1>5, <2>1
  <2>2. CASE s # {}
    <3>1. pick[s] = Max(s) /\ Max(s) \in S /\ f[s \ {Max(s)}] \in Evaluations
      BY <1>1, <2>2
    <3>2. add[<<Max(s), f[s \ {Max(s)}]>>] = Grown(f[s \ {Max(s)}], records[Max(s)])
      BY <3>1
    <3> HIDE DEF S, pick, add
    <3> QED
      BY <1>5, <2>2, <3>1, <3>2
  <2> QED
    BY <2>1, <2>2
<1>7. DOMAIN records = S /\ f = [s \in SUBSET S |-> f[s]]
  BY <1>5
<1>8. EvaluatesAs(f, records)
  <2> HIDE DEF S
  <2> QED
    BY <1>6, <1>7 DEF EvaluatesAs
<1> QED
  BY <1>8

\* Evaluate counts: the days, those on which the proposal would have been worse,
\* and whether one of them is damage; and its gain is the sum of the days' gains.
Lost(records) == [d \in DOMAIN records |-> records[d].actual - records[d].proposed]

IsWorse(r) == 0 < r.actual /\ r.proposed < r.actual
IsDamage(r) == 0 < r.actual /\ 10 * (r.proposed - r.actual) < -r.actual

WorseUpTo(records, k) == {d \in 1..k : IsWorse(records[d])}

Counts(e, records, k, loss) ==
    /\ e.days = k
    /\ e.actual \in Int /\ e.proposed \in Int /\ e.actual - e.proposed = loss
    /\ e.worse = Cardinality(WorseUpTo(records, k))
    /\ e.damage <=> \E d \in 1..k : IsDamage(records[d])

LEMMA CountsFromNone ==
  ASSUME NEW records
  PROVE  Counts(NoDays, records, 0, 0)
<1>1. WorseUpTo(records, 0) = {} /\ 1..0 = {}
  BY DEF WorseUpTo
<1> QED
  BY <1>1, FS_EmptySet DEF Counts, NoDays

LEMMA CountsOneMore ==
  ASSUME NEW records, NEW k \in Nat, records[k + 1] \in Days, NEW e, NEW loss \in Int,
         Counts(e, records, k, loss)
  PROVE  Counts(Grown(e, records[k + 1]), records, k + 1,
                loss + (records[k + 1].actual - records[k + 1].proposed))
<1> DEFINE r == records[k + 1]
           x == Grown(e, r)
           W == WorseUpTo(records, k)
<1>1. r.actual \in Nat /\ r.proposed \in Nat
  BY DEF Days
<1>2. /\ x.days = e.days + 1 /\ x.actual = e.actual + r.actual
      /\ x.proposed = e.proposed + r.proposed
      /\ x.worse = e.worse + (IF IsWorse(r) THEN 1 ELSE 0)
      /\ x.damage <=> e.damage \/ IsDamage(r)
  <2> HIDE DEF r
  <2> QED
    BY DEF Grown, IsWorse, IsDamage
<1>3. 1..(k + 1) = 1..k \cup {k + 1} /\ k + 1 \notin 1..k
  OBVIOUS
<1>4. WorseUpTo(records, k + 1) = IF IsWorse(r) THEN W \cup {k + 1} ELSE W
  BY <1>3 DEF WorseUpTo
<1>5. IsFiniteSet(W) /\ k + 1 \notin W
  <2>1. IsFiniteSet(1..k) /\ W \in SUBSET (1..k)
    BY FS_Interval DEF WorseUpTo
  <2> QED
    BY <1>3, <2>1, FS_Subset
<1>6. Cardinality(W) \in Nat /\ Cardinality(W \cup {k + 1}) = Cardinality(W) + 1
  BY <1>5, FS_CardinalityType, FS_AddElement
<1>7. x.worse = Cardinality(WorseUpTo(records, k + 1))
  <2>1. e.worse = Cardinality(W)
    BY DEF Counts
  <2> HIDE DEF r, x, W
  <2> QED
    BY <1>2, <1>4, <1>6, <2>1
<1>8. x.damage <=> \E d \in 1..(k + 1) : IsDamage(records[d])
  <2>1. e.damage <=> \E d \in 1..k : IsDamage(records[d])
    BY DEF Counts
  <2>2. (\E d \in 1..(k + 1) : IsDamage(records[d]))
          <=> (\E d \in 1..k : IsDamage(records[d])) \/ IsDamage(records[k + 1])
    BY <1>3
  <2> HIDE DEF x
  <2> QED
    BY <1>2, <2>1, <2>2, Zenon
<1>9. /\ x.days = k + 1 /\ x.actual \in Int /\ x.proposed \in Int
      /\ x.actual - x.proposed = loss + (r.actual - r.proposed)
  <2>1. e.days = k /\ e.actual \in Int /\ e.proposed \in Int /\ e.actual - e.proposed = loss
    BY DEF Counts
  <2> HIDE DEF r, x
  <2> QED
    BY <1>1, <1>2, <2>1
<1>10. Counts(x, records, k + 1, loss + (r.actual - r.proposed))
  <2> HIDE DEF r, x
  <2> QED
    BY <1>7, <1>8, <1>9 DEF Counts
<1> QED
  BY <1>10

LEMMA EvaluateCounts ==
  ASSUME NEW n \in Nat, NEW records \in [1..n -> Days], NEW sum,
         SumsAs(sum, Lost(records), 1..n)
  PROVE  Counts(Evaluate(records), records, n, sum[1..n])
<1> DEFINE loss == Lost(records)
<1>1. DOMAIN records = 1..n /\ IsFiniteSet(1..n)
  BY FS_Interval
<1>2. \A d \in 1..n : /\ records[d] \in Days /\ loss[d] \in Int
                      /\ loss[d] = records[d].actual - records[d].proposed
  BY <1>1 DEF Lost, Days
<1>3. AddsUp(sum, loss, 1..n)
  <2> HIDE DEF loss
  <2>1. \A d \in 1..n : loss[d] \in Int
    BY <1>2
  <2>2. SumsAs(sum, loss, 1..n)
    BY DEF loss
  <2> QED
    BY <1>1, <2>1, <2>2, SumStep
<1>4. PICK f : EvaluatesAs(f, records) /\ Evaluate(records) = f[DOMAIN records]
  BY EvaluationExists, EvaluateIsFold
<1>5. ASSUME NEW k \in 1..n
      PROVE  /\ f[1..k] = Grown(f[1..(k - 1)], records[k])
             /\ sum[1..k] = sum[1..(k - 1)] + loss[k]
             /\ sum[1..(k - 1)] \in Int
  <2>1. /\ 1..k \in SUBSET (1..n) /\ 1..(k - 1) \in SUBSET (1..n) /\ 1..k # {}
        /\ k \in 1..k /\ (1..k) \ {k} = 1..(k - 1)
    <3>1. k \in Nat /\ k >= 1 /\ k <= n
      OBVIOUS
    <3>2. k \in 1..k
      BY <3>1
    <3>3. \A j : j \in 1..k <=> j \in Nat /\ 1 <= j /\ j <= k
      BY <3>1
    <3>4. \A j : j \in 1..(k - 1) <=> j \in Nat /\ 1 <= j /\ j <= k - 1
      BY <3>1
    <3>5. (1..k) \ {k} = 1..(k - 1)
      BY <3>1, <3>3, <3>4
    <3>6. 1..k \in SUBSET (1..n) /\ 1..(k - 1) \in SUBSET (1..n)
      <4>1. \A j \in 1..k : j \in 1..n
        BY <3>1
      <4>2. \A j \in 1..(k - 1) : j \in 1..n
        BY <3>1
      <4> QED
        BY <4>1, <4>2
    <3> QED
      BY <3>2, <3>5, <3>6
  <2>2. Max(1..k) = k
    <3>1. Max(1..k) \in 1..k /\ Max(1..k) >= k
      BY <2>1, LastDay
    <3> QED
      BY <3>1
  <2>3. f[1..k] = Grown(f[(1..k) \ {Max(1..k)}], records[Max(1..k)])
    BY <1>1, <1>4, <2>1 DEF EvaluatesAs
  <2> HIDE DEF loss
  <2>4. sum[1..k] = sum[(1..k) \ {k}] + loss[k] /\ sum[1..(k - 1)] \in Int
    BY <1>3, <2>1 DEF AddsUp
  <2> QED
    BY <2>1, <2>2, <2>3, <2>4
<1> DEFINE N == {k \in Nat : k <= n => Counts(f[1..k], records, k, sum[1..k])}
<1>6. 0 \in N
  <2>1. 1..0 = {}
    OBVIOUS
  <2>2. f[{}] = NoDays
    BY <1>4 DEF EvaluatesAs
  <2>3. sum[{}] = 0
    BY <1>3 DEF AddsUp
  <2> QED
    BY <2>1, <2>2, <2>3, CountsFromNone
<1>7. ASSUME NEW k \in N PROVE k + 1 \in N
  <2>1. SUFFICES ASSUME k + 1 <= n
                 PROVE  Counts(f[1..(k + 1)], records, k + 1, sum[1..(k + 1)])
    OBVIOUS
  <2>2. k \in Nat /\ k + 1 \in 1..n /\ (k + 1) - 1 = k /\ Counts(f[1..k], records, k, sum[1..k])
    BY <2>1
  <2>3. /\ f[1..(k + 1)] = Grown(f[1..k], records[k + 1])
        /\ sum[1..(k + 1)] = sum[1..k] + loss[k + 1] /\ sum[1..k] \in Int
    <3> HIDE DEF N, loss
    <3> QED
      BY <1>5, <2>2
  <2>4. records[k + 1] \in Days /\ loss[k + 1] = records[k + 1].actual - records[k + 1].proposed
    BY <1>2, <2>2
  <2> HIDE DEF N, loss
  <2>5. Counts(Grown(f[1..k], records[k + 1]), records, k + 1,
               sum[1..k] + (records[k + 1].actual - records[k + 1].proposed))
    BY <2>2, <2>3, <2>4, CountsOneMore
  <2> QED
    BY <2>3, <2>4, <2>5
<1>8. N = Nat
  <2> HIDE DEF N
  <2>1. N \in SUBSET Nat
    BY DEF N
  <2> QED
    BY <1>6, <1>7, <2>1, Inductive
<1>9. Counts(f[1..n], records, n, sum[1..n])
  <2>1. n \in N
    <3> HIDE DEF N
    <3> QED
      BY <1>8
  <2> QED
    BY <2>1
<1> QED
  BY <1>1, <1>4, <1>9

\* A controller is promoted on the evidence of enough days only, if its proposal
\* gains in all, loses a tenth on none of them, and is worse on few.
LEMMA PromotionOf ==
  ASSUME NEW n \in Nat, NEW records \in [1..n -> Days], NEW sum,
         SumsAs(sum, Lost(records), 1..n), MinDays \in Nat,
         Verdict(Evaluate(records)) = "PROMOTE"
  PROVE  /\ n >= MinDays
         /\ sum[1..n] < 0
         /\ \A d \in 1..n : 10 * Lost(records)[d] <= records[d].actual
         /\ 10 * Cardinality({d \in 1..n : Lost(records)[d] > 0}) <= 4 * n
<1> DEFINE e == Evaluate(records)
<1>1. Counts(e, records, n, sum[1..n])
  BY EvaluateCounts
<1>2. /\ ~(e.days < MinDays) /\ ~(e.proposed <= e.actual) /\ ~e.damage
      /\ ~(10 * e.worse > 4 * e.days)
  <2> HIDE DEF e
  <2>1. Verdict(e) = "PROMOTE"
    BY DEF e
  <2> QED
    BY <2>1 DEF Verdict
<1> HIDE DEF e
<1>3. n >= MinDays /\ sum[1..n] < 0
  BY <1>1, <1>2 DEF Counts
<1>4. \A d \in 1..n : /\ records[d].actual \in Nat /\ records[d].proposed \in Nat
                      /\ Lost(records)[d] = records[d].actual - records[d].proposed
  BY DEF Lost, Days
<1>5. \A d \in 1..n : 10 * Lost(records)[d] <= records[d].actual
  <2>1. \A d \in 1..n : ~IsDamage(records[d])
    BY <1>1, <1>2 DEF Counts
  <2> SUFFICES ASSUME NEW d \in 1..n PROVE 10 * Lost(records)[d] <= records[d].actual
    OBVIOUS
  <2>2. ~(0 < records[d].actual
            /\ 10 * (records[d].proposed - records[d].actual) < -records[d].actual)
    BY <2>1 DEF IsDamage
  <2>3. /\ records[d].actual \in Nat /\ records[d].proposed \in Nat
        /\ Lost(records)[d] = records[d].actual - records[d].proposed
    BY <1>4
  <2> QED
    BY <2>2, <2>3
<1>6. 10 * Cardinality({d \in 1..n : Lost(records)[d] > 0}) <= 4 * n
  <2>1. {d \in 1..n : Lost(records)[d] > 0} = WorseUpTo(records, n)
    BY <1>4 DEF WorseUpTo, IsWorse
  <2>2. IsFiniteSet(WorseUpTo(records, n))
    <3>1. IsFiniteSet(1..n) /\ WorseUpTo(records, n) \in SUBSET (1..n)
      BY FS_Interval DEF WorseUpTo
    <3> QED
      BY <3>1, FS_Subset
  <2>3. Cardinality(WorseUpTo(records, n)) \in Nat
    BY <2>2, FS_CardinalityType
  <2>4. e.worse = Cardinality(WorseUpTo(records, n)) /\ e.days = n
    BY <1>1 DEF Counts
  <2>5. ~(10 * Cardinality(WorseUpTo(records, n)) > 4 * n)
    BY <1>2, <2>4
  <2>6. 10 * Cardinality(WorseUpTo(records, n)) <= 4 * n
    <3> DEFINE w == Cardinality(WorseUpTo(records, n))
    <3>1. w \in Nat /\ ~(10 * w > 4 * n)
      BY <2>3, <2>5
    <3>2. 10 * w <= 4 * n
      <4> HIDE DEF w
      <4> QED
        BY <3>1
    <3> QED
      BY <3>2
  <2> QED
    BY <2>1, <2>6
<1> QED
  BY <1>3, <1>5, <1>6

\* What a day is estimated to have earned is not negative.
EstimatesAs(f, shares, rates) ==
    f = [s \in SUBSET DOMAIN shares |->
            IF s = {} THEN 0 ELSE shares[Chosen(s)] * rates[Chosen(s)] + f[s \ {Chosen(s)}]]

LEMMA EstimateType ==
  ASSUME NEW shares, IsFiniteSet(DOMAIN shares), NEW rates,
         \A a \in DOMAIN shares : shares[a] \in Nat /\ rates[a] \in Nat
  PROVE  estimate(shares, rates) \in Nat
<1> DEFINE S == DOMAIN shares
           g == [a \in S |-> shares[a] * rates[a]]
           f == CHOOSE x : EstimatesAs(x, shares, rates)
<1>1. \A a \in S : g[a] \in Nat /\ g[a] \in Int
  OBVIOUS
<1>2. \A h : EstimatesAs(h, shares, rates) <=> SumsAs(h, g, S)
  <2>1. \A s \in SUBSET S : s # {} => g[Chosen(s)] = shares[Chosen(s)] * rates[Chosen(s)]
    <3>1. \A s \in SUBSET S : s # {} => Chosen(s) \in S
      BY DEF Chosen
    <3> QED
      BY <3>1
  <2> SUFFICES ASSUME NEW h
               PROVE  [s \in SUBSET S |->
                         IF s = {} THEN 0 ELSE shares[Chosen(s)] * rates[Chosen(s)] + h[s \ {Chosen(s)}]]
                      = [s \in SUBSET S |-> IF s = {} THEN 0 ELSE g[Chosen(s)] + h[s \ {Chosen(s)}]]
    <3> HIDE DEF g
    <3> QED
      BY DEF EstimatesAs, SumsAs
  <2> HIDE DEF S, g
  <2> QED
    BY <2>1
<1>3. \E h : SumsAs(h, g, S)
  <2> HIDE DEF g, S
  <2>1. IsFiniteSet(S)
    BY DEF S
  <2> QED
    BY <1>1, <2>1, SumsExist
<1>4. estimate(shares, rates) = f[S]
  BY DEF estimate, MapThenSumSet, MapThenFoldSet, EstimatesAs, Chosen
<1>5. SumsAs(f, g, S)
  <2>1. \E h : EstimatesAs(h, shares, rates)
    <3> HIDE DEF g, S
    <3> QED
      BY <1>2, <1>3
  <2>2. EstimatesAs(f, shares, rates)
    BY <2>1
  <2> HIDE DEF f, g, S
  <2> QED
    BY <1>2, <2>2
<1>6. f[S] \in Nat
  <2> HIDE DEF f, g, S
  <2>1. IsFiniteSet(S)
    BY DEF S
  <2> QED
    BY <1>1, <1>5, <2>1, SumOfNat
<1> QED
  BY <1>4, <1>6

LEMMA ShadowedType ==
  ASSUME RangesBounded, printed # Nothing, file = FirstFile, NEW n \in Nat,
         NEW rates \in [1..n -> [Observed -> Rates]]
  PROVE  Shadowed(rates) \in [1..n -> Days]
<1> SUFFICES ASSUME NEW d \in 1..n
             PROVE  /\ estimate([a \in ArmIDs \cap Observed |-> Share(a)], rates[d]) \in Nat
                    /\ estimate(printed.to, rates[d]) \in Nat
  BY DEF Shadowed, Days
<1>1. \A a \in Observed : rates[d][a] \in Nat
  BY ShadowAssumption
<1>2. \A a \in ArmIDs : Share(a) \in Nat
  <2>1. \A a \in ArmIDs : SharesOf(FirstFile)[a] \in Nat
    BY FirstFileTiles, ShareType
  <2> QED
    BY <2>1 DEF SharesOf, Share
<1>3. estimate([a \in ArmIDs \cap Observed |-> Share(a)], rates[d]) \in Nat
  <2> DEFINE shares == [a \in ArmIDs \cap Observed |-> Share(a)]
  <2>1. IsFiniteSet(DOMAIN shares) /\ \A a \in DOMAIN shares : shares[a] \in Nat /\ rates[d][a] \in Nat
    BY <1>1, <1>2, AllArms, FS_Subset
  <2> HIDE DEF shares
  <2>2. estimate(shares, rates[d]) \in Nat
    BY <2>1, EstimateType
  <2> QED
    BY <2>2 DEF shares
<1>4. estimate(printed.to, rates[d]) \in Nat
  <2>1. /\ DOMAIN printed.to = Observed /\ Observed \in SUBSET Range(Names)
        /\ \A a \in DOMAIN printed.to : printed.to[a] \in Nat
    BY DEF RangesBounded
  <2>2. IsFiniteSet(DOMAIN printed.to)
    BY <2>1, NamesFinite, FS_Subset
  <2> QED
    BY <1>1, <2>1, <2>2, EstimateType
<1> QED
  BY <1>3, <1>4

\* A controller that is promoted has earned it: whatever it proposed and whatever the
\* days brought, of which there are enough.
THEOREM PromotionIsEarned == YieldSpec => []PromotionEarned
<1>1. ASSUME RangesBounded, printed # Nothing, file = FirstFile,
             NEW n \in {MinDays - 1, MinDays}, NEW rates \in [1..n -> [Observed -> Rates]],
             Verdict(Evaluate(Shadowed(rates))) = "PROMOTE"
      PROVE  LET records == Shadowed(rates)
                 days == DOMAIN records
                 loss(d) == records[d].actual - records[d].proposed IN
             /\ n >= MinDays
             /\ MapThenSumSet(loss, days) < 0
             /\ \A d \in days : 10 * loss(d) <= records[d].actual
             /\ 10 * Cardinality({d \in days : loss(d) > 0}) <= 4 * n
  <2> DEFINE records == Shadowed(rates)
             L == Lost(records)
  <2>1. n \in Nat /\ MinDays \in Nat
    BY ShadowAssumption
  <2>2. records \in [1..n -> Days]
    BY <1>1, <2>1, ShadowedType
  <2>3. DOMAIN records = 1..n
    BY <2>2
  <2>4. Verdict(Evaluate(records)) = "PROMOTE"
    BY <1>1
  <2> HIDE DEF records
  <2>5. \A d \in 1..n : L[d] = records[d].actual - records[d].proposed /\ L[d] \in Int
    BY <2>2, <2>3 DEF Lost, Days
  <2> DEFINE LostAs(x) ==
                x = [s \in SUBSET (1..n) |->
                       IF s = {} THEN 0
                       ELSE (records[Chosen(s)].actual - records[Chosen(s)].proposed) + x[s \ {Chosen(s)}]]
             f == CHOOSE x : LostAs(x)
  <2>6. ASSUME NEW h PROVE LostAs(h) <=> SumsAs(h, L, 1..n)
    <3>1. \A s \in SUBSET (1..n) : s # {} =>
             L[Chosen(s)] = records[Chosen(s)].actual - records[Chosen(s)].proposed
      <4>1. \A s \in SUBSET (1..n) : s # {} => Chosen(s) \in 1..n
        BY DEF Chosen
      <4> QED
        BY <2>5, <4>1
    <3> HIDE DEF L
    <3>2. [s \in SUBSET (1..n) |->
             IF s = {} THEN 0
             ELSE (records[Chosen(s)].actual - records[Chosen(s)].proposed) + h[s \ {Chosen(s)}]]
          = [s \in SUBSET (1..n) |-> IF s = {} THEN 0 ELSE L[Chosen(s)] + h[s \ {Chosen(s)}]]
      BY <3>1
    <3> QED
      BY <3>2 DEF SumsAs
  <2>7. MapThenSumSet(LAMBDA d : records[d].actual - records[d].proposed, 1..n) = f[1..n]
    <3> HIDE DEF L
    <3> QED
      BY DEF MapThenSumSet, MapThenFoldSet, Chosen
  <2>8. SumsAs(f, L, 1..n)
    <3> HIDE DEF L, LostAs
    <3>1. IsFiniteSet(1..n) /\ \A d \in 1..n : L[d] \in Int
      BY <2>1, <2>5, FS_Interval
    <3>2. \E h : SumsAs(h, L, 1..n)
      BY <3>1, SumsExist
    <3>3. \E h : LostAs(h)
      BY <2>6, <3>2
    <3>4. LostAs(f)
      BY <3>3
    <3> HIDE DEF f
    <3> QED
      BY <2>6, <3>4
  <2> HIDE DEF f
  <2>9. /\ n >= MinDays
        /\ f[1..n] < 0
        /\ \A d \in 1..n : 10 * L[d] <= records[d].actual
        /\ 10 * Cardinality({d \in 1..n : L[d] > 0}) <= 4 * n
    BY <2>1, <2>2, <2>4, <2>8, PromotionOf
  <2>10. {d \in 1..n : L[d] > 0} = {d \in 1..n : records[d].actual - records[d].proposed > 0}
    <3> HIDE DEF L
    <3> QED
      BY <2>5
  <2>11. /\ n >= MinDays
         /\ MapThenSumSet(LAMBDA d : records[d].actual - records[d].proposed, 1..n) < 0
         /\ \A d \in 1..n : 10 * (records[d].actual - records[d].proposed) <= records[d].actual
         /\ 10 * Cardinality({d \in 1..n : records[d].actual - records[d].proposed > 0}) <= 4 * n
    <3> HIDE DEF L
    <3> QED
      BY <2>5, <2>7, <2>9, <2>10
  <2> QED
    BY <2>3, <2>11 DEF records
<1>2. RangesBounded => PromotionEarned
  BY <1>1 DEF PromotionEarned
<1> QED
  BY <1>2, RangesInvariant, PTL
==============================================================================
