----------------------------- MODULE ControlPlane -----------------------------
(***************************************************************************)
(* The configuration of the ad server: a DynamoDB table that `adlabctl seed`*)
(* writes item by item from a file (tools/adlabctl/main.go), and the        *)
(* snapshot of it that every process keeps for a TTL and reloads with a     *)
(* paginated scan (DynamoControlPlane in store_dynamodb.go).                *)
(*                                                                         *)
(* Neither side is atomic.  A scan may overlap a seed, several requests may *)
(* find the snapshot too old and scan at once, seed stops at the first      *)
(* write that fails, and it never deletes.  The scan does not ask for       *)
(* consistent reads, so it may return an item as it was before a recent     *)
(* write, and an item that does not decode is left out without a word.  An  *)
(* item is known by the version of the file it was last written from, 0 if  *)
(* it is not in the table, or not in use.                                   *)
(***************************************************************************)
EXTENDS Integers, Sequences, FiniteSets

CONSTANTS
    Items,      \* publishers, placements, line items, ..., experiments
    Pages,      \* Pages[p]: the items page p of a scan returns
    Files,      \* Files[v]: version v of the file, in the order seed writes it
    Loopback,   \* items whose endpoint is on this machine, which seed skips
    Undecodable, \* the <<i, v>> whose fields are not of the types the server reads
    Loads,      \* requests that may find the snapshot too old at once
    TTL,        \* age at which a snapshot is too old, in ticks
    ScanTicks,  \* bound: how long a scan takes, in ticks
    ReadLag,    \* bound: how long after its last write a table is not read as it is
    None        \* nothing

Versions == DOMAIN Files
Configs == [Items -> {0} \cup Versions]

ASSUME FilesAssumption ==
    /\ IsFiniteSet(Items)
    /\ Files \in Seq(Seq(Items)) /\ Len(Files) > 0
ASSUME PagesAssumption ==
    /\ Pages \in Seq(SUBSET Items)
    /\ \A i \in Items : \E p \in DOMAIN Pages : i \in Pages[p]
ASSUME TicksAssumption == TTL \in Nat /\ ScanTicks \in Nat /\ ReadLag \in Nat

VARIABLES
    table,      \* the control plane table
    was,        \* was[i]: versions of i that a read may still return
    seeding,    \* what seed has yet to write, or None
    version,    \* the version of the file it writes, or wrote last
    cached,     \* DynamoControlPlane.cached
    age,        \* time since DynamoControlPlane.loadedAt, as far as it matters
    load,       \* load[g]: the scan under way for request g, or None
    quiet       \* history: time since the table was last written

vars == <<table, was, seeding, version, cached, age, load, quiet>>

Written(v) == [i \in Items |-> IF i \in {Files[v][n] : n \in DOMAIN Files[v]} \ Loopback
                               THEN v ELSE 0]

\* applyItem: an item that cannot be decoded is not in use.
Applied(i, v) == IF <<i, v>> \in Undecodable THEN 0 ELSE v

InUse == [i \in Items |-> Applied(i, table[i])]

\* A process that starts loads the configuration before it serves anything.
Init ==
    /\ table = Written(1)
    /\ was = [i \in Items |-> {}]
    /\ seeding = None
    /\ version = 1
    /\ cached = InUse
    /\ age = 0
    /\ load = [g \in Loads |-> None]
    /\ quiet = 0

------------------------------------------------------------------------------

\* seed: somebody runs it with the next version of the file, or again with the
\* same one.
Seed(v) ==
    /\ seeding = None
    /\ v \in {version, version + 1} \cap Versions
    /\ version' = v
    /\ seeding' = Files[v]
    /\ UNCHANGED <<table, was, cached, age, load, quiet>>

\* The next item: skipped, or written whole.
SeedItem ==
    /\ seeding \notin {None, <<>>}
    /\ LET i == Head(seeding) IN
       IF i \in Loopback THEN UNCHANGED <<table, was, quiet>>
       ELSE /\ table' = [table EXCEPT ![i] = version]
            /\ was' = [was EXCEPT ![i] = @ \cup {table[i]}]
            /\ quiet' = 0
    /\ seeding' = Tail(seeding)
    /\ UNCHANGED <<version, cached, age, load>>

\* It has written everything, or stops where a write failed.
SeedStops ==
    /\ seeding # None
    /\ seeding' = None
    /\ UNCHANGED <<table, was, version, cached, age, load, quiet>>

------------------------------------------------------------------------------

Fresh == age < TTL

\* Get finds the snapshot too old, and scans.
Miss(g) ==
    /\ load[g] = None
    /\ ~Fresh
    /\ load' = [load EXCEPT ![g] = [page |-> 1, got |-> [i \in Items |-> 0], missed |-> {},
                                    ticks |-> 0, overtaken |-> FALSE]]
    /\ UNCHANGED <<table, was, seeding, version, cached, age, quiet>>

\* load: applyItem for every item of a page, each as it is or, recently written, as
\* it was.  What a scan has missed, reading it late or not decoding it, is history.
Reads(i) == {table[i]} \cup was[i]

Scan(g) ==
    /\ load[g] # None
    /\ load[g].page <= Len(Pages)
    /\ LET page == Pages[load[g].page] IN
       \E read \in [Items -> {0} \cup Versions] :
          /\ \A i \in Items : read[i] \in IF i \in page THEN Reads(i) ELSE {0}
          /\ load' = [load EXCEPT
                ![g].got = [i \in Items |-> IF i \in page THEN Applied(i, read[i]) ELSE load[g].got[i]],
                ![g].missed = @ \cup {i \in page : Applied(i, read[i]) # table[i]},
                ![g].page = @ + 1]
    /\ UNCHANGED <<table, was, seeding, version, cached, age, quiet>>

\* The scan has no more pages: it becomes the snapshot, as of now.
ScannedOnePage(g) == load[g] # None /\ load[g].page > 1

Scanned(g) == load[g] # None /\ load[g].page > Len(Pages)

Store(g) ==
    /\ Scanned(g)
    /\ cached' = load[g].got
    /\ age' = 0
    /\ load' = [h \in Loads |->
          IF h = g \/ load[h] = None THEN None ELSE [load[h] EXCEPT !.overtaken = TRUE]]
    /\ UNCHANGED <<table, was, seeding, version, quiet>>

\* The scan fails: the old snapshot is served, and the next request tries again.
ScanFailsQuietly(g) ==
    /\ load[g] # None
    /\ load' = [load EXCEPT ![g] = None]
    /\ age' = 0
    /\ UNCHANGED <<table, was, seeding, version, cached, quiet>>

ScanFails(g) ==
    /\ load[g] # None
    /\ load' = [load EXCEPT ![g] = None]
    /\ UNCHANGED <<table, was, seeding, version, cached, age, quiet>>

Upto(n, bound) == IF n < bound THEN n + 1 ELSE n

Tick ==
    /\ \A g \in Loads : load[g] # None => load[g].ticks < ScanTicks
    /\ load' = [g \in Loads |->
          IF load[g] = None THEN None ELSE [load[g] EXCEPT !.ticks = @ + 1]]
    /\ age' = Upto(age, TTL)
    /\ quiet' = Upto(quiet, TTL + ScanTicks + ReadLag + 1)
    /\ was' = IF quiet < ReadLag THEN was ELSE [i \in Items |-> {}]
    /\ UNCHANGED <<table, seeding, version, cached>>

ConfigChange == (\E v \in Versions : Seed(v)) \/ SeedItem \/ SeedStops

Refresh == \E g \in Loads : Miss(g) \/ Scan(g) \/ Store(g) \/ ScanFails(g)

Next == ConfigChange \/ Refresh \/ Tick

Spec == Init /\ [][Next]_vars

------------------------------------------------------------------------------

Scans == [page : 1..(Len(Pages) + 1), got : Configs, missed : SUBSET Items,
          ticks : 0..ScanTicks, overtaken : BOOLEAN]

TypeOK ==
    /\ table \in Configs
    /\ was \in [Items -> SUBSET ({0} \cup Versions)]
    /\ seeding \in {None} \cup Seq(Items)
    /\ version \in Versions
    /\ cached \in Configs
    /\ age \in 0..TTL
    /\ load \in [Loads -> {None} \cup Scans]
    /\ quiet \in 0..(TTL + ScanTicks + ReadLag + 1)

\* "The ad server picks this up within its 60s control-plane TTL" (adlabctl): a
\* snapshot that is served without a look at the table is what of the table can be
\* decoded, once that has not been written for the TTL, the time a scan takes and
\* the lag of a read; a scan that began before the write and was stored last, and a
\* read that returns what was, cost that time on top of the TTL.
PickedUp == Fresh /\ quiet > TTL + ScanTicks + ReadLag => cached = InUse

\* The configuration goes back in time only when two requests scan at once and the
\* one that began first is stored last, or for an item the scan read late or could
\* not decode; each item by itself, for a scan that meets a seed is part old and
\* part new.
NeverBackwards ==
    \A g \in Loads :
        Scanned(g) /\ ~load[g].overtaken =>
            \A i \in Items \ load[g].missed : cached[i] <= load[g].got[i]
==============================================================================
