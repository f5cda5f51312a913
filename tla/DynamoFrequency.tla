--------------------------- MODULE DynamoFrequency ---------------------------
(***************************************************************************)
(* Frequency capping in production: DynamoFrequency (store_dynamodb.go) as *)
(* the Lambda containers that run handleAdRequest use it.                  *)
(*                                                                         *)
(* A row per (session, line item) holds the durable count.  Every          *)
(* container keeps a cache of the rows it has read, which nothing ever     *)
(* expires, and adds to row and cache after each decision.  A container    *)
(* handles one request at a time; several containers handle the requests   *)
(* of one session.  Reads and writes of the row may fail, a read may       *)
(* return a count of long ago, the SDK may apply a write it retries more   *)
(* than once, DynamoDB deletes the row when its TTL is over, and a         *)
(* container may be replaced at any moment.                                *)
(***************************************************************************)
EXTENDS Integers, FiniteSets

CONSTANTS
    Containers,     \* Lambda execution environments
    Concurrency,    \* requests in progress at once (reserved concurrency)
    Keys,           \* (session, line item) pairs, line item capped
    Cap,            \* Cap[k]: FrequencyCap.Impressions of the line item
    Attempts,       \* times the SDK may apply one UpdateItem it retries
    MaxLost,        \* bound: failed increments per container and key
    MaxRecycles,    \* bound: containers replaced during a behaviour
    None            \* no key, or no cached count

ASSUME ContainersAssumption == IsFiniteSet(Containers)
ASSUME ConcurrencyAssumption == Concurrency \in Nat
ASSUME CapAssumption == Cap \in [Keys -> Nat \ {0}]
ASSUME AttemptsAssumption == Attempts \in Nat \ {0}
ASSUME BoundsAssumption == MaxLost \in Nat /\ MaxRecycles \in Nat
ASSUME NoneAssumption == None \notin Keys /\ None \notin Nat

VARIABLES
    row,        \* row[k]: attribute n of the DynamoDB row, 0 when there is none
    held,       \* history: counts the row has had, which a read may still return
    cache,      \* cache[c][k]: DynamoFrequency.cache of container c
    serving,    \* serving[c]: key decided to serve whose Increment is to come
    served,     \* history: impressions of k by c since c started
    lost,       \* history: increments of k by c that returned an error
    applied,    \* history: times the row of k was incremented, ever
    delivered,  \* history: impressions of k by all containers, ever
    unrecorded, \* history: increments of k that returned an error, ever
    recycles    \* history: containers replaced so far

vars == <<row, held, cache, serving, served, lost, applied, delivered, unrecorded,
          recycles>>

Zeros == [k \in Keys |-> 0]
NoneCached == [k \in Keys |-> None]

Init ==
    /\ row = Zeros
    /\ held = [k \in Keys |-> {0}]
    /\ cache = [c \in Containers |-> NoneCached]
    /\ serving = [c \in Containers |-> None]
    /\ served = [c \in Containers |-> Zeros]
    /\ lost = [c \in Containers |-> Zeros]
    /\ applied = Zeros
    /\ delivered = Zeros
    /\ unrecorded = Zeros
    /\ recycles = 0

\* What Count returns to c: the cached count, or zero after a failed read.  (A
\* read that succeeds is cached first, see ReadThrough.)
Count(c, k) == IF cache[c][k] = None THEN 0 ELSE cache[c][k]

\* FrequencyCap.Capped, for a line item with a session-scoped cap.
CappedPastLimit(c, k) == Count(c, k) > Cap[k]
Capped(c, k) == Count(c, k) >= Cap[k]

\* DynamoFrequency.Count on a miss, read succeeded.  GetItem does not ask for a
\* consistent read: the count is any the row has had.  Decide counts every capped
\* line item once more for the trace, so c may be serving k already, after a first
\* read of k that failed.
ReadThrough(c, k) ==
    /\ cache[c][k] = None
    /\ \E n \in held[k] : cache' = [cache EXCEPT ![c][k] = n]
    /\ UNCHANGED <<row, held, serving, served, lost, applied, delivered,
                   unrecorded, recycles>>

\* The allocation serves k, which was not capped when Decide first looked.
Decide(c, k) ==
    /\ serving[c] = None
    /\ Cardinality({d \in Containers : serving[d] # None}) < Concurrency
    /\ ~Capped(c, k)
    /\ serving' = [serving EXCEPT ![c] = k]
    /\ UNCHANGED <<row, held, cache, served, lost, applied, delivered, unrecorded,
                   recycles>>

\* The handler goes on to answer: the impression is delivered.
Answer(c) ==
    /\ serving' = [serving EXCEPT ![c] = None]
    /\ served' = [served EXCEPT ![c][serving[c]] = @ + 1]
    /\ delivered' = [delivered EXCEPT ![serving[c]] = @ + 1]

\* The UpdateItem of Increment reaches the row n times.
AddToRow(k, n) ==
    /\ row' = [row EXCEPT ![k] = @ + n]
    /\ held' = [held EXCEPT ![k] = @ \cup row[k]..(row[k] + n)]
    /\ applied' = [applied EXCEPT ![k] = @ + n]

\* DynamoFrequency.Increment, UpdateItem succeeded.
IncrementRowOnly(c) ==
    /\ serving[c] # None
    /\ \E n \in 1..Attempts : AddToRow(serving[c], n)
    /\ Answer(c)
    /\ UNCHANGED <<cache, lost, unrecorded, recycles>>

Increment(c) ==
    /\ serving[c] # None
    /\ \E n \in 1..Attempts : AddToRow(serving[c], n)
    /\ cache' = [cache EXCEPT ![c][serving[c]] = Count(c, serving[c]) + 1]
    /\ Answer(c)
    /\ UNCHANGED <<lost, unrecorded, recycles>>

\* DynamoFrequency.Increment, UpdateItem returned an error: the row may have
\* been incremented all the same, the cache is not.
IncrementFailsButCached(c) ==
    /\ serving[c] # None
    /\ lost[c][serving[c]] < MaxLost
    /\ \E n \in 0..Attempts : AddToRow(serving[c], n)
    /\ cache' = [cache EXCEPT ![c][serving[c]] = Count(c, serving[c]) + 1]
    /\ lost' = [lost EXCEPT ![c][serving[c]] = @ + 1]
    /\ unrecorded' = [unrecorded EXCEPT ![serving[c]] = @ + 1]
    /\ Answer(c)
    /\ UNCHANGED recycles

IncrementFails(c) ==
    /\ serving[c] # None
    /\ lost[c][serving[c]] < MaxLost
    /\ \E n \in 0..Attempts : AddToRow(serving[c], n)
    /\ lost' = [lost EXCEPT ![c][serving[c]] = @ + 1]
    /\ unrecorded' = [unrecorded EXCEPT ![serving[c]] = @ + 1]
    /\ Answer(c)
    /\ UNCHANGED <<cache, recycles>>

\* DynamoDB deletes a row whose expires_at has passed.
RowExpires(k) ==
    /\ row[k] > 0
    /\ row' = [row EXCEPT ![k] = 0]
    /\ UNCHANGED <<held, cache, serving, served, lost, applied, delivered,
                   unrecorded, recycles>>

\* Lambda replaces a container, between requests or in the middle of one (a
\* timeout or a crash, after which the request is never answered).
Recycle(c) ==
    /\ recycles < MaxRecycles
    /\ recycles' = recycles + 1
    /\ cache' = [cache EXCEPT ![c] = NoneCached]
    /\ serving' = [serving EXCEPT ![c] = None]
    /\ served' = [served EXCEPT ![c] = Zeros]
    /\ lost' = [lost EXCEPT ![c] = Zeros]
    /\ UNCHANGED <<row, held, applied, delivered, unrecorded>>

Next ==
    \/ \E c \in Containers, k \in Keys : ReadThrough(c, k) \/ Decide(c, k)
    \/ \E c \in Containers : Increment(c) \/ IncrementFails(c) \/ Recycle(c)
    \/ \E k \in Keys : RowExpires(k)

Spec == Init /\ [][Next]_vars

------------------------------------------------------------------------------

TypeOK ==
    /\ row \in [Keys -> Nat]
    /\ held \in [Keys -> SUBSET Nat]
    /\ cache \in [Containers -> [Keys -> Nat \cup {None}]]
    /\ serving \in [Containers -> Keys \cup {None}]
    /\ served \in [Containers -> [Keys -> Nat]]
    /\ lost \in [Containers -> [Keys -> Nat]]
    /\ applied \in [Keys -> Nat]
    /\ delivered \in [Keys -> Nat]
    /\ unrecorded \in [Keys -> Nat]
    /\ recycles \in Nat

\* Whatever the other containers do, whatever reads and writes fail or are out of
\* date and however often the row expires, one container serves a key at most up to the cap plus
\* the increments it failed to record: a failed read alone never costs an
\* impression past the cap.
ContainerCap ==
    \A c \in Containers, k \in Keys : served[c][k] <= Cap[k] + lost[c][k]

\* What the strengthening needs: a container remembers every impression it
\* served except those it failed to record, and serves a key only below its cap
\* and those.  What it believes of the key it serves may be at the cap all the
\* same: Decide may read the row after it found the key free.
Remembered ==
    \A c \in Containers, k \in Keys :
        /\ served[c][k] <= Count(c, k) + lost[c][k]
        /\ serving[c] = k => served[c][k] < Cap[k] + lost[c][k]

\* The fleet can serve a key once per cap and container it ever ran, and once
\* per increment it failed to record; nothing else leaks through the cap.
FleetCap ==
    \A k \in Keys :
        delivered[k] <= Cap[k] * (Cardinality(Containers) + recycles)
                            + unrecorded[k]

\* A container never believes in impressions that were never recorded, so it
\* suppresses a key only after the row was incremented Cap times.
NeverOverstates ==
    \A c \in Containers, k \in Keys : Count(c, k) <= applied[k]

\* Each container on its own is a session cap, whose limit is the cap plus the
\* increments it may fail to record; a new container starts a new window.
Promise == INSTANCE SessionCap WITH
    Keys <- Containers \X Keys,
    Limit <- [ck \in Containers \X Keys |-> Cap[ck[2]] + MaxLost],
    delivered <- [ck \in Containers \X Keys |-> served[ck[1]][ck[2]]]

ImplementsSessionCap == Promise!Spec
==============================================================================
