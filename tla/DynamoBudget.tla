---------------------------- MODULE DynamoBudget ----------------------------
(***************************************************************************)
(* Daily budgets in production: DynamoBudget (store_dynamodb.go) between   *)
(* the decisions that read it and the impressions that charge it.          *)
(*                                                                         *)
(* One row per line item and UTC day holds what was spent.  A container    *)
(* caches the spends it reads; the cache as a whole expires ttl after its  *)
(* window began, and only SpendToday looks at the clock.  Decide           *)
(* (decision.go) asks SpendToday for every line item in order before it    *)
(* picks one, so its reads are separate steps.  They are eventually         *)
(* consistent: a read may return what the row held a while ago.  AddSpend  *)
(* comes later, when the browser reports the impression, to whichever      *)
(* container.                                                              *)
(*                                                                         *)
(* Spend is counted in impressions.  Only line items with a daily budget   *)
(* and a CPM rate are modelled: no other is ever both checked and charged. *)
(***************************************************************************)
EXTENDS Integers, Sequences, FiniteSets

CONSTANTS
    Containers, \* Lambda execution environments
    N,          \* line items, in the order of ControlPlane.LineItems
    Budget,     \* Budget[i]: DailyBudget, in impressions
    TTL,        \* ttl of the cache, in ticks
    ReadLag,    \* ticks a read may be behind the row
    Attempts,   \* times the SDK may apply one UpdateItem it retries
    Beacons,    \* times a browser may report one served ad
    MayFail,    \* whether calls to DynamoDB may fail
    MaxServes,  \* bound: ads served per line item and day
    MaxDays,    \* bound: midnights in a behaviour
    None        \* no cached spend

Items == 1..N

ASSUME ItemsAssumption == N \in Nat \ {0}
ASSUME BudgetAssumption == Budget \in [Items -> Nat \ {0}]
ASSUME TTLAssumption == TTL \in Nat \ {0}
ASSUME ReadLagAssumption == ReadLag \in Nat
ASSUME AttemptsAssumption == Attempts \in Nat \ {0}
ASSUME BeaconsAssumption == Beacons \in Nat
ASSUME MayFailAssumption == MayFail \in BOOLEAN
ASSUME BoundsAssumption == MaxServes \in Nat /\ MaxDays \in Nat
ASSUME NoneAssumption == None \notin Nat

VARIABLES
    row,        \* row[i]: attribute spend of today's row of line item i
    cache,      \* cache[c][i]: DynamoBudget.cache of container c
    age,        \* age[c]: ticks since DynamoBudget.cachedAt, up to TTL
    seen,       \* seen[c]: what SpendToday returned so far to c's Decide
    beacons,    \* beacons[i]: impressions of ads served for i yet to arrive
    served,     \* history: ads served for i today
    days,       \* history: midnights so far
    sinceMidnight, \* history: ticks since midnight, up to TTL + 1
    over,       \* history: ticks since row[i] reached Budget[i], if so, up to Late + 1
    crossed,    \* history: containers whose window began before midnight
    partial,    \* history: partial[c]: entries of cache[c] begun by AddSpend
    blind,      \* history: items whose spend c's Decide did not get from the row
    straddling  \* history: containers whose Decide has lived through a tick

clocks == <<days, sinceMidnight, over>>
vars == <<row, cache, age, seen, beacons, served, clocks, crossed, partial,
          blind, straddling>>

\* How long a spent budget may go unnoticed: a read may be behind, and what it
\* returned is cached for a window.
Late == TTL + ReadLag

NoneCached == [i \in Items |-> None]
Zeros == [i \in Items |-> 0]

\* The fleet starts with the day; a new container's cachedAt is the zero time,
\* which is ttl and more ago.
Init ==
    /\ row = Zeros
    /\ cache = [c \in Containers |-> NoneCached]
    /\ age = [c \in Containers |-> TTL]
    /\ seen = [c \in Containers |-> <<>>]
    /\ beacons = Zeros
    /\ served = Zeros
    /\ days = 0
    /\ sinceMidnight = 0
    /\ over = Zeros
    /\ crossed = {}
    /\ partial = [c \in Containers |-> {}]
    /\ blind = [c \in Containers |-> {}]
    /\ straddling = {}

------------------------------------------------------------------------------

Idle(c) == seen[c] = <<>>

\* The line item c's Decide looks at next.
Looking(c, i) == Len(seen[c]) < N /\ i = Len(seen[c]) + 1

\* DynamoBudget.cachedSpend: the window, and with it the whole cache, is over
\* when ttl has passed; otherwise what is cached is what SpendToday returns.
ExpiredNever(c) == FALSE
Expired(c) == age[c] = TTL

Kept(c) == IF Expired(c) THEN NoneCached ELSE cache[c]

CachedSpend(c) ==
    IF Expired(c)
    THEN /\ age' = [age EXCEPT ![c] = 0]
         /\ crossed' = crossed \ {c}
         /\ partial' = [partial EXCEPT ![c] = {}]
    ELSE UNCHANGED <<age, crossed, partial>>

\* DynamoBudget.SpendToday in the loop of Decide: from the cache, from the row,
\* or, when the read fails, zero (fail open) and nothing cached.
SpendCached(c, i) ==
    /\ Looking(c, i)
    /\ Kept(c)[i] # None
    /\ CachedSpend(c)
    /\ seen' = [seen EXCEPT ![c] = Append(@, Kept(c)[i])]
    /\ blind' = [blind EXCEPT ![c] = IF i \in partial[c] THEN @ \cup {i} ELSE @]
    /\ UNCHANGED <<row, cache, beacons, served, clocks, straddling>>

\* GetItem does not ask for a consistent read.  The row of a day only grows, by
\* one impression at a time, so what a read returns is some v up to the row, and
\* leaves room in a budget only if there was some at most ReadLag ago.
SpendRead(c, i) ==
    /\ Looking(c, i)
    /\ Kept(c)[i] = None
    /\ CachedSpend(c)
    /\ \E v \in 0..row[i] :
          /\ v < Budget[i] /\ row[i] >= Budget[i] => over[i] <= ReadLag
          /\ seen' = [seen EXCEPT ![c] = Append(@, v)]
          /\ cache' = [cache EXCEPT ![c] = [Kept(c) EXCEPT ![i] = v]]
    /\ UNCHANGED <<row, beacons, served, clocks, blind, straddling>>

SpendReadFails(c, i) ==
    /\ MayFail
    /\ Looking(c, i)
    /\ Kept(c)[i] = None
    /\ CachedSpend(c)
    /\ seen' = [seen EXCEPT ![c] = Append(@, 0)]
    /\ cache' = [cache EXCEPT ![c] = Kept(c)]
    /\ blind' = [blind EXCEPT ![c] = @ \cup {i}]
    /\ UNCHANGED <<row, beacons, served, clocks, straddling>>

Concluding(c) ==
    /\ Len(seen[c]) = N
    /\ seen' = [seen EXCEPT ![c] = <<>>]
    /\ blind' = [blind EXCEPT ![c] = {}]
    /\ straddling' = straddling \ {c}
    /\ UNCHANGED <<row, cache, age, clocks, crossed, partial>>

\* The budget conjunct of eligible (decision.go).
WithinBudgetInclusive(c, i) == seen[c][i] <= Budget[i]

WithinBudget(c, i) == seen[c][i] < Budget[i]

\* Decide and Allocate settle on line item i: a token is minted, and the page
\* reports the impression whenever it renders.
Serve(c, i) ==
    /\ Concluding(c)
    /\ WithinBudget(c, i)
    /\ served[i] < MaxServes
    /\ served' = [served EXCEPT ![i] = @ + 1]
    /\ beacons' = [beacons EXCEPT ![i] = @ + Beacons]

\* Targeting, caps, pacing or the auction decide for something else.
ServeOther(c) ==
    /\ Concluding(c)
    /\ UNCHANGED <<beacons, served>>

------------------------------------------------------------------------------

\* handleImpression charging i in a container that is not busy: n is how often
\* the UpdateItem of AddSpend reached the row.
Charging(c, i, n) ==
    /\ Idle(c)
    /\ beacons[i] > 0
    /\ beacons' = [beacons EXCEPT ![i] = @ - 1]
    /\ row' = [row EXCEPT ![i] = @ + n]
    /\ UNCHANGED <<age, seen, served, clocks, crossed, blind, straddling>>

\* DynamoBudget.AddSpend: an entry the cache does not hold starts from nothing,
\* whatever the row says, and an expired cache is not cleared.
AddSpend(c, i) ==
    /\ \E n \in 1..Attempts : Charging(c, i, n)
    /\ cache' = [cache EXCEPT ![c][i] = IF @ = None THEN 1 ELSE @ + 1]
    /\ partial' = [partial EXCEPT ![c] =
                      IF cache[c][i] = None THEN @ \cup {i} ELSE @]

\* UpdateItem returned an error: the cache is left alone, the row may have been
\* incremented all the same.
AddSpendFailsButCached(c, i) ==
    /\ MayFail
    /\ \E n \in 0..Attempts : Charging(c, i, n)
    /\ cache' = [cache EXCEPT ![c][i] = IF @ = None THEN 1 ELSE @ + 1]
    /\ UNCHANGED partial

AddSpendFails(c, i) ==
    /\ MayFail
    /\ \E n \in 0..Attempts : Charging(c, i, n)
    /\ UNCHANGED <<cache, partial>>

------------------------------------------------------------------------------

\* Lambda replaces a container, idle or in the middle of a decision.
Recycle(c) ==
    /\ cache' = [cache EXCEPT ![c] = NoneCached]
    /\ age' = [age EXCEPT ![c] = TTL]
    /\ seen' = [seen EXCEPT ![c] = <<>>]
    /\ crossed' = crossed \ {c}
    /\ partial' = [partial EXCEPT ![c] = {}]
    /\ blind' = [blind EXCEPT ![c] = {}]
    /\ straddling' = straddling \ {c}
    /\ UNCHANGED <<row, beacons, served, clocks>>

\* Time passes.  A decision takes milliseconds: it may begin before a tick and
\* end after it, but never lives through two.
Tick ==
    /\ straddling = {}
    /\ straddling' = {c \in Containers : ~Idle(c)}
    /\ age' = [c \in Containers |-> IF age[c] < TTL THEN age[c] + 1 ELSE TTL]
    /\ sinceMidnight' = IF sinceMidnight <= TTL THEN sinceMidnight + 1
                                                ELSE sinceMidnight
    /\ over' = [i \in Items |-> IF row[i] >= Budget[i] /\ over[i] <= Late
                                THEN over[i] + 1 ELSE over[i]]
    /\ UNCHANGED <<row, cache, seen, beacons, served, days, crossed, partial, blind>>

\* spendKey names the day, so at midnight every spend is that of a row that does
\* not exist yet.  The caches are keyed by line item only.
Midnight ==
    /\ days < MaxDays
    /\ days' = days + 1
    /\ row' = Zeros
    /\ served' = Zeros
    /\ over' = Zeros
    /\ sinceMidnight' = 0
    /\ crossed' = Containers
    /\ UNCHANGED <<cache, age, seen, beacons, partial, blind, straddling>>

Next ==
    \/ \E c \in Containers, i \in Items :
          \/ SpendCached(c, i)
          \/ SpendRead(c, i)
          \/ SpendReadFails(c, i)
          \/ Serve(c, i)
          \/ AddSpend(c, i)
          \/ AddSpendFails(c, i)
    \/ \E c \in Containers : ServeOther(c) \/ Recycle(c)
    \/ Tick
    \/ Midnight

Spec == Init /\ [][Next]_vars

------------------------------------------------------------------------------

TypeOK ==
    /\ row \in [Items -> Nat]
    /\ cache \in [Containers -> [Items -> Nat \cup {None}]]
    /\ age \in [Containers -> 0..TTL]
    /\ seen \in [Containers -> Seq(Nat)]
    /\ \A c \in Containers : Len(seen[c]) <= N
    /\ beacons \in [Items -> Nat]
    /\ served \in [Items -> Nat]
    /\ days \in Nat
    /\ sinceMidnight \in 0..(TTL + 1)
    /\ over \in [Items -> 0..(Late + 1)]
    /\ crossed \subseteq Containers
    /\ partial \in [Containers -> SUBSET Items]
    /\ blind \in [Containers -> SUBSET Items]
    /\ straddling \subseteq Containers

\* A container never believes more was spent today than today's row says,
\* unless its cache dates from before midnight: no line item is held back for
\* money nobody charged, whatever fails.
NeverAhead ==
    \A c \in Containers \ crossed, i \in Items :
        cache[c][i] # None => cache[c][i] <= row[i]

\* Yesterday's spend holds a line item back for at most one window: a decision
\* that finds a budget exhausted which is not is made within ttl of midnight.
FalseExhaustionBounded ==
    \A c \in Containers : \A i \in 1..Len(seen[c]) :
        ~WithinBudget(c, i) /\ row[i] < Budget[i] => sinceMidnight <= TTL

\* The fleet, for all its caches, failed calls and late reports, is a daily budget: a
\* line item whose budget is spent (eligible) is served on for at most ttl and the lag
\* of a read, except by decisions that do not know what the row says: SpendToday failed
\* open, or returned an entry that AddSpend had begun from nothing (blind).
Promise == INSTANCE DailyBudget WITH
    Servers <- Containers,
    Window <- Late,
    Charges <- Attempts,
    Reports <- Beacons,
    spent <- row,
    out <- beacons,
    since <- over,
    unsighted <- blind

ImplementsDailyBudget == Promise!Spec

\* What today's row may still come to, with every beacon on its way, grows only by an
\* ad that may be served: a budget known to be spent costs what was out by then.
CommittedWithinBudget == Promise!CommittedWithinBudget
=============================================================================
