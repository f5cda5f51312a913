--------------------------- MODULE MemoryFrequency ---------------------------
(***************************************************************************)
(* Frequency capping on the local server: services/ad-server/frequency.go  *)
(* as handleAdRequest (main.go) uses it.                                   *)
(*                                                                         *)
(* net/http runs every request in a goroutine of its own.  The decision,   *)
(* which asks Capped, is taken under rngMu and is one action here; the     *)
(* Increment that records it comes after the unlock and is another.  Other *)
(* requests decide in between.                                             *)
(***************************************************************************)
EXTENDS Integers, FiniteSets

CONSTANTS
    Handlers,   \* requests the server may be handling at the same time
    Keys,       \* (session, line item) pairs, session known, line item capped
    Cap,        \* Cap[k]: FrequencyCap.Impressions of the line item
    None        \* "no key": the handler is not between decision and Increment

ASSUME HandlersAssumption == IsFiniteSet(Handlers) /\ Handlers # {}
ASSUME CapAssumption == Cap \in [Keys -> Nat \ {0}]
ASSUME NoneAssumption == None \notin Keys

VARIABLES
    counts,     \* MemoryFrequency.counts
    lapsed,     \* more than ttl has passed since MemoryFrequency.seen[k]
    pending,    \* the key a handler decided to serve and has yet to count
    delivered   \* history: decisions to serve k in the current session window

vars == <<counts, lapsed, pending, delivered>>

Init ==
    /\ counts = [k \in Keys |-> 0]
    /\ lapsed = [k \in Keys |-> FALSE]
    /\ pending = [h \in Handlers |-> None]
    /\ delivered = [k \in Keys |-> 0]

\* MemoryFrequency.Count: a count last touched more than ttl ago reads as zero.
CountIgnoringTTL(k) == counts[k]
Count(k) == IF lapsed[k] THEN 0 ELSE counts[k]

\* FrequencyCap.Capped, for a line item with a session-scoped cap.
CappedPastLimit(k) == Count(k) > Cap[k]
Capped(k) == Count(k) >= Cap[k]

InFlight(k) == {h \in Handlers : pending[h] = k}

\* handleAdRequest up to rngMu.Unlock: the allocation serves k, which was not
\* capped when Decide looked.
DecideUncounted(h, k) ==
    /\ pending[h] = None
    /\ ~Capped(k)
    /\ delivered' = [delivered EXCEPT ![k] = @ + 1]
    /\ UNCHANGED <<counts, lapsed, pending>>

Decide(h, k) ==
    /\ pending[h] = None
    /\ ~Capped(k)
    /\ pending' = [pending EXCEPT ![h] = k]
    /\ delivered' = [delivered EXCEPT ![k] = @ + 1]
    /\ UNCHANGED <<counts, lapsed>>

\* MemoryFrequency.Increment, after the unlock.
IncrementKeepingOldCount(h) ==
    LET k == pending[h] IN
    /\ k # None
    /\ counts' = [counts EXCEPT ![k] = @ + 1]
    /\ lapsed' = [lapsed EXCEPT ![k] = FALSE]
    /\ pending' = [pending EXCEPT ![h] = None]
    /\ UNCHANGED delivered

Increment(h) ==
    LET k == pending[h] IN
    /\ k # None
    /\ counts' = [counts EXCEPT ![k] = Count(k) + 1]
    /\ lapsed' = [lapsed EXCEPT ![k] = FALSE]
    /\ pending' = [pending EXCEPT ![h] = None]
    /\ UNCHANGED delivered

\* ttl (two hours) passes after the last Increment of k.  A request lasts
\* milliseconds, so none is between its decision and its Increment meanwhile.
Lapse(k) ==
    /\ counts[k] > 0
    /\ ~lapsed[k]
    /\ InFlight(k) = {}
    /\ lapsed' = [lapsed EXCEPT ![k] = TRUE]
    /\ delivered' = [delivered EXCEPT ![k] = 0]
    /\ UNCHANGED <<counts, pending>>

Next ==
    \/ \E h \in Handlers, k \in Keys : Decide(h, k)
    \/ \E h \in Handlers : Increment(h)
    \/ \E k \in Keys : Lapse(k)

Spec == Init /\ [][Next]_vars

------------------------------------------------------------------------------

TypeOK ==
    /\ counts \in [Keys -> Nat]
    /\ lapsed \in [Keys -> BOOLEAN]
    /\ pending \in [Handlers -> Keys \cup {None}]
    /\ delivered \in [Keys -> Nat]

\* No impression escapes the count: what the store reports plus what is still
\* on its way to it is exactly what this window served.
Accounting ==
    \A k \in Keys : delivered[k] = Count(k) + Cardinality(InFlight(k))

\* Counting after the unlock lets a burst through a cap, but never by more than
\* one impression per other request in progress.
OvershootBounded ==
    \A k \in Keys : delivered[k] <= Cap[k] + Cardinality(Handlers) - 1

\* A subject is suppressed only once this session window has had its fill: an
\* expired count never suppresses anything.
NoEarlySuppression ==
    \A k \in Keys : Capped(k) => delivered[k] >= Cap[k]

\* The local store is a session cap whose limit is the cap plus the requests
\* that can be in progress beside the one being decided.
Promise == INSTANCE SessionCap WITH
    Limit <- [k \in Keys |-> Cap[k] + Cardinality(Handlers) - 1]

ImplementsSessionCap == Promise!Spec
==============================================================================
