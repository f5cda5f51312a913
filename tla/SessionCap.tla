----------------------------- MODULE SessionCap -----------------------------
(***************************************************************************)
(* What a frequency cap promises, whoever keeps the count: in one session  *)
(* window an impression of a capped subject is only ever added one at a    *)
(* time, and never beyond a limit that is known in advance.                *)
(*                                                                         *)
(* The limit is a parameter because the promise of docs/frequency-capping  *)
(* ("no more than N times") is kept with a different slack by each store:  *)
(* MemoryFrequency and DynamoFrequency instantiate it with theirs.         *)
(***************************************************************************)
EXTENDS Naturals

CONSTANTS
    Keys,   \* (session, line item) pairs whose line item carries a cap
    Limit   \* Limit[k] \in Nat: impressions of k allowed in one window

VARIABLE delivered  \* delivered[k]: impressions of k in the current window

Init == delivered = [k \in Keys |-> 0]

Deliver(k) ==
    /\ delivered[k] < Limit[k]
    /\ delivered' = [delivered EXCEPT ![k] = @ + 1]

\* The window of one key ends, or of several at once when they were counted in
\* the same place.
WindowEnds(K) ==
    delivered' = [k \in Keys |-> IF k \in K THEN 0 ELSE delivered[k]]

Next ==
    \/ \E k \in Keys : Deliver(k)
    \/ \E K \in SUBSET Keys : WindowEnds(K)

Spec == Init /\ [][Next]_delivered
=============================================================================
