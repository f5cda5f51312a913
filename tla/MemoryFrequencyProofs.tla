------------------------ MODULE MemoryFrequencyProofs ------------------------
(***************************************************************************)
(* For any number of handlers, keys and any caps: the local server never   *)
(* serves a capped line item more than (handlers - 1) times past its cap   *)
(* in one session window, and never suppresses it before the cap.          *)
(*                                                                         *)
(* OvershootBounded is not inductive alone: that a decision adds at most   *)
(* one impression to a total already below the bound needs to know what    *)
(* the total is made of.  Accounting says it: the count the store reports  *)
(* plus the handlers on their way to it.                                   *)
(***************************************************************************)
EXTENDS MemoryFrequency, FiniteSetTheorems, TLAPS

IInv == TypeOK /\ Accounting /\ OvershootBounded

USE HandlersAssumption, CapAssumption, NoneAssumption

------------------------------------------------------------------------------
\* Type correctness of the local frequency store under every interleaving.
THEOREM TypeCorrect == Spec => []TypeOK
<1>1. Init => TypeOK
  BY DEF Init, TypeOK
<1>2. TypeOK /\ [Next]_vars => TypeOK'
  <2> SUFFICES ASSUME TypeOK, [Next]_vars
               PROVE  TypeOK'
    OBVIOUS
  <2> USE DEF TypeOK
  <2>1. ASSUME NEW h \in Handlers, NEW k \in Keys, Decide(h, k)
        PROVE  TypeOK'
    BY <2>1 DEF Decide
  <2>2. ASSUME NEW h \in Handlers, Increment(h)
        PROVE  TypeOK'
    BY <2>2 DEF Increment, Count
  <2>3. ASSUME NEW k \in Keys, Lapse(k)
        PROVE  TypeOK'
    BY <2>3 DEF Lapse
  <2>4. CASE UNCHANGED vars
    BY <2>4 DEF vars
  <2>5. QED
    BY <2>1, <2>2, <2>3, <2>4 DEF Next
<1>3. QED
  BY <1>1, <1>2, PTL DEF Spec

------------------------------------------------------------------------------
\* The handlers in flight for a key are finitely many, and all of them only
\* when nobody is idle: a handler that is about to decide is not one of them.
LEMMA InFlightCard ==
  ASSUME NEW k \in Keys
  PROVE  /\ IsFiniteSet(InFlight(k))
         /\ Cardinality(InFlight(k)) \in Nat
         /\ Cardinality(Handlers) \in Nat
         /\ \A h \in Handlers : h \notin InFlight(k) =>
               Cardinality(InFlight(k)) <= Cardinality(Handlers) - 1
<1>1. InFlight(k) \in SUBSET Handlers
  BY DEF InFlight
<1>2. /\ IsFiniteSet(InFlight(k))
      /\ Cardinality(InFlight(k)) <= Cardinality(Handlers)
      /\ Cardinality(Handlers) = Cardinality(InFlight(k)) => Handlers = InFlight(k)
  BY <1>1, FS_Subset
<1>3. Cardinality(InFlight(k)) \in Nat /\ Cardinality(Handlers) \in Nat
  BY <1>2, FS_CardinalityType
<1>4. QED
  BY <1>2, <1>3

\* A decision puts exactly one more handler in flight for its key, and none for
\* any other key.
LEMMA DecideInFlight ==
  ASSUME TypeOK, NEW h \in Handlers, NEW k \in Keys, Decide(h, k)
  PROVE  /\ Cardinality(InFlight(k))' = Cardinality(InFlight(k)) + 1
         /\ h \notin InFlight(k)
         /\ \A j \in Keys \ {k} : InFlight(j)' = InFlight(j)
<1>1. h \notin InFlight(k)
  BY DEF Decide, InFlight
<1>2. InFlight(k)' = InFlight(k) \cup {h}
  BY DEF Decide, InFlight, TypeOK
<1>3. \A j \in Keys \ {k} : InFlight(j)' = InFlight(j)
  BY DEF Decide, InFlight, TypeOK
<1>4. Cardinality(InFlight(k) \cup {h}) = Cardinality(InFlight(k)) + 1
  BY <1>1, InFlightCard, FS_AddElement
<1>5. QED
  BY <1>1, <1>2, <1>3, <1>4

\* An increment takes exactly its own handler out of flight.
LEMMA IncrementInFlight ==
  ASSUME TypeOK, NEW h \in Handlers, Increment(h), NEW k \in Keys, pending[h] = k
  PROVE  /\ Cardinality(InFlight(k))' = Cardinality(InFlight(k)) - 1
         /\ \A j \in Keys \ {k} : InFlight(j)' = InFlight(j)
<1>1. h \in InFlight(k)
  BY DEF InFlight
<1>2. pending' = [pending EXCEPT ![h] = None]
  BY DEF Increment
<1>3. InFlight(k)' = InFlight(k) \ {h}
  BY <1>1, <1>2 DEF InFlight, TypeOK
<1>4. \A j \in Keys \ {k} : InFlight(j)' = InFlight(j)
  BY <1>1, <1>2 DEF InFlight, TypeOK
<1>5. Cardinality(InFlight(k) \ {h}) = Cardinality(InFlight(k)) - 1
  BY <1>1, InFlightCard, FS_RemoveElement
<1>6. QED
  BY <1>3, <1>4, <1>5

------------------------------------------------------------------------------
LEMMA InitIInv == Init => IInv
<1> SUFFICES ASSUME Init PROVE IInv
  OBVIOUS
<1>1. TypeOK
  BY DEF Init, TypeOK
<1>2. \A k \in Keys : InFlight(k) = {}
  BY DEF Init, InFlight
<1>3. Accounting
  BY <1>2, FS_EmptySet DEF Accounting, Init, Count
<1>4. Cardinality(Handlers) \in Nat /\ Cardinality(Handlers) # 0
  BY FS_CardinalityType, FS_EmptySet
<1>5. OvershootBounded
  BY <1>4 DEF OvershootBounded, Init
<1>6. QED
  BY <1>1, <1>3, <1>5 DEF IInv

LEMMA NextIInv == IInv /\ TypeOK' /\ [Next]_vars => IInv'
<1> SUFFICES ASSUME IInv, TypeOK', [Next]_vars
             PROVE  Accounting' /\ OvershootBounded'
  BY DEF IInv
<1> USE DEF IInv
<1>1. ASSUME NEW h \in Handlers, NEW k \in Keys, Decide(h, k)
      PROVE  Accounting' /\ OvershootBounded'
  <2>1. \A j \in Keys : Count(j)' = Count(j)
    BY <1>1 DEF Decide, Count
  <2>2. Count(k) < Cap[k] /\ Count(k) \in Nat /\ Cap[k] \in Nat
    BY <1>1 DEF Decide, Capped, Count, TypeOK
  <2>3. /\ Cardinality(InFlight(k)) <= Cardinality(Handlers) - 1
        /\ Cardinality(InFlight(k)) \in Nat
        /\ Cardinality(Handlers) \in Nat
    BY <1>1, DecideInFlight, InFlightCard
  <2>4. /\ delivered' = [delivered EXCEPT ![k] = @ + 1]
        /\ delivered'[k] = delivered[k] + 1
        /\ \A j \in Keys \ {k} : delivered'[j] = delivered[j]
    BY <1>1 DEF Decide, TypeOK
  <2>5. Accounting'
    <3> SUFFICES ASSUME NEW j \in Keys
                 PROVE  (delivered[j] = Count(j) + Cardinality(InFlight(j)))'
      BY DEF Accounting
    <3>1. delivered[j] = Count(j) + Cardinality(InFlight(j))
      BY DEF Accounting
    <3>2. CASE j = k
      BY <1>1, <2>1, <2>2, <2>3, <2>4, <3>1, <3>2, DecideInFlight
    <3>3. CASE j # k
      BY <1>1, <2>1, <2>4, <3>1, <3>3, DecideInFlight
    <3>4. QED
      BY <3>2, <3>3
  <2>6. OvershootBounded'
    <3> SUFFICES ASSUME NEW j \in Keys
                 PROVE  delivered'[j] <= Cap[j] + Cardinality(Handlers) - 1
      BY DEF OvershootBounded
    <3>1. CASE j = k
      <4>1. delivered[k] = Count(k) + Cardinality(InFlight(k))
        BY DEF Accounting
      <4>2. QED
        BY <2>2, <2>3, <2>4, <3>1, <4>1
    <3>2. CASE j # k
      BY <2>4, <3>2 DEF OvershootBounded
    <3>3. QED
      BY <3>1, <3>2
  <2>7. QED
    BY <2>5, <2>6
<1>2. ASSUME NEW h \in Handlers, Increment(h)
      PROVE  Accounting' /\ OvershootBounded'
  <2>1. PICK k \in Keys : pending[h] = k
    BY <1>2 DEF Increment, TypeOK
  <2>2. Count(k) \in Nat
    BY DEF Count, TypeOK
  <2>3. /\ counts' = [counts EXCEPT ![k] = Count(k) + 1]
        /\ lapsed' = [lapsed EXCEPT ![k] = FALSE]
        /\ delivered' = delivered
    BY <1>2, <2>1 DEF Increment
  <2>4. Count(k)' = Count(k) + 1
    BY <2>2, <2>3 DEF Count, TypeOK
  <2>5. \A j \in Keys \ {k} : Count(j)' = Count(j)
    BY <2>3 DEF Count, TypeOK
  <2>6. Accounting'
    <3> SUFFICES ASSUME NEW j \in Keys
                 PROVE  (delivered[j] = Count(j) + Cardinality(InFlight(j)))'
      BY DEF Accounting
    <3>1. /\ delivered[j] = Count(j) + Cardinality(InFlight(j))
          /\ Cardinality(InFlight(j)) \in Nat
      BY InFlightCard DEF Accounting
    <3>2. CASE j = k
      BY <1>2, <2>1, <2>2, <2>3, <2>4, <3>1, <3>2, IncrementInFlight
    <3>3. CASE j # k
      BY <1>2, <2>1, <2>3, <2>5, <3>1, <3>3, IncrementInFlight
    <3>4. QED
      BY <3>2, <3>3
  <2>7. QED
    BY <2>3, <2>6 DEF OvershootBounded
<1>3. ASSUME NEW k \in Keys, Lapse(k)
      PROVE  Accounting' /\ OvershootBounded'
  <2>1. \A j \in Keys : InFlight(j)' = InFlight(j)
    BY <1>3 DEF Lapse, InFlight
  <2>2. \A j \in Keys \ {k} : Count(j)' = Count(j) /\ delivered'[j] = delivered[j]
    BY <1>3 DEF Lapse, Count, TypeOK
  <2>3. Count(k)' = 0 /\ delivered'[k] = 0 /\ Cardinality(InFlight(k)) = 0
    BY <1>3, FS_EmptySet DEF Lapse, Count, TypeOK
  <2>4. Accounting'
    BY <2>1, <2>2, <2>3 DEF Accounting
  <2>5. Cap[k] + Cardinality(Handlers) - 1 >= 0
    <3>1. Cardinality(Handlers) \in Nat /\ Cap[k] \in Nat \ {0}
      BY FS_CardinalityType
    <3>2. QED
      BY <3>1
  <2>6. OvershootBounded'
    BY <2>2, <2>3, <2>5 DEF OvershootBounded
  <2>7. QED
    BY <2>4, <2>6
<1>4. CASE UNCHANGED vars
  <2>1. \A j \in Keys : InFlight(j)' = InFlight(j) /\ Count(j)' = Count(j)
    BY <1>4 DEF vars, InFlight, Count
  <2>2. QED
    BY <1>4, <2>1 DEF vars, Accounting, OvershootBounded
<1>5. QED
  BY <1>1, <1>2, <1>3, <1>4 DEF Next

\* However the requests of a session interleave and wherever a window ends, every
\* impression served in the window is in the count or on its way to it.
THEOREM EverythingCounted == Spec => []Accounting
<1>1. IInv => Accounting
  BY DEF IInv
<1>2. QED
  BY <1>1, InitIInv, NextIInv, TypeCorrect, PTL DEF Spec

\* However the requests of a session interleave, no window serves a line item
\* more than its cap plus one per other request in progress.
THEOREM Overshoot == Spec => []OvershootBounded
<1>1. IInv => OvershootBounded
  BY DEF IInv
<1>2. QED
  BY <1>1, InitIInv, NextIInv, TypeCorrect, PTL DEF Spec

\* A capped key has had its cap's worth in this window: what suppresses it is
\* never a count of an earlier window.
THEOREM SuppressionEarned == Spec => []NoEarlySuppression
<1>1. TypeOK /\ Accounting => NoEarlySuppression
  <2> SUFFICES ASSUME TypeOK, Accounting, NEW k \in Keys, Capped(k)
               PROVE  delivered[k] >= Cap[k]
    BY DEF NoEarlySuppression
  <2>1. /\ delivered[k] = Count(k) + Cardinality(InFlight(k))
        /\ Cardinality(InFlight(k)) \in Nat
    BY InFlightCard DEF Accounting
  <2>2. Count(k) >= Cap[k] /\ Count(k) \in Nat
    BY DEF Capped, Count, TypeOK
  <2>3. QED
    BY <2>1, <2>2
<1>2. QED
  BY <1>1, EverythingCounted, TypeCorrect, PTL

------------------------------------------------------------------------------
\* The local store implements the abstract session cap: a decision is a
\* delivery, the end of a session window is one, and everything else stutters.
THEOREM Refinement == Spec => ImplementsSessionCap
<1>1. Init => Promise!Init
  BY DEF Init, Promise!Init
<1>2. IInv /\ [Next]_vars => [Promise!Next]_delivered
  <2> SUFFICES ASSUME IInv, [Next]_vars
               PROVE  Promise!Next \/ UNCHANGED delivered
    OBVIOUS
  <2>1. ASSUME NEW h \in Handlers, NEW k \in Keys, Decide(h, k)
        PROVE  Promise!Deliver(k)
    <3>1. /\ Count(k) < Cap[k]
          /\ Count(k) \in Nat
          /\ Cap[k] \in Nat
          /\ delivered[k] = Count(k) + Cardinality(InFlight(k))
      BY <2>1 DEF IInv, Accounting, Decide, Capped, Count, TypeOK
    <3>2. /\ Cardinality(InFlight(k)) <= Cardinality(Handlers) - 1
          /\ Cardinality(InFlight(k)) \in Nat
          /\ Cardinality(Handlers) \in Nat
      BY <2>1, DecideInFlight, InFlightCard DEF IInv
    <3>3. delivered[k] < Cap[k] + Cardinality(Handlers) - 1
      BY <3>1, <3>2
    <3>4. QED
      BY <2>1, <3>3 DEF Decide, Promise!Deliver
  <2>2. ASSUME NEW h \in Handlers, Increment(h)
        PROVE  UNCHANGED delivered
    BY <2>2 DEF Increment
  <2>3. ASSUME NEW k \in Keys, Lapse(k)
        PROVE  Promise!WindowEnds({k})
    BY <2>3 DEF IInv, TypeOK, Lapse, Promise!WindowEnds
  <2>4. CASE UNCHANGED vars
    BY <2>4 DEF vars
  <2>5. QED
    BY <2>1, <2>2, <2>3, <2>4 DEF Next, Promise!Next
<1>3. Spec => []IInv
  BY InitIInv, NextIInv, TypeCorrect, PTL DEF Spec
<1>4. QED
  BY <1>1, <1>2, <1>3, PTL DEF Spec, ImplementsSessionCap, Promise!Spec
==============================================================================
