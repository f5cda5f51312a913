------------------------ MODULE DynamoFrequencyProofs ------------------------
(***************************************************************************)
(* For any fleet, any keys and caps, and whatever fails: one container     *)
(* serves a capped line item to a session at most its cap plus the         *)
(* increments the container failed to record, and never suppresses it on   *)
(* the strength of impressions nobody recorded.                            *)
(*                                                                         *)
(* ContainerCap is not inductive: that an impression about to be delivered *)
(* is still below the cap depends on the decision that led to it, and that *)
(* on what the cache remembered of what was served.  Remembered says both. *)
(* It does not say that the cache is still below the cap: the decision may *)
(* read a row at the cap after it found the key free.                      *)
(*                                                                         *)
(* FleetCap needs an account over the containers: what was delivered and   *)
(* the room every container has left is never more than one cap per        *)
(* container ever run.  The room is a sum, written as a number of units.   *)
(***************************************************************************)
EXTENDS DynamoFrequency, FiniteSetTheorems, TLAPS

\* Failed increments stay within their bound, and no count, durable or cached,
\* is above what was written for the key.
LostBounded == \A c \in Containers, k \in Keys : lost[c][k] <= MaxLost

RowRecorded ==
    \A k \in Keys : row[k] <= applied[k] /\ \A n \in held[k] : n <= applied[k]

IInv ==
    TypeOK /\ Remembered /\ ContainerCap /\ NeverOverstates /\ LostBounded /\ RowRecorded

USE CapAssumption, AttemptsAssumption, BoundsAssumption, NoneAssumption

------------------------------------------------------------------------------
\* What Count returns is a number, and at most what is cached.
LEMMA CountType ==
  ASSUME TypeOK, NEW c \in Containers, NEW k \in Keys
  PROVE  Count(c, k) \in Nat
BY DEF TypeOK, Count

\* A successful or a failed UpdateItem writes a number of increments.
LEMMA AddToRowType ==
  ASSUME TypeOK, NEW k \in Keys, NEW n \in 0..Attempts, AddToRow(k, n)
  PROVE  /\ row' \in [Keys -> Nat]
         /\ held' \in [Keys -> SUBSET Nat]
         /\ applied' \in [Keys -> Nat]
         /\ row'[k] = row[k] + n
         /\ held'[k] = held[k] \cup row[k]..(row[k] + n)
         /\ applied'[k] = applied[k] + n
         /\ \A j \in Keys \ {k} :
               row'[j] = row[j] /\ held'[j] = held[j] /\ applied'[j] = applied[j]
<1>1. row[k] \in Nat /\ n \in Nat
  BY DEF TypeOK
<1>2. row[k]..(row[k] + n) \in SUBSET Nat
  BY <1>1
<1>3. held' = [held EXCEPT ![k] = @ \cup row[k]..(row[k] + n)]
  BY DEF AddToRow
<1>4. /\ held' \in [Keys -> SUBSET Nat]
      /\ held'[k] = held[k] \cup row[k]..(row[k] + n)
      /\ \A j \in Keys \ {k} : held'[j] = held[j]
  BY <1>2, <1>3 DEF TypeOK
<1>5. QED
  BY <1>1, <1>4 DEF TypeOK, AddToRow

\* An answer gives its container one impression more of the key it served.
LEMMA AnswerType ==
  ASSUME TypeOK, NEW c \in Containers, NEW k \in Keys, serving[c] = k, Answer(c)
  PROVE  /\ serving' \in [Containers -> Keys \cup {None}]
         /\ serving'[c] = None
         /\ \A d \in Containers \ {c} : serving'[d] = serving[d]
         /\ served' \in [Containers -> [Keys -> Nat]]
         /\ served'[c][k] = served[c][k] + 1
         /\ \A d \in Containers, j \in Keys :
               <<d, j>> # <<c, k>> => served'[d][j] = served[d][j]
         /\ delivered' \in [Keys -> Nat]
BY DEF TypeOK, Answer

\* Type correctness of row, caches and histories under every interleaving and
\* every failure.
THEOREM TypeCorrect == Spec => []TypeOK
<1>1. Init => TypeOK
  BY DEF Init, TypeOK, Zeros, NoneCached
<1>2. TypeOK /\ [Next]_vars => TypeOK'
  <2> SUFFICES ASSUME TypeOK, [Next]_vars
               PROVE  TypeOK'
    OBVIOUS
  <2>1. ASSUME NEW c \in Containers, NEW k \in Keys, ReadThrough(c, k)
        PROVE  TypeOK'
    BY <2>1 DEF TypeOK, ReadThrough
  <2>2. ASSUME NEW c \in Containers, NEW k \in Keys, Decide(c, k)
        PROVE  TypeOK'
    BY <2>2 DEF TypeOK, Decide
  <2>3. ASSUME NEW c \in Containers, Increment(c)
        PROVE  TypeOK'
    <3>1. PICK k \in Keys : serving[c] = k
      BY <2>3 DEF TypeOK, Increment
    <3>2. PICK n \in 0..Attempts : AddToRow(k, n)
      BY <2>3, <3>1 DEF Increment
    <3>3. Answer(c)
      BY <2>3 DEF Increment
    <3>4. cache' \in [Containers -> [Keys -> Nat \cup {None}]]
      BY <2>3, <3>1, CountType DEF TypeOK, Increment
    <3>5. lost' = lost /\ unrecorded' = unrecorded /\ recycles' = recycles
      BY <2>3 DEF Increment
    <3>6. QED
      BY <3>1, <3>2, <3>3, <3>4, <3>5, AddToRowType, AnswerType DEF TypeOK
  <2>4. ASSUME NEW c \in Containers, IncrementFails(c)
        PROVE  TypeOK'
    <3>1. PICK k \in Keys : serving[c] = k
      BY <2>4 DEF TypeOK, IncrementFails
    <3>2. PICK n \in 0..Attempts : AddToRow(k, n)
      BY <2>4, <3>1 DEF IncrementFails
    <3>3. Answer(c)
      BY <2>4 DEF IncrementFails
    <3>4. /\ lost' \in [Containers -> [Keys -> Nat]]
          /\ unrecorded' \in [Keys -> Nat]
      BY <2>4, <3>1 DEF TypeOK, IncrementFails
    <3>5. cache' = cache /\ recycles' = recycles
      BY <2>4 DEF IncrementFails
    <3>6. QED
      BY <3>1, <3>2, <3>3, <3>4, <3>5, AddToRowType, AnswerType DEF TypeOK
  <2>5. ASSUME NEW c \in Containers, Recycle(c)
        PROVE  TypeOK'
    BY <2>5 DEF TypeOK, Recycle, Zeros, NoneCached
  <2>6. ASSUME NEW k \in Keys, RowExpires(k)
        PROVE  TypeOK'
    BY <2>6 DEF TypeOK, RowExpires
  <2>7. CASE UNCHANGED vars
    BY <2>7 DEF TypeOK, vars
  <2>8. QED
    BY <2>1, <2>2, <2>3, <2>4, <2>5, <2>6, <2>7 DEF Next
<1>3. QED
  BY <1>1, <1>2, PTL DEF Spec

------------------------------------------------------------------------------
LEMMA InitIInv == Init => IInv
BY DEF Init, IInv, TypeOK, Remembered, ContainerCap, NeverOverstates, LostBounded,
       RowRecorded, Count, Zeros, NoneCached

LEMMA ReadThroughIInv ==
  ASSUME IInv, TypeOK', NEW c \in Containers, NEW k \in Keys, ReadThrough(c, k)
  PROVE  IInv'
<1> USE DEF IInv
<1>1. PICK n \in held[k] : cache' = [cache EXCEPT ![c][k] = n]
  BY DEF ReadThrough
<1>2. /\ UNCHANGED <<row, held, serving, served, lost, applied>>
      /\ Count(c, k) = 0
  BY DEF ReadThrough, Count
<1>3. n \in Nat /\ n <= applied[k]
  BY DEF TypeOK, RowRecorded
<1>4. Count(c, k)' = n
  BY <1>1, <1>3 DEF TypeOK, Count
<1>5. \A d \in Containers, j \in Keys : <<d, j>> # <<c, k>> => Count(d, j)' = Count(d, j)
  BY <1>1 DEF TypeOK, Count
<1>6. Remembered'
  <2> SUFFICES ASSUME NEW d \in Containers, NEW j \in Keys
               PROVE  served[d][j] <= Count(d, j)' + lost[d][j]
    BY <1>2 DEF Remembered
  <2>1. CASE <<d, j>> = <<c, k>>
    BY <1>2, <1>3, <1>4, <2>1 DEF Remembered, TypeOK
  <2>2. CASE <<d, j>> # <<c, k>>
    BY <1>5, <2>2 DEF Remembered
  <2>3. QED
    BY <2>1, <2>2
<1>7. ContainerCap' /\ NeverOverstates' /\ LostBounded' /\ RowRecorded'
  BY <1>2, <1>3, <1>4, <1>5 DEF ContainerCap, NeverOverstates, LostBounded, RowRecorded
<1>8. QED
  BY <1>6, <1>7

\* The step of an answered request, recorded or not: what the container
\* remembers grows with what it served, and what was written covers it.
LEMMA AnswerIInv ==
  ASSUME IInv, NEW c \in Containers, NEW k \in Keys, serving[c] = k, Answer(c),
         NEW n \in 0..Attempts, AddToRow(k, n),
         NEW counted \in {0, 1}, counted <= n,
         lost' \in [Containers -> [Keys -> Nat]],
         lost'[c][k] = lost[c][k] + 1 - counted,
         Count(c, k)' = Count(c, k) + counted,
         \A d \in Containers, j \in Keys : <<d, j>> # <<c, k>> =>
            Count(d, j)' = Count(d, j) /\ lost'[d][j] = lost[d][j]
  PROVE  Remembered' /\ ContainerCap' /\ NeverOverstates' /\ RowRecorded'
<1> USE DEF IInv
<1>1. Count(c, k) \in Nat /\ \A d \in Containers, j \in Keys : Count(d, j) \in Nat
  BY CountType
<1>2. Remembered'
  <2> SUFFICES ASSUME NEW d \in Containers, NEW j \in Keys
               PROVE  /\ served'[d][j] <= Count(d, j)' + lost'[d][j]
                      /\ serving'[d] = j => served'[d][j] < Cap[j] + lost'[d][j]
    BY DEF Remembered
  <2>1. served'[d][j] <= Count(d, j)' + lost'[d][j]
    <3>1. CASE <<d, j>> = <<c, k>>
      BY <1>1, <3>1, AnswerType DEF Remembered, TypeOK
    <3>2. CASE <<d, j>> # <<c, k>>
      BY <3>2, AnswerType DEF Remembered
    <3>3. QED
      BY <3>1, <3>2
  <2>2. ASSUME serving'[d] = j PROVE served'[d][j] < Cap[j] + lost'[d][j]
    <3>1. d # c /\ serving[d] = j
      BY <2>2, AnswerType
    <3>2. served'[d][j] = served[d][j] /\ lost'[d][j] = lost[d][j]
      BY <3>1, AnswerType
    <3>3. QED
      BY <3>1, <3>2 DEF Remembered
  <2>3. QED
    BY <2>1, <2>2
<1>3. NeverOverstates'
  <2> SUFFICES ASSUME NEW d \in Containers, NEW j \in Keys
               PROVE  Count(d, j)' <= applied'[j]
    BY DEF NeverOverstates
  <2>1. Count(d, j) <= applied[j] /\ applied[j] \in Nat /\ Count(d, j) \in Nat
    BY <1>1 DEF NeverOverstates, TypeOK
  <2>2. CASE <<d, j>> = <<c, k>>
    BY <2>1, <2>2, AddToRowType
  <2>3. CASE <<d, j>> # <<c, k>>
    BY <2>1, <2>3, AddToRowType
  <2>4. QED
    BY <2>2, <2>3
<1>4. RowRecorded'
  <2> SUFFICES ASSUME NEW j \in Keys
               PROVE  row'[j] <= applied'[j] /\ \A m \in held'[j] : m <= applied'[j]
    BY DEF RowRecorded
  <2>1. /\ row[j] <= applied[j] /\ row[j] \in Nat /\ applied[j] \in Nat
        /\ \A m \in held[j] : m \in Nat /\ m <= applied[j]
    BY DEF RowRecorded, TypeOK
  <2>2. CASE j = k
    <3>1. /\ row'[j] = row[j] + n /\ applied'[j] = applied[j] + n
          /\ held'[j] = held[j] \cup row[j]..(row[j] + n)
      BY <2>2, AddToRowType
    <3>2. n \in Nat /\ row'[j] <= applied'[j]
      BY <2>1, <3>1
    <3>3. ASSUME NEW m \in held'[j] PROVE m <= applied'[j]
      <4>1. CASE m \in held[j]
        BY <2>1, <3>1, <3>2, <4>1
      <4>2. CASE m \in row[j]..(row[j] + n)
        BY <2>1, <3>1, <3>2, <4>2
      <4>3. QED
        BY <3>1, <3>3, <4>1, <4>2
    <3>4. QED
      BY <3>2, <3>3
  <2>3. CASE j # k
    BY <2>1, <2>3, AddToRowType
  <2>4. QED
    BY <2>2, <2>3
<1>5. ContainerCap'
  <2> SUFFICES ASSUME NEW d \in Containers, NEW j \in Keys
               PROVE  served'[d][j] <= Cap[j] + lost'[d][j]
    BY DEF ContainerCap
  <2>1. CASE <<d, j>> = <<c, k>>
    <3>1. served[c][k] < Cap[k] + lost[c][k]
      BY DEF Remembered
    <3>2. served[c][k] \in Nat /\ lost[c][k] \in Nat /\ Cap[k] \in Nat
      BY DEF TypeOK
    <3>3. served'[c][k] = served[c][k] + 1
      BY AnswerType
    <3>4. QED
      BY <2>1, <3>1, <3>2, <3>3
  <2>2. CASE <<d, j>> # <<c, k>>
    BY <2>2, AnswerType DEF ContainerCap
  <2>3. QED
    BY <2>1, <2>2
<1>6. QED
  BY <1>2, <1>3, <1>4, <1>5

LEMMA NextIInv == IInv /\ TypeOK' /\ [Next]_vars => IInv'
<1> SUFFICES ASSUME IInv, TypeOK', [Next]_vars
             PROVE  IInv'
  OBVIOUS
<1>1. ASSUME NEW c \in Containers, NEW k \in Keys, ReadThrough(c, k)
      PROVE  IInv'
  BY <1>1, ReadThroughIInv
<1>2. ASSUME NEW c \in Containers, NEW k \in Keys, Decide(c, k)
      PROVE  IInv'
  <2>1. \A d \in Containers, j \in Keys : Count(d, j)' = Count(d, j)
    BY <1>2 DEF Decide, Count
  <2>2. Count(c, k) < Cap[k]
    BY <1>2, CountType DEF IInv, Decide, Capped
  <2>3. Remembered'
    <3> SUFFICES ASSUME NEW d \in Containers, NEW j \in Keys
                 PROVE  /\ served'[d][j] <= Count(d, j)' + lost'[d][j]
                        /\ serving'[d] = j => served'[d][j] < Cap[j] + lost'[d][j]
      BY DEF Remembered
    <3>1. /\ served' = served /\ lost' = lost
          /\ serving' = [serving EXCEPT ![c] = k]
      BY <1>2 DEF Decide
    <3>2. /\ served[d][j] <= Count(d, j) + lost[d][j]
          /\ serving[d] = j => served[d][j] < Cap[j] + lost[d][j]
      BY DEF IInv, Remembered
    <3>3. /\ served[d][j] \in Nat /\ lost[d][j] \in Nat /\ Cap[j] \in Nat
          /\ Count(d, j) \in Nat
      BY CountType DEF IInv, TypeOK
    <3>4. CASE d = c /\ j = k
      BY <2>1, <2>2, <3>1, <3>2, <3>3, <3>4
    <3>5. CASE d = c /\ j # k
      BY <2>1, <3>1, <3>2, <3>5 DEF IInv, TypeOK
    <3>6. CASE d # c
      BY <2>1, <3>1, <3>2, <3>6 DEF IInv, TypeOK
    <3>7. QED
      BY <3>4, <3>5, <3>6
  <2>4. ContainerCap' /\ NeverOverstates' /\ LostBounded' /\ RowRecorded'
    BY <1>2, <2>1 DEF IInv, Decide, ContainerCap, NeverOverstates, LostBounded,
                      RowRecorded
  <2>5. QED
    BY <2>3, <2>4 DEF IInv
<1>3. ASSUME NEW c \in Containers, Increment(c)
      PROVE  IInv'
  <2>1. PICK k \in Keys : serving[c] = k
    BY <1>3 DEF IInv, TypeOK, Increment
  <2>2. PICK n \in 1..Attempts : AddToRow(k, n)
    BY <1>3, <2>1 DEF Increment
  <2>3. /\ Answer(c)
        /\ cache' = [cache EXCEPT ![c][k] = Count(c, k) + 1]
        /\ lost' = lost
    BY <1>3, <2>1 DEF Increment
  <2>4. /\ Count(c, k)' = Count(c, k) + 1
        /\ \A d \in Containers, j \in Keys :
              <<d, j>> # <<c, k>> => Count(d, j)' = Count(d, j)
    BY <2>3, CountType DEF IInv, TypeOK, Count
  <2>5. lost' \in [Containers -> [Keys -> Nat]] /\ lost'[c][k] = lost[c][k] + 1 - 1
    BY <2>3 DEF IInv, TypeOK
  <2>6. Remembered' /\ ContainerCap' /\ NeverOverstates' /\ RowRecorded'
    BY <2>1, <2>2, <2>3, <2>4, <2>5, AnswerIInv
  <2>7. QED
    BY <2>3, <2>6 DEF IInv, LostBounded
<1>4. ASSUME NEW c \in Containers, IncrementFails(c)
      PROVE  IInv'
  <2>1. PICK k \in Keys : serving[c] = k
    BY <1>4 DEF IInv, TypeOK, IncrementFails
  <2>2. PICK n \in 0..Attempts : AddToRow(k, n)
    BY <1>4, <2>1 DEF IncrementFails
  <2>3. /\ Answer(c)
        /\ cache' = cache
        /\ lost[c][k] < MaxLost
        /\ lost' = [lost EXCEPT ![c][k] = @ + 1]
    BY <1>4, <2>1 DEF IncrementFails
  <2>4. \A d \in Containers, j \in Keys : Count(d, j)' = Count(d, j)
    BY <2>3 DEF Count
  <2>5. /\ lost' \in [Containers -> [Keys -> Nat]]
        /\ lost'[c][k] = lost[c][k] + 1
        /\ \A d \in Containers, j \in Keys :
              <<d, j>> # <<c, k>> => lost'[d][j] = lost[d][j]
    BY <2>3 DEF IInv, TypeOK
  <2>6. Remembered' /\ ContainerCap' /\ NeverOverstates' /\ RowRecorded'
    <3>1. Count(c, k)' = Count(c, k) + 0 /\ lost'[c][k] = lost[c][k] + 1 - 0
      BY <2>4, <2>5, CountType DEF IInv, TypeOK
    <3>2. QED
      BY <2>1, <2>2, <2>3, <2>4, <2>5, <3>1, AnswerIInv
  <2>7. LostBounded'
    BY <2>3, <2>5 DEF IInv, TypeOK, LostBounded
  <2>8. QED
    BY <2>6, <2>7 DEF IInv
<1>5. ASSUME NEW c \in Containers, Recycle(c)
      PROVE  IInv'
  <2>1. /\ \A j \in Keys : Count(c, j)' = 0 /\ served'[c][j] = 0 /\ lost'[c][j] = 0
        /\ serving'[c] = None
        /\ row' = row /\ held' = held /\ applied' = applied
    BY <1>5 DEF IInv, TypeOK, Recycle, Count, Zeros, NoneCached
  <2>2. \A d \in Containers \ {c} : /\ serving'[d] = serving[d]
                                    /\ cache'[d] = cache[d]
                                    /\ served'[d] = served[d]
                                    /\ lost'[d] = lost[d]
    BY <1>5 DEF IInv, TypeOK, Recycle
  <2>3. \A d \in Containers \ {c}, j \in Keys : Count(d, j)' = Count(d, j)
    BY <2>2 DEF Count
  <2>4. Remembered'
    BY <2>1, <2>2, <2>3 DEF IInv, Remembered
  <2>5. NeverOverstates' /\ RowRecorded'
    <3>1. \A j \in Keys : applied[j] \in Nat
      BY DEF IInv, TypeOK
    <3>2. NeverOverstates'
      BY <2>1, <2>3, <3>1 DEF IInv, NeverOverstates
    <3>3. RowRecorded'
      BY <2>1 DEF IInv, RowRecorded
    <3>4. QED
      BY <3>2, <3>3
  <2>6. LostBounded' /\ ContainerCap'
    <3> SUFFICES ASSUME NEW d \in Containers, NEW j \in Keys
                 PROVE  /\ lost'[d][j] <= MaxLost
                        /\ served'[d][j] <= Cap[j] + lost'[d][j]
      BY DEF LostBounded, ContainerCap
    <3>1. CASE d = c
      BY <2>1, <3>1
    <3>2. CASE d # c
      BY <2>2, <3>2 DEF IInv, LostBounded, ContainerCap
    <3>3. QED
      BY <3>1, <3>2
  <2>7. QED
    BY <2>4, <2>5, <2>6 DEF IInv
<1>6. ASSUME NEW k \in Keys, RowExpires(k)
      PROVE  IInv'
  <2>1. \A d \in Containers, j \in Keys : Count(d, j)' = Count(d, j)
    BY <1>6 DEF RowExpires, Count
  <2>2. QED
    BY <1>6, <2>1 DEF IInv, TypeOK, RowExpires, Remembered, ContainerCap, NeverOverstates,
                      LostBounded, RowRecorded
<1>7. CASE UNCHANGED vars
  <2>1. \A d \in Containers, j \in Keys : Count(d, j)' = Count(d, j)
    BY <1>7 DEF vars, Count
  <2>2. QED
    BY <1>7, <2>1 DEF IInv, vars, Remembered, ContainerCap, NeverOverstates, LostBounded,
                      RowRecorded
<1>8. QED
  BY <1>1, <1>2, <1>3, <1>4, <1>5, <1>6, <1>7 DEF Next

LEMMA Invariance == Spec => []IInv
BY InitIInv, NextIInv, TypeCorrect, PTL DEF Spec

\* However requests interleave across containers and whatever fails or expires,
\* a container serves a key at most up to its cap plus the increments it failed
\* to record: its own cache stops it.
THEOREM ContainerCapHolds == Spec => [](Remembered /\ ContainerCap)
BY Invariance, PTL DEF IInv

\* A container that suppresses a line item has Cap recorded impressions to show
\* for it, in spite of failed writes, retried writes and expired rows.
THEOREM SuppressionRecorded == Spec => []NeverOverstates
BY Invariance, PTL DEF IInv

------------------------------------------------------------------------------
\* The sum of a function of numbers, as the number of its units: f[x] pairs for
\* every x.
Units(S, f) == UNION {{x} \X (1..f[x]) : x \in S}

\* The units of one argument are as many as its value.
LEMMA UnitsOfOne ==
  ASSUME NEW x, NEW n \in Nat
  PROVE  /\ IsFiniteSet({x} \X (1..n))
         /\ Cardinality({x} \X (1..n)) = n
<1>1. IsFiniteSet({x}) /\ Cardinality({x}) = 1
  BY FS_Singleton
<1>2. IsFiniteSet(1..n) /\ Cardinality(1..n) = n
  BY FS_Interval
<1>3. Cardinality({x} \X (1..n)) = 1 * n
  BY <1>1, <1>2, FS_Product
<1>4. QED
  BY <1>1, <1>2, <1>3, FS_Product

\* Finitely many numbers have finitely many units.
LEMMA UnitsFinite ==
  ASSUME NEW S, IsFiniteSet(S), NEW f, \A x \in S : f[x] \in Nat
  PROVE  IsFiniteSet(Units(S, f))
<1> DEFINE T == {{x} \X (1..f[x]) : x \in S}
           g == [x \in S |-> {x} \X (1..f[x])]
<1>1. g \in Surjection(S, T)
  BY DEF Surjection
<1>2. IsFiniteSet(T)
  <2> HIDE DEF g, T
  <2> QED
    BY <1>1, FS_Surjection
<1>3. \A U \in T : IsFiniteSet(U)
  <2>1. \A x \in S : IsFiniteSet({x} \X (1..f[x]))
    BY UnitsOfOne
  <2>2. QED
    BY <2>1
<1>4. IsFiniteSet(UNION T)
  <2> HIDE DEF T
  <2> QED
    BY <1>2, <1>3, FS_UNION
<1>5. QED
  BY <1>4 DEF Units

\* Every number adds its own units.
LEMMA UnitsSplit ==
  ASSUME NEW S, IsFiniteSet(S), NEW f, \A x \in S : f[x] \in Nat, NEW y \in S
  PROVE  /\ Cardinality(Units(S \ {y}, f)) \in Nat
         /\ Cardinality(Units(S, f)) = Cardinality(Units(S \ {y}, f)) + f[y]
<1> DEFINE A == Units(S \ {y}, f)
           B == {y} \X (1..f[y])
<1>1. Units(S, f) = A \cup B
  BY DEF Units
<1>2. A \cap B = {}
  BY DEF Units
<1>3. IsFiniteSet(A)
  <2>1. IsFiniteSet(S \ {y})
    BY FS_Subset
  <2>2. QED
    BY <2>1, UnitsFinite
<1>4. IsFiniteSet(B) /\ Cardinality(B) = f[y]
  BY UnitsOfOne
<1> HIDE DEF A, B
<1>5. /\ Cardinality(A \cup B) = Cardinality(A) + Cardinality(B) - Cardinality(A \cap B)
      /\ Cardinality(A) \in Nat
  BY <1>3, <1>4, FS_Union, FS_CardinalityType
<1>6. Cardinality(A \cap B) = 0
  BY <1>2, FS_EmptySet
<1>7. QED
  BY <1>1, <1>4, <1>5, <1>6 DEF A

\* Changing one number changes the sum by as much.
LEMMA UnitsChange ==
  ASSUME NEW S, IsFiniteSet(S), NEW y \in S,
         NEW f, \A x \in S : f[x] \in Nat,
         NEW g, \A x \in S : g[x] \in Nat,
         \A x \in S \ {y} : g[x] = f[x]
  PROVE  /\ Cardinality(Units(S, f)) \in Nat
         /\ Cardinality(Units(S, g)) \in Nat
         /\ Cardinality(Units(S, g)) + f[y] = Cardinality(Units(S, f)) + g[y]
<1>1. Units(S \ {y}, f) = Units(S \ {y}, g)
  <2>1. \A x \in S \ {y} : {x} \X (1..f[x]) = {x} \X (1..g[x])
    OBVIOUS
  <2>2. QED
    BY <2>1 DEF Units
<1>2. /\ Cardinality(Units(S \ {y}, f)) \in Nat
      /\ Cardinality(Units(S, f)) = Cardinality(Units(S \ {y}, f)) + f[y]
  BY UnitsSplit
<1>3. Cardinality(Units(S, g)) = Cardinality(Units(S \ {y}, g)) + g[y]
  BY UnitsSplit
<1>4. f[y] \in Nat /\ g[y] \in Nat
  OBVIOUS
<1>5. QED
  BY <1>1, <1>2, <1>3, <1>4

------------------------------------------------------------------------------
\* What c may still serve of k, and what the fleet may.  The room a container
\* leaves behind when it is replaced is lost; that is why the account is an
\* inequality.
RoomOf(k) == [c \in Containers |-> Cap[k] + lost[c][k] - served[c][k]]
Room(k) == Cardinality(Units(Containers, RoomOf(k)))

FleetAccount ==
    \A k \in Keys :
        delivered[k] + Room(k) <= Cap[k] * (Cardinality(Containers) + recycles)
                                      + unrecorded[k]

LEMMA Times == ASSUME NEW a \in Nat, NEW b \in Nat
               PROVE  a * b \in Nat /\ a * (b + 1) = a * b + a
OBVIOUS

LEMMA RoomType ==
  ASSUME IInv, NEW k \in Keys
  PROVE  /\ \A c \in Containers : RoomOf(k)[c] \in Nat
         /\ Room(k) \in Nat
<1>1. ASSUME NEW c \in Containers
      PROVE  Cap[k] + lost[c][k] - served[c][k] \in Nat
  <2>1. served[c][k] \in Nat /\ lost[c][k] \in Nat /\ Cap[k] \in Nat
    BY DEF IInv, TypeOK
  <2>2. served[c][k] <= Cap[k] + lost[c][k]
    BY DEF IInv, ContainerCap
  <2>3. QED
    BY <2>1, <2>2
<1>2. \A c \in Containers : RoomOf(k)[c] \in Nat
  BY <1>1 DEF RoomOf
<1>3. IsFiniteSet(Units(Containers, RoomOf(k)))
  BY <1>2, ContainersAssumption, UnitsFinite
<1>4. QED
  BY <1>2, <1>3, FS_CardinalityType DEF Room

\* One container's room changes, the fleet's changes with it.
LEMMA RoomChange ==
  ASSUME IInv, IInv', NEW k \in Keys, NEW c \in Containers,
         \A d \in Containers \ {c} :
            lost'[d][k] = lost[d][k] /\ served'[d][k] = served[d][k]
  PROVE  /\ Room(k) \in Nat /\ Room(k)' \in Nat
         /\ Room(k)' + (Cap[k] + lost[c][k] - served[c][k])
              = Room(k) + (Cap[k] + lost'[c][k] - served'[c][k])
<1>1. \A d \in Containers : RoomOf(k)[d] \in Nat
  BY RoomType
<1>2. \A d \in Containers : RoomOf(k)'[d] \in Nat
  <2>1. ASSUME NEW d \in Containers
        PROVE  Cap[k] + lost'[d][k] - served'[d][k] \in Nat
    <3>1. served'[d][k] \in Nat /\ lost'[d][k] \in Nat /\ Cap[k] \in Nat
      BY DEF IInv, TypeOK
    <3>2. served'[d][k] <= Cap[k] + lost'[d][k]
      BY DEF IInv, ContainerCap
    <3>3. QED
      BY <3>1, <3>2
  <2>2. QED
    BY <2>1 DEF RoomOf
<1>3. \A d \in Containers \ {c} : RoomOf(k)'[d] = RoomOf(k)[d]
  BY DEF RoomOf
<1>4. /\ Room(k) \in Nat /\ Room(k)' \in Nat
      /\ Room(k)' + RoomOf(k)[c] = Room(k) + RoomOf(k)'[c]
  BY <1>1, <1>2, <1>3, ContainersAssumption, UnitsChange DEF Room
<1>5. /\ RoomOf(k)[c] = Cap[k] + lost[c][k] - served[c][k]
      /\ RoomOf(k)'[c] = Cap[k] + lost'[c][k] - served'[c][k]
  BY DEF RoomOf
<1>6. QED
  BY <1>4, <1>5

LEMMA InitAccount == Init => FleetAccount
<1> SUFFICES ASSUME Init, NEW k \in Keys
             PROVE  delivered[k] + Room(k) <= Cap[k] * (Cardinality(Containers) + recycles)
                                                  + unrecorded[k]
  BY DEF FleetAccount
<1>1. delivered[k] = 0 /\ unrecorded[k] = 0 /\ recycles = 0 /\ Cap[k] \in Nat
  BY DEF Init, Zeros
<1>2. Units(Containers, RoomOf(k)) = Containers \X (1..Cap[k])
  <2>1. \A c \in Containers : RoomOf(k)[c] = Cap[k]
    BY <1>1 DEF Init, Zeros, RoomOf
  <2>2. Units(Containers, RoomOf(k)) = UNION {{c} \X (1..Cap[k]) : c \in Containers}
    BY <2>1 DEF Units
  <2>3. QED
    BY <2>2
<1>3. /\ IsFiniteSet(1..Cap[k]) /\ Cardinality(1..Cap[k]) = Cap[k]
      /\ Cardinality(Containers) \in Nat
  BY <1>1, ContainersAssumption, FS_Interval, FS_CardinalityType
<1>4. Room(k) = Cardinality(Containers) * Cap[k]
  BY <1>2, <1>3, ContainersAssumption, FS_Product DEF Room
<1>5. QED
  BY <1>1, <1>3, <1>4

\* An impression uses a unit of its container's room, or adds a failed increment.
LEMMA AnswerAccount ==
  ASSUME IInv, IInv', FleetAccount, NEW c \in Containers, NEW k \in Keys,
         serving[c] = k, Answer(c), recycles' = recycles,
         NEW failed \in {0, 1},
         lost' = [lost EXCEPT ![c][k] = @ + failed],
         unrecorded' = [unrecorded EXCEPT ![k] = @ + failed]
  PROVE  FleetAccount'
<1> SUFFICES ASSUME NEW j \in Keys
             PROVE  delivered'[j] + Room(j)'
                      <= Cap[j] * (Cardinality(Containers) + recycles) + unrecorded'[j]
  BY DEF FleetAccount
<1> DEFINE All == Cap[j] * (Cardinality(Containers) + recycles)
<1>1. delivered[j] + Room(j) <= All + unrecorded[j]
  BY DEF FleetAccount
<1>2. All \in Nat
  <2>1. Cardinality(Containers) \in Nat
    BY ContainersAssumption, FS_CardinalityType
  <2>2. recycles \in Nat /\ Cap[j] \in Nat
    BY DEF IInv, TypeOK
  <2>3. QED
    BY <2>1, <2>2, Times
<1> HIDE DEF All
<1>3. /\ delivered[j] \in Nat /\ unrecorded[j] \in Nat
      /\ lost[c][j] \in Nat /\ served[c][j] \in Nat /\ Cap[j] \in Nat
  BY DEF IInv, TypeOK
<1>4. \A d \in Containers \ {c} : lost'[d][j] = lost[d][j] /\ served'[d][j] = served[d][j]
  BY AnswerType DEF IInv, TypeOK
<1>5. /\ Room(j) \in Nat /\ Room(j)' \in Nat
      /\ Room(j)' + (Cap[j] + lost[c][j] - served[c][j])
           = Room(j) + (Cap[j] + lost'[c][j] - served'[c][j])
  BY <1>4, RoomChange
<1>6. CASE j = k
  <2>1. /\ served'[c][j] = served[c][j] + 1
        /\ lost'[c][j] = lost[c][j] + failed
        /\ delivered'[j] = delivered[j] + 1
        /\ unrecorded'[j] = unrecorded[j] + failed
    BY <1>6 DEF IInv, TypeOK, Answer
  <2>2. Room(j)' = Room(j) + failed - 1
    BY <1>3, <1>5, <2>1
  <2>3. QED
    BY <1>1, <1>2, <1>3, <1>5, <2>1, <2>2 DEF All
<1>7. CASE j # k
  <2>1. /\ served'[c][j] = served[c][j]
        /\ lost'[c][j] = lost[c][j]
        /\ delivered'[j] = delivered[j]
        /\ unrecorded'[j] = unrecorded[j]
    BY <1>7 DEF IInv, TypeOK, Answer
  <2>2. Room(j)' = Room(j)
    BY <1>3, <1>5, <2>1
  <2>3. QED
    BY <1>1, <2>1, <2>2 DEF All
<1>8. QED
  BY <1>6, <1>7

\* A new container comes with the room of its cap.
LEMMA RecycleAccount ==
  ASSUME IInv, IInv', FleetAccount, NEW c \in Containers, Recycle(c)
  PROVE  FleetAccount'
<1> SUFFICES ASSUME NEW j \in Keys
             PROVE  delivered'[j] + Room(j)'
                      <= Cap[j] * (Cardinality(Containers) + recycles') + unrecorded'[j]
  BY DEF FleetAccount
<1> DEFINE K == Cardinality(Containers) + recycles
           All == Cap[j] * K
<1>1. delivered[j] + Room(j) <= All + unrecorded[j]
  BY DEF FleetAccount
<1>2. K \in Nat /\ Cap[j] \in Nat /\ Cardinality(Containers) \in Nat /\ recycles \in Nat
  BY ContainersAssumption, FS_CardinalityType DEF IInv, TypeOK
<1>3. All \in Nat /\ Cap[j] * (K + 1) = All + Cap[j]
  <2> HIDE DEF K
  <2> QED
    BY <1>2, Times
<1>4. Cardinality(Containers) + recycles' = K + 1
  BY <1>2 DEF Recycle
<1> HIDE DEF K, All
<1>5. /\ delivered[j] \in Nat /\ unrecorded[j] \in Nat
      /\ lost[c][j] \in Nat /\ served[c][j] \in Nat
      /\ served[c][j] <= Cap[j] + lost[c][j]
  BY DEF IInv, TypeOK, ContainerCap
<1>6. /\ served'[c][j] = 0 /\ lost'[c][j] = 0
      /\ delivered'[j] = delivered[j] /\ unrecorded'[j] = unrecorded[j]
      /\ \A d \in Containers \ {c} :
            lost'[d][j] = lost[d][j] /\ served'[d][j] = served[d][j]
  BY DEF IInv, TypeOK, Recycle, Zeros
<1>7. /\ Room(j) \in Nat /\ Room(j)' \in Nat
      /\ Room(j)' + (Cap[j] + lost[c][j] - served[c][j])
           = Room(j) + (Cap[j] + lost'[c][j] - served'[c][j])
  BY <1>6, RoomChange
<1>8. Room(j)' <= Room(j) + Cap[j]
  BY <1>2, <1>5, <1>6, <1>7
<1>9. QED
  BY <1>1, <1>2, <1>3, <1>4, <1>5, <1>6, <1>7, <1>8

LEMMA NextAccount == IInv /\ IInv' /\ FleetAccount /\ [Next]_vars => FleetAccount'
<1> SUFFICES ASSUME IInv, IInv', FleetAccount, [Next]_vars
             PROVE  FleetAccount'
  OBVIOUS
<1>1. ASSUME UNCHANGED <<served, lost, delivered, unrecorded, recycles>>
      PROVE  FleetAccount'
  BY <1>1 DEF FleetAccount, Room, RoomOf
<1>2. ASSUME NEW c \in Containers, NEW k \in Keys, ReadThrough(c, k) \/ Decide(c, k)
      PROVE  FleetAccount'
  BY <1>1, <1>2 DEF ReadThrough, Decide
<1>3. ASSUME NEW c \in Containers, Increment(c)
      PROVE  FleetAccount'
  <2>1. PICK k \in Keys : serving[c] = k
    BY <1>3 DEF IInv, TypeOK, Increment
  <2>2. /\ Answer(c) /\ recycles' = recycles
        /\ lost' = [lost EXCEPT ![c][k] = @ + 0]
        /\ unrecorded' = [unrecorded EXCEPT ![k] = @ + 0]
    BY <1>3, <2>1 DEF IInv, TypeOK, Increment
  <2>3. QED
    BY <2>1, <2>2, AnswerAccount
<1>4. ASSUME NEW c \in Containers, IncrementFails(c)
      PROVE  FleetAccount'
  <2>1. PICK k \in Keys : serving[c] = k
    BY <1>4 DEF IInv, TypeOK, IncrementFails
  <2>2. /\ Answer(c) /\ recycles' = recycles
        /\ lost' = [lost EXCEPT ![c][k] = @ + 1]
        /\ unrecorded' = [unrecorded EXCEPT ![k] = @ + 1]
    BY <1>4, <2>1 DEF IncrementFails
  <2>3. QED
    BY <2>1, <2>2, AnswerAccount
<1>5. ASSUME NEW c \in Containers, Recycle(c)
      PROVE  FleetAccount'
  BY <1>5, RecycleAccount
<1>6. ASSUME NEW k \in Keys, RowExpires(k)
      PROVE  FleetAccount'
  BY <1>1, <1>6 DEF RowExpires
<1>7. CASE UNCHANGED vars
  BY <1>1, <1>7 DEF vars
<1>8. QED
  BY <1>2, <1>3, <1>4, <1>5, <1>6, <1>7 DEF Next

\* However requests spread over the fleet and whatever fails, a session sees a
\* line item at most cap times per container the fleet ever ran, and once more
\* per increment that was not recorded.
THEOREM FleetCapHolds == Spec => []FleetCap
<1>1. IInv /\ FleetAccount => FleetCap
  <2> SUFFICES ASSUME IInv, FleetAccount, NEW k \in Keys
               PROVE  delivered[k] <= Cap[k] * (Cardinality(Containers) + recycles)
                                          + unrecorded[k]
    BY DEF FleetCap
  <2>1. Room(k) \in Nat /\ delivered[k] \in Nat /\ unrecorded[k] \in Nat
    BY RoomType DEF IInv, TypeOK
  <2>2. Cap[k] * (Cardinality(Containers) + recycles) \in Nat
    <3>1. Cardinality(Containers) + recycles \in Nat /\ Cap[k] \in Nat
      BY ContainersAssumption, FS_CardinalityType DEF IInv, TypeOK
    <3>2. QED
      BY <3>1, Times
  <2>3. QED
    BY <2>1, <2>2 DEF FleetAccount
<1>2. QED
  BY <1>1, InitAccount, NextAccount, Invariance, PTL DEF Spec

------------------------------------------------------------------------------
\* An answer is a delivery of the abstract session cap of its container.
LEMMA AnswerDelivers ==
  ASSUME IInv, TypeOK', NEW c \in Containers, NEW k \in Keys, serving[c] = k,
         Answer(c), served[c][k] < Cap[k] + MaxLost
  PROVE  Promise!Deliver(<<c, k>>)
<1> DEFINE M == [ck \in Containers \X Keys |-> served[ck[1]][ck[2]]]
<1> DEFINE N == [ck \in Containers \X Keys |-> served'[ck[1]][ck[2]]]
<1>1. <<c, k>> \in Containers \X Keys
  OBVIOUS
<1>2. /\ served'[c][k] = served[c][k] + 1
      /\ \A d \in Containers, j \in Keys :
            <<d, j>> # <<c, k>> => served'[d][j] = served[d][j]
  BY AnswerType DEF IInv
<1>3. N = [M EXCEPT ![<<c, k>>] = @ + 1]
  <2> SUFFICES ASSUME NEW ck \in Containers \X Keys
               PROVE  N[ck] = IF ck = <<c, k>> THEN M[<<c, k>>] + 1 ELSE M[ck]
    OBVIOUS
  <2>1. PICK d \in Containers, j \in Keys : ck = <<d, j>>
    OBVIOUS
  <2>2. N[ck] = served'[d][j] /\ M[ck] = served[d][j] /\ M[<<c, k>>] = served[c][k]
    BY <2>1
  <2>3. QED
    BY <1>2, <2>1, <2>2
<1>4. M[<<c, k>>] < Cap[k] + MaxLost
  BY <1>1
<1>5. QED
  BY <1>1, <1>3, <1>4 DEF Promise!Deliver

\* A container that answers has room for the impression.
LEMMA RoomToServe ==
  ASSUME IInv, NEW c \in Containers, NEW k \in Keys, serving[c] = k
  PROVE  served[c][k] < Cap[k] + lost[c][k]
BY DEF IInv, Remembered

\* Every container keeps the abstract promise of a session cap: an answered
\* request is a delivery, a replaced container a new window, and everything
\* else, the row's expiry included, stutters.
THEOREM Refinement == Spec => ImplementsSessionCap
<1>1. Init => Promise!Init
  BY DEF Init, Zeros, Promise!Init
<1>2. IInv /\ TypeOK' /\ [Next]_vars =>
      [Promise!Next]_[ck \in Containers \X Keys |-> served[ck[1]][ck[2]]]
  <2> SUFFICES ASSUME IInv, TypeOK', [Next]_vars
               PROVE  Promise!Next \/ UNCHANGED served
    OBVIOUS
  <2>1. ASSUME NEW c \in Containers, NEW k \in Keys, serving[c] = k, Answer(c),
               lost[c][k] <= MaxLost
        PROVE  Promise!Next
    <3>1. lost[c][k] \in Nat /\ served[c][k] \in Nat /\ Cap[k] \in Nat
      BY DEF IInv, TypeOK
    <3>2. served[c][k] < Cap[k] + MaxLost
      BY <2>1, <3>1, RoomToServe
    <3>3. Promise!Deliver(<<c, k>>)
      BY <2>1, <3>2, AnswerDelivers
    <3>4. QED
      BY <3>3 DEF Promise!Next
  <2>2. ASSUME NEW c \in Containers, NEW k \in Keys, ReadThrough(c, k) \/ Decide(c, k)
        PROVE  UNCHANGED served
    BY <2>2 DEF ReadThrough, Decide
  <2>3. ASSUME NEW c \in Containers, Increment(c) \/ IncrementFails(c)
        PROVE  Promise!Next
    <3>1. PICK k \in Keys : serving[c] = k
      BY <2>3 DEF IInv, TypeOK, Increment, IncrementFails
    <3>2. Answer(c)
      BY <2>3 DEF Increment, IncrementFails
    <3>3. lost[c][k] <= MaxLost
      BY DEF IInv, LostBounded
    <3>4. QED
      BY <2>1, <3>1, <3>2, <3>3
  <2>4. ASSUME NEW c \in Containers, Recycle(c)
        PROVE  Promise!Next
    <3>1. served' = [served EXCEPT ![c] = Zeros]
      BY <2>4 DEF Recycle
    <3>2. {c} \X Keys \in SUBSET (Containers \X Keys)
      OBVIOUS
    <3>3. Promise!WindowEnds({c} \X Keys)
      BY <3>1 DEF IInv, TypeOK, Zeros, Promise!WindowEnds
    <3>4. QED
      BY <3>2, <3>3 DEF Promise!Next
  <2>5. ASSUME NEW k \in Keys, RowExpires(k)
        PROVE  UNCHANGED served
    BY <2>5 DEF RowExpires
  <2>6. CASE UNCHANGED vars
    BY <2>6 DEF vars
  <2>7. QED
    BY <2>2, <2>3, <2>4, <2>5, <2>6 DEF Next
<1>3. QED
  BY <1>1, <1>2, Invariance, TypeCorrect, PTL
  DEF Spec, ImplementsSessionCap, Promise!Spec
==============================================================================
