-------------------------- MODULE DynamoBudgetProofs --------------------------
(***************************************************************************)
(* For any fleet, any line items and budgets, and any failures of          *)
(* DynamoDB: no line item is held back for money nobody charged, except    *)
(* that yesterday's spend may hold it back within ttl of midnight; and     *)
(* none whose budget is spent is served for longer than ttl and the lag of *)
(* a read, except by decisions that did not get its spend from the row:    *)
(* the read failed, or a charge had begun the cached entry.                *)
(*                                                                         *)
(* Neither bound is inductive.  Both are about a decision, which acts on   *)
(* what it read a moment ago, from a cache that was filled a while ago:    *)
(* the first needs to know how old a cache that dates from yesterday is    *)
(* (CrossedIsOld), the second how long ago an entry was true               *)
(* (CacheStaleness); and both what that says of the spends a decision      *)
(* already holds (SeenFalse, SeenStaleness), which may be one tick older.  *)
(***************************************************************************)
EXTENDS DynamoBudget, TLAPS

\* A window that began before midnight is at least as old as the day.
CrossedIsOld == \A c \in crossed : age[c] < TTL => sinceMidnight <= age[c]

\* What a decision holds against a line item that has budget left is the spend
\* of yesterday, read within the window.
SeenFalse ==
    \A c \in Containers : \A i \in 1..Len(seen[c]) :
        seen[c][i] >= Budget[i] /\ row[i] < Budget[i] =>
            /\ sinceMidnight <= TTL
            /\ c \notin straddling => sinceMidnight < TTL

\* The clock of an exhausted budget runs only while it is exhausted.
OverOnlyWhenSpent == \A i \in Items : row[i] < Budget[i] => over[i] = 0

\* An entry that leaves room in a budget that has none was true no longer ago
\* than its window is old and a read may be behind.
CacheStaleness ==
    \A c \in Containers : \A i \in Items \ partial[c] :
        /\ cache[c][i] # None
        /\ cache[c][i] < Budget[i]
        /\ row[i] >= Budget[i]
        /\ age[c] < TTL
        => over[i] <= age[c] + ReadLag

SeenStaleness ==
    \A c \in Containers : \A i \in 1..Len(seen[c]) :
        i \notin blind[c] /\ seen[c][i] < Budget[i] /\ row[i] >= Budget[i] =>
            /\ over[i] <= Late
            /\ c \notin straddling => over[i] < Late

Held == NeverAhead /\ CrossedIsOld /\ SeenFalse
Served == OverOnlyWhenSpent /\ CacheStaleness /\ SeenStaleness

USE ItemsAssumption, BudgetAssumption, TTLAssumption, ReadLagAssumption,
    AttemptsAssumption, BeaconsAssumption, NoneAssumption DEF Late

------------------------------------------------------------------------------
\* What cachedSpend leaves behind.
LEMMA CachedSpendType ==
  ASSUME TypeOK, NEW c \in Containers, CachedSpend(c)
  PROVE  /\ age' \in [Containers -> 0..TTL]
         /\ crossed' \subseteq Containers
         /\ partial' \in [Containers -> SUBSET Items]
         /\ Kept(c) \in [Items -> Nat \cup {None}]
<1>1. Kept(c) \in [Items -> Nat \cup {None}]
  BY DEF TypeOK, Kept, NoneCached
<1>2. CASE Expired(c)
  <2>1. /\ age' = [age EXCEPT ![c] = 0]
        /\ crossed' = crossed \ {c}
        /\ partial' = [partial EXCEPT ![c] = {}]
    BY <1>2 DEF CachedSpend
  <2>2. 0 \in 0..TTL /\ {} \in SUBSET Items
    OBVIOUS
  <2>3. QED
    BY <1>1, <2>1, <2>2 DEF TypeOK
<1>3. CASE ~Expired(c)
  BY <1>1, <1>3 DEF TypeOK, CachedSpend
<1>4. QED
  BY <1>2, <1>3

\* A Decide that goes on looking holds one spend more.
LEMMA LookingType ==
  ASSUME TypeOK, NEW c \in Containers, NEW i \in Items, Looking(c, i), NEW v \in Nat,
         seen' = [seen EXCEPT ![c] = Append(@, v)]
  PROVE  /\ seen' \in [Containers -> Seq(Nat)]
         /\ \A d \in Containers : Len(seen'[d]) <= N
         /\ Len(seen[c]) \in Nat
         /\ Len(seen'[c]) = Len(seen[c]) + 1
         /\ i = Len(seen'[c])
         /\ seen'[c][i] = v
         /\ \A j \in 1..Len(seen[c]) : seen'[c][j] = seen[c][j]
         /\ \A d \in Containers \ {c} : seen'[d] = seen[d]
<1>1. seen[c] \in Seq(Nat) /\ Len(seen[c]) \in Nat
  BY DEF TypeOK
<1>2. seen'[c] = Append(seen[c], v)
  BY DEF TypeOK
<1>3. /\ Append(seen[c], v) \in Seq(Nat)
      /\ Len(Append(seen[c], v)) = Len(seen[c]) + 1
      /\ Append(seen[c], v)[Len(seen[c]) + 1] = v
      /\ \A j \in 1..Len(seen[c]) : Append(seen[c], v)[j] = seen[c][j]
  BY <1>1
<1>4. \A d \in Containers \ {c} : seen'[d] = seen[d]
  BY DEF TypeOK
<1>5. seen' \in [Containers -> Seq(Nat)]
  BY <1>3 DEF TypeOK
<1>6. i = Len(seen[c]) + 1 /\ Len(seen[c]) < N
  BY DEF Looking
<1>7. \A d \in Containers : Len(seen'[d]) <= N
  BY <1>1, <1>2, <1>3, <1>4, <1>6 DEF TypeOK, Items
<1>8. QED
  BY <1>1, <1>2, <1>3, <1>4, <1>5, <1>6, <1>7

\* Type correctness under every interleaving, failure and passage of time.
THEOREM TypeCorrect == Spec => []TypeOK
<1>1. Init => TypeOK
  BY DEF Init, TypeOK, Zeros, NoneCached
<1>2. TypeOK /\ [Next]_vars => TypeOK'
  <2> SUFFICES ASSUME TypeOK, [Next]_vars
               PROVE  TypeOK'
    OBVIOUS
  <2>1. ASSUME NEW c \in Containers, NEW i \in Items, SpendCached(c, i)
        PROVE  TypeOK'
    <3>1. Kept(c)[i] \in Nat
      BY <2>1, CachedSpendType DEF SpendCached
    <3>2. /\ seen' \in [Containers -> Seq(Nat)]
          /\ \A d \in Containers : Len(seen'[d]) <= N
      BY <2>1, <3>1, LookingType DEF SpendCached
    <3>3. blind' \in [Containers -> SUBSET Items]
      BY <2>1 DEF TypeOK, SpendCached
    <3>4. QED
      BY <2>1, <3>2, <3>3, CachedSpendType DEF TypeOK, SpendCached, clocks
  <2>2. ASSUME NEW c \in Containers, NEW i \in Items, SpendRead(c, i)
        PROVE  TypeOK'
    <3>1. PICK v \in 0..row[i] :
            /\ seen' = [seen EXCEPT ![c] = Append(@, v)]
            /\ cache' = [cache EXCEPT ![c] = [Kept(c) EXCEPT ![i] = v]]
      BY <2>2 DEF SpendRead
    <3>2. v \in Nat
      BY <3>1
    <3>3. /\ seen' \in [Containers -> Seq(Nat)]
          /\ \A d \in Containers : Len(seen'[d]) <= N
      BY <2>2, <3>1, <3>2, LookingType DEF SpendRead
    <3>4. cache' \in [Containers -> [Items -> Nat \cup {None}]]
      BY <2>2, <3>1, <3>2, CachedSpendType DEF TypeOK, SpendRead
    <3>5. QED
      BY <2>2, <3>3, <3>4, CachedSpendType DEF TypeOK, SpendRead, clocks
  <2>3. ASSUME NEW c \in Containers, NEW i \in Items, SpendReadFails(c, i)
        PROVE  TypeOK'
    <3>1. /\ seen' \in [Containers -> Seq(Nat)]
          /\ \A d \in Containers : Len(seen'[d]) <= N
      BY <2>3, LookingType DEF SpendReadFails
    <3>2. cache' \in [Containers -> [Items -> Nat \cup {None}]]
      BY <2>3, CachedSpendType DEF TypeOK, SpendReadFails
    <3>3. /\ age' \in [Containers -> 0..TTL]
          /\ crossed' \subseteq Containers
          /\ partial' \in [Containers -> SUBSET Items]
      BY <2>3, CachedSpendType DEF SpendReadFails
    <3>4. blind' \in [Containers -> SUBSET Items]
      BY <2>3 DEF TypeOK, SpendReadFails
    <3>5. UNCHANGED <<row, beacons, served, days, sinceMidnight, over, straddling>>
      BY <2>3 DEF SpendReadFails, clocks
    <3>6. QED
      BY <3>1, <3>2, <3>3, <3>4, <3>5 DEF TypeOK
  <2>4. ASSUME NEW c \in Containers, Concluding(c),
               beacons' \in [Items -> Nat], served' \in [Items -> Nat]
        PROVE  TypeOK'
    BY <2>4 DEF TypeOK, Concluding, clocks
  <2>5. ASSUME NEW c \in Containers, NEW i \in Items, Serve(c, i)
        PROVE  TypeOK'
    <3>1. beacons' \in [Items -> Nat] /\ served' \in [Items -> Nat]
      BY <2>5 DEF TypeOK, Serve
    <3>2. QED
      BY <2>4, <2>5, <3>1 DEF Serve
  <2>6. ASSUME NEW c \in Containers, ServeOther(c)
        PROVE  TypeOK'
    BY <2>4, <2>6 DEF TypeOK, ServeOther
  <2>7. ASSUME NEW c \in Containers, NEW i \in Items, NEW n \in Nat, Charging(c, i, n),
               cache' \in [Containers -> [Items -> Nat \cup {None}]],
               partial' \in [Containers -> SUBSET Items]
        PROVE  TypeOK'
    <3>1. row' \in [Items -> Nat] /\ beacons' \in [Items -> Nat]
      BY <2>7 DEF TypeOK, Charging
    <3>2. /\ UNCHANGED <<age, seen, served, crossed, blind, straddling>>
          /\ UNCHANGED <<days, sinceMidnight, over>>
      BY <2>7 DEF Charging, clocks
    <3>3. QED
      BY <2>7, <3>1, <3>2 DEF TypeOK
  <2>8. ASSUME NEW c \in Containers, NEW i \in Items, AddSpend(c, i)
        PROVE  TypeOK'
    <3>1. cache' \in [Containers -> [Items -> Nat \cup {None}]]
      BY <2>8 DEF TypeOK, AddSpend
    <3>2. partial' \in [Containers -> SUBSET Items]
      BY <2>8 DEF TypeOK, AddSpend
    <3>3. PICK n \in 1..Attempts : Charging(c, i, n)
      BY <2>8 DEF AddSpend
    <3>4. QED
      BY <2>7, <3>1, <3>2, <3>3
  <2>9. ASSUME NEW c \in Containers, NEW i \in Items, AddSpendFails(c, i)
        PROVE  TypeOK'
    <3>1. PICK n \in 0..Attempts : Charging(c, i, n)
      BY <2>9 DEF AddSpendFails
    <3>2. /\ cache' \in [Containers -> [Items -> Nat \cup {None}]]
          /\ partial' \in [Containers -> SUBSET Items]
      BY <2>9 DEF TypeOK, AddSpendFails
    <3>3. n \in Nat
      OBVIOUS
    <3>4. QED
      BY <2>7, <3>1, <3>2, <3>3
  <2>10. ASSUME NEW c \in Containers, Recycle(c)
         PROVE  TypeOK'
    BY <2>10 DEF TypeOK, Recycle, clocks, NoneCached
  <2>11. CASE Tick
    BY <2>11 DEF TypeOK, Tick
  <2>12. CASE Midnight
    BY <2>12 DEF TypeOK, Midnight, Zeros
  <2>13. CASE UNCHANGED vars
    BY <2>13 DEF TypeOK, vars, clocks
  <2>14. QED
    BY <2>1, <2>2, <2>3, <2>5, <2>6, <2>8, <2>9, <2>10, <2>11, <2>12, <2>13 DEF Next
<1>3. QED
  BY <1>1, <1>2, PTL DEF Spec

------------------------------------------------------------------------------
\* What a Decide newly holds is all that SeenFalse and SeenStaleness ask about.
LEMMA LookHeld ==
  ASSUME TypeOK, SeenFalse, NEW c \in Containers, NEW i \in Items, Looking(c, i),
         NEW v \in Nat, seen' = [seen EXCEPT ![c] = Append(@, v)],
         UNCHANGED <<row, sinceMidnight, straddling>>,
         v >= Budget[i] /\ row[i] < Budget[i] => sinceMidnight < TTL
  PROVE  SeenFalse'
<1> SUFFICES ASSUME NEW d \in Containers, NEW j \in 1..Len(seen'[d]),
                    seen'[d][j] >= Budget[j], row[j] < Budget[j]
             PROVE  sinceMidnight <= TTL /\ (d \notin straddling => sinceMidnight < TTL)
  BY DEF SeenFalse
<1>1. CASE d # c
  BY <1>1, LookingType DEF SeenFalse
<1>2. CASE d = c /\ j \in 1..Len(seen[c])
  BY <1>2, LookingType DEF SeenFalse
<1>3. CASE d = c /\ j \notin 1..Len(seen[c])
  <2>1. j = i
    <3>1. j \in 1..(Len(seen[c]) + 1) /\ Len(seen[c]) \in Nat
      BY <1>3, LookingType
    <3>2. QED
      BY <1>3, <3>1 DEF Looking
  <2>2. seen'[d][j] = v
    BY <1>3, <2>1, LookingType
  <2>3. sinceMidnight < TTL
    BY <2>1, <2>2
  <2>4. sinceMidnight \in Nat
    BY DEF TypeOK
  <2>5. QED
    BY <2>3, <2>4
<1>4. QED
  BY <1>1, <1>2, <1>3

LEMMA LookServed ==
  ASSUME TypeOK, SeenStaleness, NEW c \in Containers, NEW i \in Items, Looking(c, i),
         NEW v \in Nat, seen' = [seen EXCEPT ![c] = Append(@, v)],
         UNCHANGED <<row, over, straddling>>,
         \A d \in Containers : blind[d] \subseteq blind'[d],
         i \notin blind'[c] /\ v < Budget[i] /\ row[i] >= Budget[i] => over[i] < Late
  PROVE  SeenStaleness'
<1>0. /\ Len(seen[c]) \in Nat /\ Len(seen'[c]) = Len(seen[c]) + 1
      /\ seen'[c][i] = v
      /\ \A j \in 1..Len(seen[c]) : seen'[c][j] = seen[c][j]
      /\ \A d \in Containers \ {c} : seen'[d] = seen[d]
  BY LookingType, Zenon
<1> SUFFICES ASSUME NEW d \in Containers, NEW j \in 1..Len(seen'[d]),
                    j \notin blind'[d], seen'[d][j] < Budget[j], row[j] >= Budget[j]
             PROVE  over[j] <= Late /\ (d \notin straddling => over[j] < Late)
  BY DEF SeenStaleness
<1>1. CASE d # c
  BY <1>0, <1>1 DEF SeenStaleness
<1>2. CASE d = c /\ j \in 1..Len(seen[c])
  BY <1>0, <1>2 DEF SeenStaleness
<1>3. CASE d = c /\ j \notin 1..Len(seen[c])
  <2>1. j = i
    <3>1. j \in 1..(Len(seen[c]) + 1) /\ Len(seen[c]) \in Nat
      BY <1>0, <1>3
    <3>2. QED
      BY <1>3, <3>1 DEF Looking
  <2>2. over[j] < Late /\ over[j] \in Nat
    <3>1. over[i] < Late
      <4>1. i \notin blind'[c] /\ seen'[c][i] < Budget[i] /\ row[i] >= Budget[i]
        BY <1>3, <2>1
      <4>2. v < Budget[i]
        BY <1>0, <4>1
      <4>3. QED
        BY <4>1, <4>2
    <3>2. over[i] \in Nat
      BY DEF TypeOK
    <3>3. QED
      BY <2>1, <3>1, <3>2
  <2>3. QED
    BY <2>2
<1>4. QED
  BY <1>1, <1>2, <1>3

\* A read that misses leaves a cache whose entries are kept ones, or the one
\* that was just read, which is no more than today's row and leaves room in a
\* budget only if there was some a lag ago; either way it holds what Held and
\* Served ask of caches.
LEMMA MissHeldServed ==
  ASSUME TypeOK, TypeOK', Held, Served, NEW c \in Containers, NEW i \in Items,
         CachedSpend(c), NEW e \in Nat \cup {None}, e # None => e <= row[i],
         e # None /\ e < Budget[i] /\ row[i] >= Budget[i] => over[i] <= ReadLag,
         cache' = [cache EXCEPT ![c] = [Kept(c) EXCEPT ![i] = e]],
         UNCHANGED <<row, clocks>>
  PROVE  NeverAhead' /\ CrossedIsOld' /\ OverOnlyWhenSpent' /\ CacheStaleness'
<1>0. /\ \A d \in Containers \ {c} : /\ cache'[d] = cache[d]
                                     /\ age'[d] = age[d]
                                     /\ partial'[d] = partial[d]
                                     /\ d \in crossed' <=> d \in crossed
      /\ cache'[c][i] = e
      /\ \/ /\ age'[c] = 0 /\ c \notin crossed'
            /\ \A j \in Items \ {i} : cache'[c][j] = None
         \/ /\ age'[c] = age[c] /\ (c \in crossed' <=> c \in crossed)
            /\ partial'[c] = partial[c] /\ age[c] < TTL
            /\ \A j \in Items \ {i} : cache'[c][j] = cache[c][j]
  <2>1. cache'[c] = [Kept(c) EXCEPT ![i] = e] /\ Kept(c) \in [Items -> Nat \cup {None}]
    BY CachedSpendType DEF TypeOK
  <2>2. CASE Expired(c)
    <3>1. /\ age' = [age EXCEPT ![c] = 0] /\ crossed' = crossed \ {c}
          /\ partial' = [partial EXCEPT ![c] = {}]
      BY <2>2 DEF CachedSpend
    <3>2. cache'[c] = [NoneCached EXCEPT ![i] = e]
      BY <2>1, <2>2 DEF Kept
    <3>3. cache'[c][i] = e /\ \A j \in Items \ {i} : cache'[c][j] = None
      BY <3>2 DEF NoneCached
    <3>4. \A d \in Containers \ {c} : cache'[d] = cache[d]
      BY DEF TypeOK
    <3>5. QED
      BY <3>1, <3>3, <3>4 DEF TypeOK
  <2>3. CASE ~Expired(c)
    <3>1. age[c] < TTL
      BY <2>3 DEF TypeOK, Expired
    <3>2. QED
      BY <2>1, <2>3, <3>1 DEF TypeOK, CachedSpend, Kept
  <2>4. QED
    BY <2>2, <2>3
<1> USE DEF Held, Served
<1>1. NeverAhead'
  <2> SUFFICES ASSUME NEW d \in Containers, d \notin crossed', NEW j \in Items,
                      cache'[d][j] # None
               PROVE  cache'[d][j] <= row[j]
    BY DEF NeverAhead
  <2>1. row[j] \in Nat
    BY DEF TypeOK
  <2>2. CASE d # c
    BY <2>2, <1>0 DEF NeverAhead
  <2>3. CASE d = c /\ j = i
    BY <2>1, <2>3, <1>0
  <2>4. CASE d = c /\ j # i
    BY <2>4, <1>0 DEF NeverAhead
  <2>5. QED
    BY <2>2, <2>3, <2>4
<1>2. CrossedIsOld'
  <2> SUFFICES ASSUME NEW d \in crossed', age'[d] < TTL
               PROVE  sinceMidnight <= age'[d]
    BY DEF CrossedIsOld, clocks
  <2>1. d \in Containers
    BY CachedSpendType
  <2>2. CASE d # c
    BY <2>1, <2>2, <1>0 DEF CrossedIsOld
  <2>3. CASE d = c
    BY <2>3, <1>0 DEF CrossedIsOld
  <2>4. QED
    BY <2>2, <2>3
<1>3. OverOnlyWhenSpent'
  BY DEF OverOnlyWhenSpent, clocks
<1>4. CacheStaleness'
  <2> SUFFICES ASSUME NEW d \in Containers, NEW j \in Items, j \notin partial'[d],
                      cache'[d][j] # None, cache'[d][j] < Budget[j],
                      row[j] >= Budget[j], age'[d] < TTL
               PROVE  over[j] <= age'[d] + ReadLag
    BY DEF CacheStaleness, clocks
  <2>1. CASE d # c
    BY <2>1, <1>0 DEF CacheStaleness
  <2>2. CASE d = c /\ j = i
    <3>1. over[j] <= ReadLag /\ over[j] \in Nat
      BY <2>2, <1>0 DEF TypeOK
    <3>2. age'[d] \in Nat
      BY DEF TypeOK
    <3>3. QED
      BY <3>1, <3>2
  <2>3. CASE d = c /\ j # i
    BY <2>3, <1>0 DEF CacheStaleness
  <2>4. QED
    BY <2>1, <2>2, <2>3
<1>5. QED
  BY <1>1, <1>2, <1>3, <1>4

\* A charge raises the row at least as much as the cache, and starts an entry
\* it does not find as a partial one.
LEMMA ChargeHeldServed ==
  ASSUME TypeOK, Held, Served, NEW c \in Containers, NEW i \in Items,
         NEW n \in Nat, Charging(c, i, n),
         cache' \in [Containers -> [Items -> Nat \cup {None}]],
         \A d \in Containers, j \in Items :
            <<d, j>> # <<c, i>> => cache'[d][j] = cache[d][j],
         partial' \in [Containers -> SUBSET Items],
         \A d \in Containers : partial[d] \subseteq partial'[d],
         \/ cache'[c][i] = cache[c][i]
         \/ cache[c][i] = None /\ cache'[c][i] = 1 /\ n >= 1 /\ i \in partial'[c]
         \/ cache[c][i] # None /\ cache'[c][i] = cache[c][i] + 1 /\ n >= 1
  PROVE  Held' /\ Served'
<1> USE DEF Held, Served
<1>1. /\ row'[i] = row[i] + n
      /\ \A j \in Items \ {i} : row'[j] = row[j]
      /\ \A j \in Items : row[j] \in Nat /\ Budget[j] \in Nat
      /\ \A d \in Containers, j \in Items : cache[d][j] \in Nat \cup {None}
      /\ UNCHANGED <<age, seen, sinceMidnight, over, crossed, blind, straddling>>
  BY DEF TypeOK, Charging, clocks
<1>2. \A j \in Items : /\ row'[j] \in Nat
                       /\ row'[j] < Budget[j] => row[j] < Budget[j]
                       /\ row[j] < Budget[j] => over[j] = 0
                       /\ row'[j] >= row[j]
  BY <1>1 DEF OverOnlyWhenSpent
<1>3. NeverAhead'
  <2> SUFFICES ASSUME NEW d \in Containers \ crossed, NEW j \in Items,
                      cache'[d][j] # None
               PROVE  cache'[d][j] <= row'[j]
    BY <1>1 DEF NeverAhead
  <2>1. cache[d][j] # None => cache[d][j] <= row[j]
    BY DEF NeverAhead
  <2>2. CASE <<d, j>> # <<c, i>>
    BY <1>1, <1>2, <2>1, <2>2
  <2>3. CASE <<d, j>> = <<c, i>>
    BY <1>1, <2>1, <2>3
  <2>4. QED
    BY <2>2, <2>3
<1>4. CrossedIsOld'
  BY <1>1 DEF CrossedIsOld
<1>5. SeenFalse'
  <2> SUFFICES ASSUME NEW d \in Containers, NEW j \in 1..Len(seen[d]),
                      seen[d][j] >= Budget[j], row'[j] < Budget[j]
               PROVE  sinceMidnight <= TTL /\ (d \notin straddling => sinceMidnight < TTL)
    BY <1>1 DEF SeenFalse
  <2>1. j \in Items
    BY DEF TypeOK, Items
  <2>2. QED
    BY <1>2, <2>1 DEF SeenFalse
<1>6. OverOnlyWhenSpent'
  BY <1>1, <1>2 DEF OverOnlyWhenSpent
<1>7. CacheStaleness'
  <2> SUFFICES ASSUME NEW d \in Containers, NEW j \in Items, j \notin partial'[d],
                      cache'[d][j] # None, cache'[d][j] < Budget[j],
                      row'[j] >= Budget[j], age[d] < TTL
               PROVE  over[j] <= age[d] + ReadLag
    BY <1>1 DEF CacheStaleness
  <2>1. age[d] \in Nat /\ j \notin partial[d]
    BY DEF TypeOK
  <2>2. CASE row[j] < Budget[j]
    BY <1>2, <2>1, <2>2
  <2>3. CASE ~(row[j] < Budget[j])
    <3>1. row[j] >= Budget[j]
      BY <1>1, <2>3
    <3>2. cache[d][j] # None /\ cache[d][j] < Budget[j]
      <4>1. CASE <<d, j>> # <<c, i>>
        BY <4>1
      <4>2. CASE <<d, j>> = <<c, i>>
        BY <1>1, <4>2
      <4>3. QED
        BY <4>1, <4>2
    <3>3. QED
      BY <2>1, <3>1, <3>2 DEF CacheStaleness
  <2>4. QED
    BY <2>2, <2>3
<1>8. SeenStaleness'
  <2> SUFFICES ASSUME NEW d \in Containers, NEW j \in 1..Len(seen[d]),
                      j \notin blind[d], seen[d][j] < Budget[j], row'[j] >= Budget[j]
               PROVE  over[j] <= Late /\ (d \notin straddling => over[j] < Late)
    BY <1>1 DEF SeenStaleness
  <2>1. j \in Items
    BY DEF TypeOK, Items
  <2>2. CASE row[j] < Budget[j]
    BY <1>2, <2>1, <2>2
  <2>3. CASE row[j] >= Budget[j]
    BY <2>3 DEF SeenStaleness
  <2>4. QED
    BY <1>1, <2>1, <2>2, <2>3
<1>9. QED
  BY <1>3, <1>4, <1>5, <1>6, <1>7, <1>8

LEMMA InitHeldServed == Init => Held /\ Served
BY DEF Init, Held, Served, NeverAhead, CrossedIsOld, SeenFalse, OverOnlyWhenSpent,
       CacheStaleness, SeenStaleness, Zeros, NoneCached

LEMMA NextHeldServed ==
  TypeOK /\ TypeOK' /\ Held /\ Served /\ [Next]_vars => Held' /\ Served'
<1> SUFFICES ASSUME TypeOK, TypeOK', Held, Served, [Next]_vars
             PROVE  Held' /\ Served'
  OBVIOUS
<1>1. ASSUME NEW c \in Containers, NEW i \in Items, SpendCached(c, i)
      PROVE  Held' /\ Served'
  <2>1. /\ Looking(c, i)
        /\ ~Expired(c) /\ cache[c][i] # None /\ Kept(c)[i] = cache[c][i]
        /\ seen' = [seen EXCEPT ![c] = Append(@, cache[c][i])]
        /\ UNCHANGED <<row, cache, over, sinceMidnight, straddling>>
    BY <1>1 DEF SpendCached, Kept, NoneCached, clocks
  <2>2. age[c] < TTL /\ UNCHANGED <<age, crossed, partial>>
    BY <1>1, <2>1 DEF TypeOK, SpendCached, CachedSpend, Expired
  <2>3. cache[c][i] \in Nat /\ row[i] \in Nat /\ Budget[i] \in Nat /\ age[c] \in Nat
    BY <2>1 DEF TypeOK
  <2>4. cache[c][i] >= Budget[i] /\ row[i] < Budget[i] => sinceMidnight < TTL
    <3> SUFFICES ASSUME cache[c][i] >= Budget[i], row[i] < Budget[i]
                 PROVE  sinceMidnight < TTL
      OBVIOUS
    <3>1. c \in crossed
      BY <2>1, <2>3 DEF Held, NeverAhead
    <3>2. sinceMidnight <= age[c] /\ sinceMidnight \in Nat
      BY <2>2, <3>1 DEF Held, CrossedIsOld, TypeOK
    <3>3. QED
      BY <2>2, <2>3, <3>2
  <2>5. SeenFalse'
    BY <2>1, <2>3, <2>4, LookHeld DEF Held
  <2>6. i \notin blind'[c] => i \notin partial[c]
    BY <1>1 DEF TypeOK, SpendCached
  <2>7. i \notin blind'[c] /\ cache[c][i] < Budget[i] /\ row[i] >= Budget[i] => over[i] < Late
    <3> SUFFICES ASSUME i \notin partial[c], cache[c][i] < Budget[i], row[i] >= Budget[i]
                 PROVE  over[i] < Late
      BY <2>6
    <3>1. over[i] <= age[c] + ReadLag /\ over[i] \in Nat
      BY <2>1, <2>2 DEF Served, CacheStaleness, TypeOK
    <3>2. QED
      BY <2>2, <2>3, <3>1
  <2>8. \A d \in Containers : blind[d] \subseteq blind'[d]
    BY <1>1 DEF TypeOK, SpendCached
  <2>9. SeenStaleness'
    BY <2>1, <2>3, <2>7, <2>8, LookServed DEF Served
  <2>10. NeverAhead' /\ CrossedIsOld' /\ OverOnlyWhenSpent' /\ CacheStaleness'
    BY <2>1, <2>2 DEF Held, Served, NeverAhead, CrossedIsOld, OverOnlyWhenSpent,
                      CacheStaleness
  <2>11. QED
    BY <2>5, <2>9, <2>10 DEF Held, Served
<1>2. ASSUME NEW c \in Containers, NEW i \in Items, SpendRead(c, i)
      PROVE  Held' /\ Served'
  <2>0. PICK v \in 0..row[i] :
            /\ v < Budget[i] /\ row[i] >= Budget[i] => over[i] <= ReadLag
            /\ cache' = [cache EXCEPT ![c] = [Kept(c) EXCEPT ![i] = v]]
            /\ seen' = [seen EXCEPT ![c] = Append(@, v)]
    BY <1>2 DEF SpendRead
  <2>1. /\ Looking(c, i) /\ CachedSpend(c)
        /\ UNCHANGED <<row, clocks>>
        /\ UNCHANGED <<row, over, sinceMidnight, straddling, blind>>
    BY <1>2 DEF SpendRead, clocks
  <2>2. /\ v \in Nat /\ v <= row[i]
        /\ ~(v >= Budget[i] /\ row[i] < Budget[i])
        /\ v < Budget[i] /\ row[i] >= Budget[i] => over[i] < Late
        /\ row' = row /\ over' = over /\ sinceMidnight' = sinceMidnight
        /\ straddling' = straddling /\ blind' = blind
    <3>1. row[i] \in Nat /\ Budget[i] \in Nat /\ over[i] \in Nat
      BY DEF TypeOK
    <3>2. QED
      BY <2>0, <2>1, <3>1
  <2>3. NeverAhead' /\ CrossedIsOld' /\ OverOnlyWhenSpent' /\ CacheStaleness'
    BY <2>0, <2>1, <2>2, MissHeldServed
  <2>4. SeenFalse'
    BY <2>0, <2>1, <2>2, LookHeld DEF Held
  <2>5. SeenStaleness'
    BY <2>0, <2>1, <2>2, LookServed DEF Served
  <2>6. QED
    BY <2>3, <2>4, <2>5 DEF Held, Served
<1>3. ASSUME NEW c \in Containers, NEW i \in Items, SpendReadFails(c, i)
      PROVE  Held' /\ Served'
  <2>1. /\ Looking(c, i) /\ CachedSpend(c)
        /\ Kept(c)[i] = None
        /\ cache' = [cache EXCEPT ![c] = Kept(c)]
        /\ seen' = [seen EXCEPT ![c] = Append(@, 0)]
        /\ UNCHANGED <<row, clocks>>
        /\ UNCHANGED <<row, over, sinceMidnight, straddling>>
        /\ i \in blind'[c]
        /\ \A d \in Containers : blind[d] \subseteq blind'[d]
    BY <1>3 DEF SpendReadFails, clocks, TypeOK
  <2>2. /\ 0 \in Nat /\ ~(0 >= Budget[i] /\ row[i] < Budget[i])
        /\ row' = row /\ over' = over /\ sinceMidnight' = sinceMidnight
        /\ straddling' = straddling
    BY <2>1
  <2>3. Kept(c) = [Kept(c) EXCEPT ![i] = None]
    BY <2>1, CachedSpendType
  <2>4. cache' = [cache EXCEPT ![c] = [Kept(c) EXCEPT ![i] = None]]
    BY <2>1, <2>3
  <2>5. NeverAhead' /\ CrossedIsOld' /\ OverOnlyWhenSpent' /\ CacheStaleness'
    BY <2>1, <2>4, MissHeldServed
  <2>6. SeenFalse'
    BY <2>1, <2>2, LookHeld DEF Held
  <2>7. SeenStaleness'
    BY <2>1, <2>2, LookServed DEF Served
  <2>8. QED
    BY <2>5, <2>6, <2>7 DEF Held, Served
<1>4. ASSUME NEW c \in Containers, Concluding(c)
      PROVE  Held' /\ Served'
  <2>1. /\ UNCHANGED <<row, cache, age, over, sinceMidnight, crossed, partial>>
        /\ Len(seen'[c]) = 0
        /\ \A d \in Containers \ {c} : /\ seen'[d] = seen[d]
                                       /\ blind'[d] = blind[d]
                                       /\ d \in straddling' <=> d \in straddling
    BY <1>4 DEF Concluding, TypeOK, clocks
  <2>2. SeenFalse' /\ SeenStaleness'
    BY <2>1 DEF Held, Served, SeenFalse, SeenStaleness
  <2>3. NeverAhead' /\ CrossedIsOld' /\ OverOnlyWhenSpent' /\ CacheStaleness'
    BY <2>1 DEF Held, Served, NeverAhead, CrossedIsOld, OverOnlyWhenSpent,
                CacheStaleness
  <2>4. QED
    BY <2>2, <2>3 DEF Held, Served
<1>5. ASSUME NEW c \in Containers, NEW i \in Items, AddSpend(c, i)
      PROVE  Held' /\ Served'
  <2>1. PICK n \in 1..Attempts : Charging(c, i, n)
    BY <1>5 DEF AddSpend
  <2>2. n \in Nat /\ n >= 1
    OBVIOUS
  <2>3. /\ cache' \in [Containers -> [Items -> Nat \cup {None}]]
        /\ partial' \in [Containers -> SUBSET Items]
    BY DEF TypeOK
  <2>4. \A d \in Containers, j \in Items :
            <<d, j>> # <<c, i>> => cache'[d][j] = cache[d][j]
    BY <1>5 DEF AddSpend, TypeOK
  <2>5. \A d \in Containers : partial[d] \subseteq partial'[d]
    BY <1>5 DEF AddSpend, TypeOK
  <2>6. \/ cache[c][i] = None /\ cache'[c][i] = 1 /\ i \in partial'[c]
        \/ cache[c][i] # None /\ cache'[c][i] = cache[c][i] + 1
    BY <1>5 DEF AddSpend, TypeOK
  <2>7. QED
    BY <2>1, <2>2, <2>3, <2>4, <2>5, <2>6, ChargeHeldServed
<1>6. ASSUME NEW c \in Containers, NEW i \in Items, AddSpendFails(c, i)
      PROVE  Held' /\ Served'
  <2>1. PICK n \in 0..Attempts : Charging(c, i, n)
    BY <1>6 DEF AddSpendFails
  <2>2. n \in Nat
    OBVIOUS
  <2>3. /\ cache' \in [Containers -> [Items -> Nat \cup {None}]]
        /\ partial' \in [Containers -> SUBSET Items]
        /\ cache' = cache /\ partial' = partial
    BY <1>6 DEF TypeOK, AddSpendFails
  <2>4. QED
    BY <2>1, <2>2, <2>3, ChargeHeldServed
<1>7. ASSUME NEW c \in Containers, Recycle(c)
      PROVE  Held' /\ Served'
  <2>1. /\ UNCHANGED <<row, over, sinceMidnight>>
        /\ Len(seen'[c]) = 0
        /\ \A j \in Items : cache'[c][j] = None
        /\ c \notin crossed'
        /\ \A d \in Containers \ {c} : /\ seen'[d] = seen[d]
                                       /\ blind'[d] = blind[d]
                                       /\ cache'[d] = cache[d]
                                       /\ age'[d] = age[d]
                                       /\ partial'[d] = partial[d]
                                       /\ d \in straddling' <=> d \in straddling
                                       /\ d \in crossed' <=> d \in crossed
    BY <1>7 DEF Recycle, TypeOK, clocks, NoneCached
  <2>2. SeenFalse' /\ SeenStaleness'
    BY <2>1 DEF Held, Served, SeenFalse, SeenStaleness
  <2>3. crossed' \subseteq Containers
    BY DEF TypeOK
  <2>4. NeverAhead' /\ CrossedIsOld'
    BY <2>1, <2>3 DEF Held, NeverAhead, CrossedIsOld
  <2>5. OverOnlyWhenSpent' /\ CacheStaleness'
    BY <2>1 DEF Served, OverOnlyWhenSpent, CacheStaleness
  <2>6. QED
    BY <2>2, <2>4, <2>5 DEF Held, Served
<1>8. CASE Tick
  <2>1. /\ UNCHANGED <<row, cache, seen, crossed, partial, blind>>
        /\ straddling = {}
        /\ \A d \in Containers : Len(seen[d]) # 0 => d \in straddling'
    BY <1>8 DEF Tick, Idle, TypeOK
  <2>2. \A d \in Containers : /\ age[d] \in 0..TTL
                              /\ age'[d] = IF age[d] < TTL THEN age[d] + 1 ELSE TTL
    BY <1>8 DEF Tick, TypeOK
  <2>3. /\ sinceMidnight \in 0..(TTL + 1)
        /\ sinceMidnight' = IF sinceMidnight <= TTL THEN sinceMidnight + 1
                                                    ELSE sinceMidnight
    BY <1>8 DEF Tick, TypeOK
  <2>4. \A j \in Items : /\ over[j] \in 0..(Late + 1)
                         /\ over'[j] <= over[j] + 1 /\ over'[j] \in Nat
                         /\ row[j] < Budget[j] => over'[j] = over[j]
    <3>1. \A j \in Items : row[j] \in Nat /\ Budget[j] \in Nat /\ over[j] \in 0..(Late + 1)
      BY DEF TypeOK
    <3>2. \A j \in Items : over'[j] = IF row[j] >= Budget[j] /\ over[j] <= Late
                                      THEN over[j] + 1 ELSE over[j]
      BY <1>8 DEF Tick
    <3>3. QED
      BY <3>1, <3>2
  <2>5. NeverAhead' /\ OverOnlyWhenSpent'
    BY <2>1, <2>4 DEF Held, Served, NeverAhead, OverOnlyWhenSpent
  <2>6. CrossedIsOld'
    <3> SUFFICES ASSUME NEW d \in crossed, age'[d] < TTL
                 PROVE  sinceMidnight' <= age'[d]
      BY <2>1 DEF CrossedIsOld
    <3>1. d \in Containers
      BY DEF TypeOK
    <3>2. age[d] < TTL /\ age'[d] = age[d] + 1 /\ age[d] \in Nat
      BY <2>2, <3>1
    <3>3. sinceMidnight <= age[d]
      BY <3>2 DEF Held, CrossedIsOld
    <3>4. QED
      BY <2>3, <3>2, <3>3
  <2>7. SeenFalse'
    <3> SUFFICES ASSUME NEW d \in Containers, NEW j \in 1..Len(seen[d]),
                        seen[d][j] >= Budget[j], row[j] < Budget[j]
                 PROVE  /\ sinceMidnight' <= TTL
                        /\ d \notin straddling' => sinceMidnight' < TTL
      BY <2>1 DEF SeenFalse
    <3>1. sinceMidnight < TTL
      BY <2>1 DEF Held, SeenFalse
    <3>2. d \in straddling'
      <4>1. Len(seen[d]) # 0
        BY DEF TypeOK
      <4>2. QED
        BY <2>1, <4>1
    <3>3. QED
      BY <2>3, <3>1, <3>2
  <2>8. CacheStaleness'
    <3> SUFFICES ASSUME NEW d \in Containers, NEW j \in Items, j \notin partial[d],
                        cache[d][j] # None, cache[d][j] < Budget[j],
                        row[j] >= Budget[j], age'[d] < TTL
                 PROVE  over'[j] <= age'[d] + ReadLag
      BY <2>1 DEF CacheStaleness
    <3>1. age[d] < TTL /\ age'[d] = age[d] + 1 /\ age[d] \in Nat
      BY <2>2
    <3>2. over[j] <= age[d] + ReadLag /\ over[j] \in Nat
      BY <2>4, <3>1 DEF Served, CacheStaleness
    <3>3. QED
      BY <2>4, <3>1, <3>2
  <2>9. SeenStaleness'
    <3> SUFFICES ASSUME NEW d \in Containers, NEW j \in 1..Len(seen[d]),
                        j \notin blind[d], seen[d][j] < Budget[j], row[j] >= Budget[j]
                 PROVE  /\ over'[j] <= Late
                        /\ d \notin straddling' => over'[j] < Late
      BY <2>1 DEF SeenStaleness
    <3>1. j \in Items
      BY DEF TypeOK, Items
    <3>2. over[j] < Late /\ over[j] \in Nat
      BY <2>1, <2>4, <3>1 DEF Served, SeenStaleness
    <3>3. d \in straddling'
      <4>1. Len(seen[d]) # 0
        BY DEF TypeOK
      <4>2. QED
        BY <2>1, <4>1
    <3>4. QED
      BY <2>4, <3>1, <3>2, <3>3
  <2>10. QED
    BY <2>5, <2>6, <2>7, <2>8, <2>9 DEF Held, Served
<1>9. CASE Midnight
  <2>1. /\ UNCHANGED <<cache, age, seen, partial, blind, straddling>>
        /\ sinceMidnight' = 0
        /\ crossed' = Containers
        /\ \A j \in Items : row'[j] = 0 /\ over'[j] = 0
    BY <1>9 DEF Midnight, Zeros
  <2>2. \A j \in Items : Budget[j] \in Nat /\ Budget[j] > 0
    OBVIOUS
  <2>3. NeverAhead'
    BY <2>1 DEF NeverAhead
  <2>4. CrossedIsOld'
    BY <2>1 DEF CrossedIsOld, TypeOK
  <2>5. SeenFalse'
    BY <2>1 DEF SeenFalse
  <2>6. OverOnlyWhenSpent'
    BY <2>1 DEF OverOnlyWhenSpent
  <2>7. CacheStaleness'
    BY <2>1, <2>2 DEF CacheStaleness
  <2>8. SeenStaleness'
    <3> SUFFICES ASSUME NEW d \in Containers, NEW j \in 1..Len(seen[d]),
                        row'[j] >= Budget[j]
                 PROVE  FALSE
      BY <2>1 DEF SeenStaleness
    <3>1. j \in Items
      BY DEF TypeOK, Items
    <3>2. QED
      BY <2>1, <2>2, <3>1
  <2>9. QED
    BY <2>3, <2>4, <2>5, <2>6, <2>7, <2>8 DEF Held, Served
<1>10. CASE UNCHANGED vars
  BY <1>10 DEF vars, clocks, Held, Served, NeverAhead, CrossedIsOld, SeenFalse,
               OverOnlyWhenSpent, CacheStaleness, SeenStaleness
<1>11. QED
  BY <1>1, <1>2, <1>3, <1>4, <1>5, <1>6, <1>7, <1>8, <1>9, <1>10
  DEF Next, Serve, ServeOther

LEMMA Invariance == Spec => [](TypeOK /\ Held /\ Served)
BY InitHeldServed, NextHeldServed, TypeCorrect, PTL DEF Spec

------------------------------------------------------------------------------
\* Whatever fails, no container counts money against a line item that nobody
\* charged it today, except from a cache that dates from before midnight.
THEOREM CacheNeverAhead == Spec => []NeverAhead
BY Invariance, PTL DEF Held

\* A line item with budget left is held back only by what a container read before
\* midnight, and only within ttl of midnight.
THEOREM HeldBackRightly == Spec => []FalseExhaustionBounded
<1>1. TypeOK /\ Held => FalseExhaustionBounded
  <2> SUFFICES ASSUME TypeOK, SeenFalse, NEW c \in Containers,
                      NEW i \in 1..Len(seen[c]), ~WithinBudget(c, i), row[i] < Budget[i]
               PROVE  sinceMidnight <= TTL
    BY DEF Held, FalseExhaustionBounded
  <2>1. i \in Items /\ seen[c][i] \in Nat
    <3>1. seen[c] \in Seq(Nat) /\ Len(seen[c]) \in Nat /\ Len(seen[c]) <= N
      BY DEF TypeOK
    <3>2. seen[c][i] \in Nat
      BY <3>1
    <3>3. i \in Items
      BY <3>1 DEF Items
    <3>4. QED
      BY <3>2, <3>3
  <2>2. seen[c][i] >= Budget[i]
    BY <2>1 DEF WithinBudget
  <2>3. QED
    BY <2>2 DEF SeenFalse
<1>2. QED
  BY <1>1, Invariance, PTL

------------------------------------------------------------------------------
\* The guard of DailyBudget for a decision that serves i: what SeenStaleness says
\* of what the decision holds.
LEMMA ServeMayServe ==
  ASSUME SeenStaleness, NEW c \in Containers, NEW i \in Items, Serve(c, i)
  PROVE  Promise!MayServe(c, i)
<1>1. Len(seen[c]) = N /\ seen[c][i] < Budget[i]
  BY DEF Serve, Concluding, WithinBudget
<1>2. i \in 1..Len(seen[c])
  BY <1>1 DEF Items
<1>3. QED
  BY <1>1, <1>2 DEF SeenStaleness, Promise!MayServe, Promise!Exhausted

\* A decision that gets no account of a spend forgets which it had in no other.
LEMMA LookStep ==
  ASSUME TypeOK, NEW c \in Containers, NEW i \in Items,
         SpendCached(c, i) \/ SpendRead(c, i) \/ SpendReadFails(c, i)
  PROVE  [Promise!Next]_<<row, beacons, over, blind>>
<1>1. /\ blind' = blind \/ blind' = [blind EXCEPT ![c] = @ \cup {i}]
      /\ UNCHANGED <<row, beacons, over>>
  <2>1. CASE SpendCached(c, i)
    <3>1. CASE i \in partial[c]
      BY <2>1, <3>1 DEF SpendCached, clocks
    <3>2. CASE i \notin partial[c]
      <4>1. blind' = [blind EXCEPT ![c] = blind[c]]
        BY <2>1, <3>2 DEF SpendCached
      <4>2. QED
        BY <2>1, <4>1 DEF TypeOK, SpendCached, clocks
    <3>3. QED
      BY <3>1, <3>2
  <2>2. CASE SpendRead(c, i)
    BY <2>2 DEF SpendRead, clocks
  <2>3. CASE SpendReadFails(c, i)
    BY <2>3 DEF SpendReadFails, clocks
  <2>4. QED
    BY <2>1, <2>2, <2>3
<1>2. CASE blind' = [blind EXCEPT ![c] = @ \cup {i}]
  BY <1>1, <1>2 DEF Promise!LoseSight, Promise!Next
<1>3. QED
  BY <1>1, <1>2

LEMMA ChargeStep ==
  ASSUME NEW c \in Containers, NEW i \in Items, AddSpend(c, i) \/ AddSpendFails(c, i)
  PROVE  Promise!Next
<1>1. PICK n \in 0..Attempts : Charging(c, i, n)
  BY DEF AddSpend, AddSpendFails
<1>2. Promise!Charge(i, n)
  BY <1>1 DEF Charging, clocks, Promise!Charge
<1>3. QED
  BY <1>2 DEF Promise!Next

LEMMA BudgetStep ==
  ASSUME TypeOK, SeenStaleness, [Next]_vars
  PROVE  [Promise!Next]_<<row, beacons, over, blind>>
<1>1. ASSUME NEW c \in Containers, NEW i \in Items,
             SpendCached(c, i) \/ SpendRead(c, i) \/ SpendReadFails(c, i)
      PROVE  [Promise!Next]_<<row, beacons, over, blind>>
  BY <1>1, LookStep
<1>2. ASSUME NEW c \in Containers, NEW i \in Items, Serve(c, i)
      PROVE  Promise!Next
  <2>1. Promise!Serve(c, i)
    BY <1>2, ServeMayServe DEF Serve, Concluding, clocks, Promise!Serve
  <2>2. QED
    BY <2>1 DEF Promise!Next
<1>3. ASSUME NEW c \in Containers, NEW i \in Items, AddSpend(c, i) \/ AddSpendFails(c, i)
      PROVE  Promise!Next
  BY <1>3, ChargeStep
<1>4. ASSUME NEW c \in Containers, ServeOther(c) \/ Recycle(c)
      PROVE  Promise!Next
  <2>1. Promise!PassOver(c)
    BY <1>4 DEF ServeOther, Recycle, Concluding, clocks, Promise!PassOver
  <2>2. QED
    BY <2>1 DEF Promise!Next
<1>5. CASE Tick
  BY <1>5 DEF Tick, Promise!Tick, Promise!Exhausted, Promise!Next
<1>6. CASE Midnight
  BY <1>6 DEF Midnight, Zeros, Promise!NewDay, Promise!Next
<1>7. CASE UNCHANGED vars
  BY <1>7 DEF vars, clocks
<1>8. QED
  BY <1>1, <1>2, <1>3, <1>4, <1>5, <1>6, <1>7 DEF Next

\* The fleet keeps the promise of a daily budget, the window of the cache and the lag
\* of a read for its window: a failed read, or an entry that a charge began, loses
\* sight of a spend, a decision is a serve that was allowed or none, a report is a charge of
\* at most as many updates as the SDK makes, and the caches are nobody's business.
THEOREM Refinement == Spec => ImplementsDailyBudget
<1>1. Init => Promise!Init
  BY DEF Init, Zeros, Promise!Init
<1>2. TypeOK /\ Served /\ [Next]_vars => [Promise!Next]_<<row, beacons, over, blind>>
  BY BudgetStep DEF Served
<1>3. QED
  BY <1>1, <1>2, Invariance, PTL
  DEF Spec, ImplementsDailyBudget, Promise!Spec, Promise!budgetVars

\* A charge takes a report away for what it adds at most.
LEMMA ChargeCommitsNothing ==
  ASSUME NEW s \in Nat, NEW o \in Nat, o > 0, NEW n \in 0..Attempts
  PROVE  s + n + Attempts * (o - 1) <= s + Attempts * o
<1>1. Attempts * (o - 1) = Attempts * o - Attempts
  OBVIOUS
<1>2. Attempts * o \in Nat
  OBVIOUS
<1>3. QED
  BY <1>1, <1>2

\* What a day may still cost grows only by ads that a container may serve: a budget
\* that is spent, and known to be, for longer than ttl and a read's lag costs what was out by then
\* and not more, whatever beacons arrive, twice or late or after midnight.
THEOREM CommittedWithin == Spec => CommittedWithinBudget
<1>1. ASSUME TypeOK, [Promise!Next]_<<row, beacons, over, blind>>, NEW i \in Items,
             Promise!Committed(i)' > Promise!Committed(i)
      PROVE  \E s \in Containers : Promise!MayServe(s, i)
  <2>1. /\ row \in [Items -> Nat] /\ beacons \in [Items -> Nat]
        /\ Attempts * beacons[i] \in Nat
    <3>1. row \in [Items -> Nat] /\ beacons \in [Items -> Nat]
      BY <1>1 DEF TypeOK
    <3>2. beacons[i] \in Nat
      BY <3>1
    <3>3. QED
      BY <3>1, <3>2
  <2>2. ~UNCHANGED <<row, beacons>>
    BY <1>1, <2>1 DEF Promise!Committed
  <2>3. ASSUME NEW s \in Containers, NEW j \in Items, Promise!Serve(s, j)
        PROVE  Promise!MayServe(s, i)
    <3>1. CASE j = i
      BY <2>3, <3>1 DEF Promise!Serve
    <3>2. CASE j # i
      <4>1. row'[i] = row[i] /\ beacons'[i] = beacons[i]
        BY <2>1, <2>3, <3>2 DEF Promise!Serve
      <4>2. QED
        BY <1>1, <2>1, <4>1 DEF Promise!Committed
    <3>3. QED
      BY <3>1, <3>2
  <2>4. ASSUME NEW j \in Items, NEW n \in 0..Attempts, Promise!Charge(j, n)
        PROVE  FALSE
    <3>1. CASE j = i
      <4>1. /\ beacons[i] > 0 /\ row'[i] = row[i] + n
            /\ beacons'[i] = beacons[i] - 1
        BY <2>1, <2>4, <3>1 DEF Promise!Charge
      <4>2. Promise!Committed(i)' <= Promise!Committed(i)
        BY <2>1, <4>1, ChargeCommitsNothing DEF Promise!Committed
      <4>3. row'[i] + Attempts * beacons'[i] \in Int
        BY <2>1, <4>1
      <4>4. QED
        BY <1>1, <2>1, <4>2, <4>3 DEF Promise!Committed
    <3>2. CASE j # i
      <4>1. row'[i] = row[i] /\ beacons'[i] = beacons[i]
        BY <2>1, <2>4, <3>2 DEF Promise!Charge
      <4>2. QED
        BY <1>1, <2>1, <4>1 DEF Promise!Committed
    <3>3. QED
      BY <3>1, <3>2
  <2>5. ASSUME NEW s \in Containers, NEW j \in Items, Promise!LoseSight(s, j)
        PROVE  FALSE
    BY <2>2, <2>5 DEF Promise!LoseSight
  <2>6. ASSUME NEW s \in Containers, Promise!PassOver(s)
        PROVE  FALSE
    BY <2>2, <2>6 DEF Promise!PassOver
  <2>7. ~Promise!Tick
    BY <2>2 DEF Promise!Tick
  <2>8. ASSUME Promise!NewDay
        PROVE  FALSE
    <3>1. row'[i] = 0 /\ beacons'[i] = beacons[i]
      BY <2>8 DEF Promise!NewDay
    <3>2. QED
      BY <1>1, <2>1, <3>1 DEF Promise!Committed
  <2>9. QED
    BY <1>1, <2>2, <2>3, <2>4, <2>5, <2>6, <2>7, <2>8 DEF Promise!Next
<1>2. TypeOK /\ Served /\ [Next]_vars =>
      \A i \in Items : Promise!Committed(i)' > Promise!Committed(i) =>
                         \E s \in Containers : Promise!MayServe(s, i)
  BY <1>1, BudgetStep DEF Served
<1>3. QED
  BY <1>2, Invariance, PTL DEF Spec, CommittedWithinBudget, Promise!CommittedWithinBudget
==============================================================================
