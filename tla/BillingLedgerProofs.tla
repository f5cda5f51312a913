------------------------ MODULE BillingLedgerProofs ------------------------
(***************************************************************************)
(* For any number of containers, ads and repeated beacons, whatever fails  *)
(* and whenever containers stop: nothing is held across invocations, what  *)
(* was acknowledged is recorded or its loss was reported, a beacon never   *)
(* precedes its request in the ledger, and no spend escapes it but what    *)
(* the SDK's retries repeat.                                               *)
(*                                                                         *)
(* Shape says what a container holds at each stage of an invocation.  The  *)
(* sums of AcknowledgedIsRecorded and SpendIsRecorded are off by the       *)
(* invocations on their way: an event is written before it is answered     *)
(* (AcknowledgedOrWritten), and charged before it is written               *)
(* (SpendRecordedOrPending).  A token is out only after the request it     *)
(* belongs to was written (TokensRecorded).                                *)
(***************************************************************************)
EXTENDS BillingLedger, FiniteSetTheorems, TLAPS

Stages == {"idle", "begun", "charged", "handled", "writing", "written"}

Busy == \A c \in Containers : stage[c] # "idle" <=> job[c] # None

USE ContainersAssumption, PricingAssumption, MaxBeaconsAssumption, NoneAssumption

------------------------------------------------------------------------------
\* Events are what they are made of.
LEMMA EventType ==
  ASSUME NEW e \in Events
  PROVE  /\ e.kind \in Beacons \cup {"request"}
         /\ e.request \in Requests
         /\ e # None
BY DEF Events

\* A batch holds finitely many of an event.
LEMMA InBatchType ==
  ASSUME TypeOK, NEW c \in Containers, NEW e \in Events
  PROVE  InBatch(c, e) \in Nat
<1>1. Len(batch[c]) \in Nat
  BY DEF TypeOK
<1>2. /\ IsFiniteSet(1..Len(batch[c]))
      /\ {i \in 1..Len(batch[c]) : batch[c][i] = e} \in SUBSET (1..Len(batch[c]))
  BY <1>1, FS_Interval
<1>3. QED
  BY <1>2, FS_Subset, FS_CardinalityType DEF InBatch

\* Moving one container on moves no other.
LEMMA GotoType ==
  ASSUME TypeOK, NEW c \in Containers, NEW from, NEW to \in Stages, Goto(c, from, to)
  PROVE  /\ stage' \in [Containers -> Stages]
         /\ stage[c] = from /\ stage'[c] = to
         /\ \A d \in Containers \ {c} : stage'[d] = stage[d]
BY DEF TypeOK, Goto, Stages

\* An invocation under way stays under way.
LEMMA UnderWay ==
  ASSUME TypeOK, Busy, NEW c \in Containers, NEW from \in Stages \ {"idle"},
         NEW to \in Stages \ {"idle"}, Goto(c, from, to), job' = job
  PROVE  stage' \in [Containers -> Stages] /\ Busy'
BY GotoType DEF Busy

\* Types hold, and a container has an event exactly while it is busy.
THEOREM BusyTypeCorrect == Spec => [](TypeOK /\ Busy)
<1>1. Init => TypeOK /\ Busy
  BY DEF Init, TypeOK, Busy, Zeros
<1>2. TypeOK /\ Busy /\ [Next]_vars => TypeOK' /\ Busy'
  <2> SUFFICES ASSUME TypeOK, Busy, [Next]_vars
               PROVE  TypeOK' /\ Busy'
    OBVIOUS
  <2>1. ASSUME NEW c \in Containers, NEW e \in Events, Begin(c, e)
        PROVE  TypeOK' /\ Busy'
    <3>1. Goto(c, "idle", "begun") /\ "begun" \in Stages
      BY <2>1 DEF Begin, Stages
    <3>2. /\ job' \in [Containers -> Events \cup {None}]
          /\ job'[c] # None
          /\ \A d \in Containers \ {c} : job'[d] = job[d]
      BY <2>1 DEF Begin, TypeOK
    <3>3. begun' \in [Events -> Nat]
      BY <2>1 DEF Begin, TypeOK
    <3>4. TypeOK'
      BY <2>1, <3>1, <3>2, <3>3, GotoType DEF TypeOK, Begin, Stages
    <3>5. Busy'
      BY <3>1, <3>2, GotoType DEF Busy
    <3>6. QED
      BY <3>4, <3>5
  <2>2. ASSUME NEW c \in Containers, NEW filled \in BOOLEAN, DecideAd(c, filled)
        PROVE  TypeOK' /\ Busy'
    <3>1. Goto(c, "begun", "handled") /\ "handled" \in Stages
      BY <2>2 DEF DecideAd, Stages
    <3>2. job[c] \in Events /\ buffer' = [buffer EXCEPT ![c] = Append(@, job[c])]
      BY <2>2 DEF DecideAd, Emit, Handling, TypeOK
    <3>3. buffer' \in [Containers -> Seq(Events)]
      <4>1. buffer \in [Containers -> Seq(Events)] /\ buffer[c] \in Seq(Events)
        BY DEF TypeOK
      <4>2. Append(buffer[c], job[c]) \in Seq(Events)
        BY <3>2, <4>1
      <4>3. QED
        BY <3>2, <4>1, <4>2
    <3>4. QED
      BY <2>2, <3>1, <3>3, UnderWay DEF TypeOK, DecideAd, Stages, histories
  <2>3. ASSUME NEW c \in Containers, CreativeMissing(c)
        PROVE  TypeOK' /\ Busy'
    <3>1. Goto(c, "begun", "handled") /\ "handled" \in Stages
      BY <2>3 DEF CreativeMissing, Stages
    <3>2. QED
      BY <2>3, <3>1, UnderWay DEF TypeOK, CreativeMissing, Stages, histories
  <2>4. ASSUME NEW c \in Containers, Charge(c)
        PROVE  TypeOK' /\ Busy'
    <3>1. Goto(c, "begun", "charged") /\ "charged" \in Stages
      BY <2>4 DEF Charge, Stages
    <3>2. spend \in [Events -> Nat] /\ job[c] \in Events
      BY <2>4 DEF Charge, Handling, TypeOK
    <3>3. PICK n \in 0..Attempts : spend' = [spend EXCEPT ![job[c]] = @ + n]
      BY <2>4 DEF Charge
    <3>4. spend' \in [Events -> Nat]
      BY <3>2, <3>3, AttemptsAssumption
    <3>5. /\ UNCHANGED <<job, buffer, batch, reply, token, ledger>>
          /\ UNCHANGED <<begun, answered, putFailed, cut>>
      BY <2>4 DEF Charge, histories
    <3>6. QED
      BY <3>1, <3>4, <3>5, UnderWay DEF TypeOK, Stages
  <2>5. ASSUME NEW c \in Containers, Record(c)
        PROVE  TypeOK' /\ Busy'
    <3>1. PICK from \in {"charged", "begun"} : Goto(c, from, "handled")
      BY <2>5 DEF Record
    <3>2. job[c] \in Events /\ buffer' = [buffer EXCEPT ![c] = Append(@, job[c])]
      BY <2>5 DEF Record, Emit, Handling, TypeOK
    <3>3. buffer' \in [Containers -> Seq(Events)]
      <4>1. buffer \in [Containers -> Seq(Events)] /\ buffer[c] \in Seq(Events)
        BY DEF TypeOK
      <4>2. Append(buffer[c], job[c]) \in Seq(Events)
        BY <3>2, <4>1
      <4>3. QED
        BY <3>2, <4>1, <4>2
    <3>4. QED
      BY <2>5, <3>1, <3>3, UnderWay DEF TypeOK, Record, Stages, histories
  <2>6. ASSUME NEW c \in Containers, Flush(c)
        PROVE  TypeOK' /\ Busy'
    <3>1. PICK to \in {"written", "writing"} : Goto(c, "handled", to)
      BY <2>6 DEF Flush
    <3>2. /\ buffer' \in [Containers -> Seq(Events)]
          /\ batch' \in [Containers -> Seq(Events)]
      BY <2>6 DEF Flush, TypeOK
    <3>3. /\ UNCHANGED <<job, reply, token, ledger, spend>>
          /\ UNCHANGED <<begun, answered, putFailed, cut>>
      BY <2>6 DEF Flush, histories
    <3>4. to \in Stages
      BY DEF Stages
    <3>5. QED
      BY <3>1, <3>2, <3>3, <3>4, UnderWay DEF TypeOK, Stages
  <2>7. ASSUME NEW c \in Containers, Put(c)
        PROVE  TypeOK' /\ Busy'
    <3>1. Goto(c, "writing", "written") /\ "written" \in Stages
      BY <2>7 DEF Put, Stages
    <3>2. ledger' \in [Events -> Nat]
      BY <2>7, InBatchType DEF Put, Stored, TypeOK
    <3>3. QED
      BY <2>7, <3>1, <3>2, UnderWay DEF TypeOK, Put, Stages, histories
  <2>8. ASSUME NEW c \in Containers, PutFails(c)
        PROVE  TypeOK' /\ Busy'
    <3>1. Goto(c, "writing", "written") /\ "written" \in Stages
      BY <2>8 DEF PutFails, Stages
    <3>2. /\ \A e \in Events : InBatch(c, e) \in Nat
          /\ ledger \in [Events -> Nat] /\ putFailed \in [Events -> Nat]
      BY InBatchType DEF TypeOK
    <3>3. /\ Stored(c) \/ ledger' = ledger
          /\ putFailed' = [e \in Events |-> putFailed[e] + InBatch(c, e)]
      BY <2>8 DEF PutFails
    <3>4. ledger' \in [Events -> Nat] /\ putFailed' \in [Events -> Nat]
      BY <3>2, <3>3 DEF Stored
    <3>5. /\ batch' \in [Containers -> Seq(Events)]
          /\ UNCHANGED <<job, buffer, reply, token, spend, begun, answered, cut>>
      BY <2>8 DEF PutFails, TypeOK
    <3>6. QED
      BY <3>1, <3>4, <3>5, UnderWay DEF TypeOK, Stages
  <2>9. ASSUME NEW c \in Containers, Respond(c)
        PROVE  TypeOK' /\ Busy'
    <3>1. Goto(c, "written", "idle") /\ "idle" \in Stages
      BY <2>9 DEF Respond, Stages
    <3>2. job[c] \in Events
      BY <3>1 DEF Goto, Busy, TypeOK
    <3>3. token' \subseteq Requests /\ answered' \in [Events -> Nat]
      BY <2>9, <3>2, EventType DEF Respond, TypeOK
    <3>4. QED
      BY <2>9, <3>1, <3>3, GotoType DEF TypeOK, Busy, Respond, Stages
  <2>10. ASSUME NEW c \in Containers, Stop(c)
         PROVE  TypeOK' /\ Busy'
    <3>1. cut' \in [Events -> Nat]
      BY <2>10 DEF Stop, TypeOK
    <3>2. QED
      BY <2>10, <3>1 DEF TypeOK, Busy, Stop
  <2>11. CASE UNCHANGED vars
    BY <2>11 DEF TypeOK, Busy, vars, histories
  <2>12. QED
    BY <2>1, <2>2, <2>3, <2>4, <2>5, <2>6, <2>7, <2>8, <2>9, <2>10, <2>11 DEF Next
<1>3. QED
  BY <1>1, <1>2, PTL DEF Spec

\* Type correctness of containers, buffers, ledger and budget.
THEOREM TypeCorrect == Spec => []TypeOK
BY BusyTypeCorrect, PTL

------------------------------------------------------------------------------
\* What a container holds at each stage of an invocation.
Shape ==
    \A c \in Containers :
        /\ stage[c] \in {"idle", "begun", "charged"} =>
              buffer[c] = <<>> /\ batch[c] = <<>> /\ ~reply[c]
        /\ stage[c] = "charged" => job[c].kind \in Beacons
        /\ stage[c] = "handled" =>
              /\ batch[c] = <<>>
              /\ \/ buffer[c] = <<job[c]>>
                 \/ buffer[c] = <<>> /\ job[c].kind = "request" /\ ~reply[c]
        /\ stage[c] = "writing" => buffer[c] = <<>> /\ batch[c] = <<job[c]>>
        /\ stage[c] = "written" => buffer[c] = <<>> /\ batch[c] = <<>>
        /\ reply[c] => job[c].kind = "request"

RequestOf(r) == [kind |-> "request", request |-> r]

Recorded(r) == ledger[RequestOf(r)] + putFailed[RequestOf(r)] > 0

\* Who holds a token, and what follows from it, comes after the request's record.
TokensRecorded ==
    /\ \A r \in token : Recorded(r)
    /\ \A c \in Containers :
          /\ stage[c] = "written" /\ reply[c] => Recorded(job[c].request)
          /\ stage[c] # "idle" /\ job[c].kind \in Beacons => job[c].request \in token
    /\ \A e \in Events : e.kind \in Beacons /\ ledger[e] > 0 => e.request \in token

\* The containers whose invocation is about e and at one of some stages.
At(e, stages) == {c \in Containers : job[c] = e /\ stage[c] \in stages}

Pending == {"charged", "handled", "writing"}

AcknowledgedOrWritten ==
    \A e \in Events : e.kind \in Beacons =>
        answered[e] + Cardinality(At(e, {"written"})) <= ledger[e] + putFailed[e]

\* What is recorded of e, was lost or is on its way covers as many charges as make
\* up the spend.
Covered(e, n) ==
    /\ spend[e] <= Attempts * n
    /\ n <= ledger[e] + putFailed[e] + cut[e] + Cardinality(At(e, Pending))

SpendRecordedOrPending ==
    \A e \in Events :
        /\ \E n \in Nat : Covered(e, n)
        /\ e.kind = "request" => spend[e] = 0

IInv ==
    TypeOK /\ Busy /\ Shape /\ TokensRecorded /\ AcknowledgedOrWritten /\ SpendRecordedOrPending

\* The containers at some stages are finitely many, and one of them leaving or
\* joining counts for one.
LEMMA AtFinite ==
  ASSUME NEW e, NEW S
  PROVE  IsFiniteSet(At(e, S)) /\ Cardinality(At(e, S)) \in Nat
<1>1. At(e, S) \in SUBSET Containers
  BY DEF At
<1>2. QED
  BY <1>1, FS_Subset, FS_CardinalityType

LEMMA AtMoves ==
  ASSUME NEW c \in Containers, NEW e, NEW S,
         \A d \in Containers \ {c} : job'[d] = job[d] /\ stage'[d] = stage[d]
  PROVE  /\ Cardinality(At(e, S)) \in Nat
         /\ Cardinality(At(e, S)') \in Nat
         /\ Cardinality(At(e, S)') =
              Cardinality(At(e, S)) - (IF job[c] = e /\ stage[c] \in S THEN 1 ELSE 0)
                                    + (IF job'[c] = e /\ stage'[c] \in S THEN 1 ELSE 0)
<1> DEFINE Others == {d \in Containers \ {c} : job[d] = e /\ stage[d] \in S}
<1>1. IsFiniteSet(Others) /\ Cardinality(Others) \in Nat /\ c \notin Others
  <2>1. Others \in SUBSET Containers
    OBVIOUS
  <2>2. QED
    BY <2>1, FS_Subset, FS_CardinalityType
<1>2. At(e, S) = IF job[c] = e /\ stage[c] \in S THEN Others \cup {c} ELSE Others
  BY DEF At
<1>3. At(e, S)' = IF job'[c] = e /\ stage'[c] \in S THEN Others \cup {c} ELSE Others
  BY DEF At
<1>4. Cardinality(Others \cup {c}) = Cardinality(Others) + 1
  BY <1>1, FS_AddElement
<1> HIDE DEF Others
<1>5. QED
  BY <1>1, <1>2, <1>3, <1>4

\* A batch of one event holds that event once.
LEMMA BatchOfOne ==
  ASSUME NEW c \in Containers, NEW e \in Events, NEW f \in Events, batch[c] = <<f>>
  PROVE  InBatch(c, e) = IF e = f THEN 1 ELSE 0
<1>1. {i \in 1..Len(batch[c]) : batch[c][i] = e} = IF e = f THEN {1} ELSE {}
  OBVIOUS
<1>2. QED
  BY <1>1, FS_Singleton, FS_EmptySet DEF InBatch

\* One charge more adds what the SDK may apply of it, and a larger number of charges
\* covers no less.
LEMMA ChargesCover ==
  ASSUME NEW n \in Nat
  PROVE  /\ Attempts * n \in Nat
         /\ Attempts * 0 = 0
         /\ Attempts * (n + 1) = Attempts * n + Attempts
         /\ \A m \in Nat : n <= m => Attempts * n <= Attempts * m
<1>1. Attempts \in Nat
  BY AttemptsAssumption
<1>2. /\ Attempts * n \in Nat
      /\ Attempts * 0 = 0
      /\ Attempts * (n + 1) = Attempts * n + Attempts
  BY <1>1
<1>3. ASSUME NEW m \in Nat, n <= m
      PROVE  Attempts * n <= Attempts * m
  <2>1. PICK d \in Nat : m = n + d
    <3>1. m - n \in Nat /\ m = n + (m - n)
      BY <1>3
    <3>2. QED
      BY <3>1
  <2>2. Attempts * m = Attempts * n + Attempts * d /\ Attempts * d \in Nat
    BY <1>1, <2>1
  <2>3. QED
    BY <1>2, <2>2
<1>4. QED
  BY <1>2, <1>3

\* A request's record, once made, stays.
LEMMA RecordedStays ==
  ASSUME TypeOK, TypeOK', NEW r \in Requests, Recorded(r),
         \A e \in Events : ledger'[e] >= ledger[e] /\ putFailed'[e] >= putFailed[e]
  PROVE  Recorded(r)'
<1>1. RequestOf(r) \in Events
  BY DEF RequestOf, Events
<1>2. QED
  BY <1>1 DEF Recorded, TypeOK

------------------------------------------------------------------------------
\* At the start no container is at work and nothing is recorded.
LEMMA InitIInv == Init => IInv
<1> SUFFICES ASSUME Init
             PROVE  IInv
  OBVIOUS
<1>1. TypeOK /\ Busy
  BY DEF Init, TypeOK, Busy, Zeros
<1>2. Shape
  BY DEF Init, Shape
<1>3. TokensRecorded
  BY DEF Init, TokensRecorded, Zeros
<1>4. \A e, S : e # None => At(e, S) = {}
  BY DEF Init, At
<1>5. \A e \in Events : \A S : Cardinality(At(e, S)) = 0
  BY <1>4, FS_EmptySet, EventType
<1>6. AcknowledgedOrWritten /\ SpendRecordedOrPending
  <2>1. \A e \in Events : Covered(e, 0)
    BY <1>5, ChargesCover DEF Init, Zeros, Covered
  <2>2. QED
    BY <1>5, <2>1 DEF Init, Zeros, AcknowledgedOrWritten, SpendRecordedOrPending
<1>7. QED
  BY <1>1, <1>2, <1>3, <1>6 DEF IInv

\* A step that writes nothing and leaves the sums to the containers' stages.
LEMMA SumsKept ==
  ASSUME IInv, TypeOK', NEW c \in Containers,
         \A d \in Containers \ {c} : job'[d] = job[d] /\ stage'[d] = stage[d],
         UNCHANGED <<ledger, putFailed>>,
         \A e \in Events :
            /\ e.kind \in Beacons =>
                  answered'[e] + (IF job'[c] = e /\ stage'[c] = "written" THEN 1 ELSE 0)
                    <= answered[e] + (IF job[c] = e /\ stage[c] = "written" THEN 1 ELSE 0)
            /\ e.kind \in Beacons => \E m \in {0, 1} :
                  /\ spend'[e] <= spend[e] + (IF m = 1 THEN Attempts ELSE 0)
                  /\ cut[e] + (IF job[c] = e /\ stage[c] \in Pending THEN 1 ELSE 0) + m
                       <= cut'[e] + (IF job'[c] = e /\ stage'[c] \in Pending THEN 1 ELSE 0)
            /\ e.kind = "request" => spend'[e] = spend[e]
  PROVE  AcknowledgedOrWritten' /\ SpendRecordedOrPending'
<1>1. \A e \in Events :
        /\ ledger'[e] = ledger[e] /\ putFailed'[e] = putFailed[e]
        /\ ledger[e] \in Nat /\ putFailed[e] \in Nat
        /\ answered[e] \in Nat /\ answered'[e] \in Nat
        /\ spend[e] \in Nat /\ spend'[e] \in Nat /\ cut[e] \in Nat /\ cut'[e] \in Nat
  BY DEF IInv, TypeOK
<1>2. ASSUME NEW e \in Events, e.kind \in Beacons
      PROVE  answered'[e] + Cardinality(At(e, {"written"})') <= ledger'[e] + putFailed'[e]
  <2>1. answered[e] + Cardinality(At(e, {"written"})) <= ledger[e] + putFailed[e]
    BY <1>2 DEF IInv, AcknowledgedOrWritten
  <2>2. /\ Cardinality(At(e, {"written"})) \in Nat
        /\ Cardinality(At(e, {"written"})') \in Nat
        /\ Cardinality(At(e, {"written"})') =
              Cardinality(At(e, {"written"}))
                - (IF job[c] = e /\ stage[c] = "written" THEN 1 ELSE 0)
                + (IF job'[c] = e /\ stage'[c] = "written" THEN 1 ELSE 0)
    BY AtMoves
  <2>3. QED
    BY <1>1, <1>2, <2>1, <2>2
<1>3. ASSUME NEW e \in Events
      PROVE  \E n \in Nat : Covered(e, n)'
  <2>1. PICK n \in Nat : Covered(e, n)
    BY DEF IInv, SpendRecordedOrPending
  <2>2. /\ Cardinality(At(e, Pending)) \in Nat
        /\ Cardinality(At(e, Pending)') \in Nat
        /\ Cardinality(At(e, Pending)') =
              Cardinality(At(e, Pending))
                - (IF job[c] = e /\ stage[c] \in Pending THEN 1 ELSE 0)
                + (IF job'[c] = e /\ stage'[c] \in Pending THEN 1 ELSE 0)
    BY AtMoves
  <2>3. CASE e.kind = "request"
    <3>1. spend'[e] = 0
      BY <2>3 DEF IInv, SpendRecordedOrPending
    <3>2. Covered(e, 0)'
      BY <1>1, <2>2, <3>1, ChargesCover DEF Covered
    <3>3. QED
      BY <3>2
  <2>4. CASE e.kind \in Beacons
    <3>1. PICK m \in {0, 1} :
            /\ spend'[e] <= spend[e] + (IF m = 1 THEN Attempts ELSE 0)
            /\ cut[e] + (IF job[c] = e /\ stage[c] \in Pending THEN 1 ELSE 0) + m
                 <= cut'[e] + (IF job'[c] = e /\ stage'[c] \in Pending THEN 1 ELSE 0)
      BY <2>4
    <3>2. n + m <= ledger'[e] + putFailed'[e] + cut'[e] + Cardinality(At(e, Pending)')
      BY <1>1, <2>1, <2>2, <3>1 DEF Covered
    <3>3. spend'[e] <= Attempts * (n + m)
      <4>1. spend[e] <= Attempts * n
        BY <2>1 DEF Covered
      <4>2. Attempts * n \in Nat /\ Attempts * (n + 1) = Attempts * n + Attempts
        BY ChargesCover
      <4>3. CASE m = 0
        <5>1. n + m = n /\ spend'[e] <= spend[e]
          BY <1>1, <3>1, <4>3
        <5>2. QED
          BY <1>1, <4>1, <4>2, <5>1
      <4>4. CASE m = 1
        <5>1. n + m = n + 1 /\ spend'[e] <= spend[e] + Attempts
          BY <3>1, <4>4
        <5>2. QED
          BY <1>1, <4>1, <4>2, <5>1, AttemptsAssumption
      <4>5. QED
        BY <4>3, <4>4
    <3>4. Covered(e, n + m)' /\ n + m \in Nat
      BY <3>2, <3>3 DEF Covered
    <3>5. QED
      BY <3>4
  <2>5. QED
    BY <2>3, <2>4, EventType
<1>4. AcknowledgedOrWritten'
  BY <1>2 DEF AcknowledgedOrWritten
<1>5. SpendRecordedOrPending'
  BY <1>3 DEF IInv, SpendRecordedOrPending, Pending
<1>6. QED
  BY <1>4, <1>5

\* A step that writes nothing, keeps the tokens given out, and moves one
\* container that is not about to answer with a token of an unrecorded request.
LEMMA TokensKept ==
  ASSUME IInv, TypeOK', NEW c \in Containers,
         \A d \in Containers \ {c} :
            job'[d] = job[d] /\ stage'[d] = stage[d] /\ reply'[d] = reply[d],
         UNCHANGED <<ledger, putFailed, token>>,
         stage'[c] = "written" /\ reply'[c] => Recorded(job'[c].request),
         stage'[c] # "idle" /\ job'[c].kind \in Beacons => job'[c].request \in token
  PROVE  TokensRecorded'
<1>1. \A r : Recorded(r)' <=> Recorded(r)
  BY DEF Recorded
<1>2. QED
  BY <1>1 DEF IInv, TokensRecorded

\* An event emitted into an empty buffer is alone in it.
LEMMA EmitAlone ==
  ASSUME TypeOK, NEW c \in Containers, buffer[c] = <<>>, Emit(c)
  PROVE  buffer'[c] = <<job[c]>>
<1>1. buffer'[c] = Append(<<>>, job[c])
  BY DEF TypeOK, Emit
<1>2. QED
  BY <1>1

LEMMA BeginIInv ==
  ASSUME IInv, TypeOK', Busy', NEW c \in Containers, NEW e \in Events, Begin(c, e)
  PROVE  IInv'
<1>1. /\ stage[c] = "idle" /\ stage' = [stage EXCEPT ![c] = "begun"]
      /\ job' = [job EXCEPT ![c] = e]
      /\ UNCHANGED <<buffer, batch, reply, token, ledger, spend, answered, putFailed, cut>>
      /\ e.kind \in Beacons => e.request \in token
  BY EventType DEF Begin, Goto, Beacons
<1>2. /\ stage'[c] = "begun" /\ job'[c] = e
      /\ \A d \in Containers \ {c} :
            job'[d] = job[d] /\ stage'[d] = stage[d] /\ reply'[d] = reply[d]
  BY <1>1 DEF IInv, TypeOK
<1>3. Shape'
  BY <1>1, <1>2 DEF IInv, Shape
<1>4. TokensRecorded'
  BY <1>1, <1>2, TokensKept
<1>5. AcknowledgedOrWritten' /\ SpendRecordedOrPending'
  <2>1. \A f \in Events : spend[f] \in Nat /\ cut[f] \in Nat /\ answered[f] \in Nat
    BY DEF IInv, TypeOK
  <2>2. QED
    BY <1>1, <1>2, <2>1, SumsKept DEF Pending
<1>6. QED
  BY <1>3, <1>4, <1>5 DEF IInv

\* The handler of an ad request: with an event, or without one and without an ad.
LEMMA RequestHandledIInv ==
  ASSUME IInv, TypeOK', Busy', NEW c \in Containers,
         Goto(c, "begun", "handled"), job[c] \in Events, job[c].kind = "request",
         \/ \E filled \in BOOLEAN : Emit(c) /\ reply' = [reply EXCEPT ![c] = filled]
         \/ UNCHANGED <<buffer, reply>>,
         UNCHANGED <<job, batch, token, ledger, spend, begun, answered, putFailed, cut>>
  PROVE  IInv'
<1>1. /\ stage[c] = "begun" /\ stage'[c] = "handled"
      /\ \A d \in Containers \ {c} :
            /\ job'[d] = job[d] /\ stage'[d] = stage[d] /\ reply'[d] = reply[d]
            /\ buffer'[d] = buffer[d] /\ batch'[d] = batch[d]
  BY DEF IInv, TypeOK, Goto, Emit
<1>2. /\ buffer'[c] = <<job[c]>> \/ (buffer'[c] = <<>> /\ ~reply'[c])
      /\ batch'[c] = <<>>
  BY <1>1, EmitAlone DEF IInv, Shape
<1>3. Shape'
  BY <1>1, <1>2 DEF IInv, Shape
<1>4. TokensRecorded'
  BY <1>1, TokensKept DEF Beacons
<1>5. AcknowledgedOrWritten' /\ SpendRecordedOrPending'
  <2>1. \A e \in Events : e.kind \in Beacons => e # job[c]
    BY DEF Beacons
  <2>2. \A e \in Events : spend[e] \in Nat /\ cut[e] \in Nat /\ answered[e] \in Nat
    BY DEF IInv, TypeOK
  <2>3. QED
    BY <1>1, <2>1, <2>2, SumsKept DEF Pending
<1>6. QED
  BY <1>3, <1>4, <1>5 DEF IInv

\* AddSpend, whether or not it succeeds.
LEMMA ChargeIInv ==
  ASSUME IInv, TypeOK', Busy', NEW c \in Containers, Charge(c)
  PROVE  IInv'
<1>1. /\ stage[c] = "begun" /\ stage'[c] = "charged"
      /\ job[c] \in Events /\ job[c].kind \in Beacons
      /\ UNCHANGED <<job, buffer, batch, reply, token, ledger, begun, answered, putFailed, cut>>
      /\ \A d \in Containers \ {c} : stage'[d] = stage[d]
  BY DEF IInv, TypeOK, Charge, Goto, Handling, histories
<1>2. \A e \in Events :
        /\ spend[e] \in Nat /\ cut[e] \in Nat /\ answered[e] \in Nat
        /\ spend'[e] <= spend[e] + (IF e = job[c] THEN Attempts ELSE 0)
        /\ spend'[e] \in Nat
        /\ e # job[c] => spend'[e] = spend[e]
  <2>1. PICK n \in 0..Attempts : spend' = [spend EXCEPT ![job[c]] = @ + n]
    BY DEF Charge
  <2>2. n \in Nat /\ n <= Attempts /\ Attempts \in Nat
    BY AttemptsAssumption
  <2>3. QED
    BY <1>1, <2>1, <2>2 DEF IInv, TypeOK
<1>3. Shape'
  BY <1>1 DEF IInv, Shape
<1>4. TokensRecorded'
  BY <1>1, TokensKept DEF IInv, TokensRecorded
<1>5. AcknowledgedOrWritten' /\ SpendRecordedOrPending'
  <2>1. \A e \in Events : e.kind = "request" => e # job[c]
    BY <1>1 DEF Beacons
  <2>2. QED
    BY <1>1, <1>2, <2>1, SumsKept DEF Pending
<1>6. QED
  BY <1>3, <1>4, <1>5 DEF IInv

\* The handler of a beacon emits its event.
LEMMA RecordIInv ==
  ASSUME IInv, TypeOK', Busy', NEW c \in Containers, Record(c)
  PROVE  IInv'
<1>1. /\ stage[c] \in {"begun", "charged"} /\ stage'[c] = "handled"
      /\ job[c] \in Events /\ job[c].kind \in Beacons
      /\ UNCHANGED <<job, batch, reply, token, ledger, spend, begun, answered, putFailed, cut>>
      /\ \A d \in Containers \ {c} : stage'[d] = stage[d] /\ buffer'[d] = buffer[d]
  BY DEF IInv, TypeOK, Record, Emit, Goto, Handling, histories
<1>2. buffer'[c] = <<job[c]>>
  BY <1>1, EmitAlone DEF IInv, Shape, Record
<1>3. Shape'
  BY <1>1, <1>2 DEF IInv, Shape
<1>4. TokensRecorded'
  BY <1>1, TokensKept DEF IInv, TokensRecorded
<1>5. AcknowledgedOrWritten' /\ SpendRecordedOrPending'
  <2>1. \A e \in Events : spend[e] \in Nat /\ cut[e] \in Nat /\ answered[e] \in Nat
    BY DEF IInv, TypeOK
  <2>2. QED
    BY <1>1, <2>1, SumsKept DEF Pending
<1>6. QED
  BY <1>3, <1>4, <1>5 DEF IInv

\* Flush takes the buffer; there may be nothing in it only after an ad request
\* without an event.
LEMMA FlushIInv ==
  ASSUME IInv, TypeOK', Busy', NEW c \in Containers, Flush(c)
  PROVE  IInv'
<1>1. /\ stage[c] = "handled"
      /\ stage'[c] = IF buffer[c] = <<>> THEN "written" ELSE "writing"
      /\ batch'[c] = buffer[c] /\ buffer'[c] = <<>> /\ job[c] \in Events
      /\ UNCHANGED <<job, reply, token, ledger, spend, begun, answered, putFailed, cut>>
      /\ \A d \in Containers \ {c} :
            stage'[d] = stage[d] /\ buffer'[d] = buffer[d] /\ batch'[d] = batch[d]
  BY DEF IInv, TypeOK, Busy, Flush, Goto, histories
<1>2. /\ buffer[c] = <<>> => job[c].kind = "request" /\ ~reply[c]
      /\ buffer[c] # <<>> => buffer[c] = <<job[c]>>
  BY <1>1 DEF IInv, Shape
<1>3. Shape'
  BY <1>1, <1>2 DEF IInv, Shape
<1>4. TokensRecorded'
  BY <1>1, <1>2, TokensKept DEF IInv, TokensRecorded
<1>5. AcknowledgedOrWritten' /\ SpendRecordedOrPending'
  <2>1. \A e \in Events : spend[e] \in Nat /\ cut[e] \in Nat /\ answered[e] \in Nat
    BY DEF IInv, TypeOK
  <2>2. \A e \in Events : e.kind \in Beacons /\ e = job[c] => stage'[c] = "writing"
    BY <1>1, <1>2 DEF Beacons
  <2>3. QED
    BY <1>1, <2>1, <2>2, SumsKept DEF Pending
<1>6. QED
  BY <1>3, <1>4, <1>5 DEF IInv

\* PutObject: the event of the batch is in the ledger, or its loss reported, or both.
LEMMA WriteIInv ==
  ASSUME IInv, TypeOK', Busy', NEW c \in Containers, Goto(c, "writing", "written"),
         batch' = [batch EXCEPT ![c] = <<>>],
         UNCHANGED <<job, buffer, reply, token, spend, begun, answered, cut>>,
         \A e \in Events :
            LET n == InBatch(c, e) IN
            /\ ledger'[e] \in {ledger[e], ledger[e] + n}
            /\ putFailed'[e] \in {putFailed[e], putFailed[e] + n}
            /\ ledger'[e] = ledger[e] + n \/ putFailed'[e] = putFailed[e] + n
  PROVE  IInv'
<1>1. /\ stage[c] = "writing" /\ stage'[c] = "written" /\ job[c] \in Events
      /\ batch[c] = <<job[c]>> /\ batch'[c] = <<>> /\ buffer[c] = <<>>
      /\ \A d \in Containers \ {c} : stage'[d] = stage[d] /\ batch'[d] = batch[d]
  BY DEF IInv, TypeOK, Busy, Shape, Goto
<1>2. \A e \in Events :
        /\ ledger[e] \in Nat /\ putFailed[e] \in Nat /\ ledger'[e] \in Nat /\ putFailed'[e] \in Nat
        /\ spend[e] \in Nat /\ cut[e] \in Nat /\ answered[e] \in Nat
  BY DEF IInv, TypeOK
<1>3. \A e \in Events :
        /\ ledger'[e] >= ledger[e] /\ putFailed'[e] >= putFailed[e]
        /\ e # job[c] => ledger'[e] = ledger[e] /\ putFailed'[e] = putFailed[e]
        /\ e = job[c] => ledger'[e] + putFailed'[e] >= ledger[e] + putFailed[e] + 1
  <2> SUFFICES ASSUME NEW e \in Events
               PROVE  /\ ledger'[e] >= ledger[e] /\ putFailed'[e] >= putFailed[e]
                      /\ e # job[c] => ledger'[e] = ledger[e] /\ putFailed'[e] = putFailed[e]
                      /\ e = job[c] => ledger'[e] + putFailed'[e] >= ledger[e] + putFailed[e] + 1
    OBVIOUS
  <2>1. InBatch(c, e) = IF e = job[c] THEN 1 ELSE 0
    BY <1>1, BatchOfOne
  <2>2. QED
    BY <1>2, <2>1
<1>4. Shape'
  BY <1>1 DEF IInv, Shape
<1>5. TokensRecorded'
  <2>1. \A r \in Requests : Recorded(r) => Recorded(r)'
    BY <1>3, RecordedStays DEF IInv
  <2>2. \A d \in Containers : stage[d] = "written" /\ reply[d] => job[d].request \in Requests
    BY EventType DEF IInv, TypeOK, Busy
  <2>3. reply[c] => Recorded(job[c].request)'
    <3>1. SUFFICES ASSUME reply[c]
                   PROVE  Recorded(job[c].request)'
      OBVIOUS
    <3>2. RequestOf(job[c].request) = job[c]
      BY <1>1, <3>1 DEF IInv, Shape, RequestOf, Events
    <3>3. Recorded(job[c].request)' <=> ledger'[job[c]] + putFailed'[job[c]] > 0
      BY <3>2 DEF Recorded, RequestOf
    <3>4. QED
      BY <1>1, <1>2, <1>3, <3>3
  <2>4. \A r \in token : Recorded(r)'
    BY <2>1 DEF IInv, TypeOK, TokensRecorded
  <2>5. \A d \in Containers : stage'[d] = "written" /\ reply'[d] => Recorded(job[d].request)'
    BY <1>1, <2>1, <2>2, <2>3 DEF IInv, TokensRecorded
  <2>6. \A d \in Containers :
          stage'[d] # "idle" /\ job'[d].kind \in Beacons => job'[d].request \in token'
    BY <1>1 DEF IInv, TokensRecorded
  <2>7. \A e \in Events : e.kind \in Beacons /\ ledger'[e] > 0 => e.request \in token'
    BY <1>1, <1>3 DEF IInv, TokensRecorded
  <2>8. QED
    BY <2>4, <2>5, <2>6, <2>7 DEF TokensRecorded
<1>6. ASSUME NEW e \in Events
      PROVE  /\ e.kind \in Beacons =>
                  answered'[e] + Cardinality(At(e, {"written"})') <= ledger'[e] + putFailed'[e]
             /\ \E n \in Nat : Covered(e, n)'
             /\ e.kind = "request" => spend'[e] = 0
  <2>0. PICK n \in Nat : Covered(e, n)
    BY DEF IInv, SpendRecordedOrPending
  <2>1. /\ Cardinality(At(e, {"written"})) \in Nat
        /\ Cardinality(At(e, {"written"})') =
              Cardinality(At(e, {"written"})) + (IF job[c] = e THEN 1 ELSE 0)
    BY <1>1, AtMoves
  <2>2. /\ Cardinality(At(e, Pending)) \in Nat
        /\ Cardinality(At(e, Pending)') \in Nat
        /\ Cardinality(At(e, Pending)') =
              Cardinality(At(e, Pending)) - (IF job[c] = e THEN 1 ELSE 0)
    BY <1>1, AtMoves DEF Pending
  <2>3. /\ e.kind \in Beacons =>
             answered[e] + Cardinality(At(e, {"written"})) <= ledger[e] + putFailed[e]
        /\ n <= ledger[e] + putFailed[e] + cut[e] + Cardinality(At(e, Pending))
        /\ spend[e] <= Attempts * n
        /\ e.kind = "request" => spend[e] = 0
    BY <2>0 DEF IInv, AcknowledgedOrWritten, SpendRecordedOrPending, Covered
  <2>4. UNCHANGED <<answered, spend, cut>>
    OBVIOUS
  <2>5. CASE e = job[c]
    <3>1. /\ ledger[e] \in Nat /\ putFailed[e] \in Nat
          /\ ledger'[e] \in Nat /\ putFailed'[e] \in Nat
          /\ spend[e] \in Nat /\ cut[e] \in Nat /\ answered[e] \in Nat
      BY <1>2
    <3>2. ledger'[e] + putFailed'[e] >= ledger[e] + putFailed[e] + 1
      BY <1>3, <2>5
    <3>3. /\ Cardinality(At(e, {"written"})') = Cardinality(At(e, {"written"})) + 1
          /\ Cardinality(At(e, Pending)') = Cardinality(At(e, Pending)) - 1
      BY <2>1, <2>2, <2>5
    <3>4. spend'[e] = spend[e] /\ answered'[e] = answered[e] /\ cut'[e] = cut[e]
      BY <2>4
    <3>5. ASSUME answered[e] + Cardinality(At(e, {"written"})) <= ledger[e] + putFailed[e]
          PROVE  answered'[e] + Cardinality(At(e, {"written"})') <= ledger'[e] + putFailed'[e]
      BY <2>1, <3>1, <3>2, <3>3, <3>4, <3>5
    <3>6. n <= ledger'[e] + putFailed'[e] + cut'[e] + Cardinality(At(e, Pending)')
      <4>1. Cardinality(At(e, Pending)) \in Nat /\ Cardinality(At(e, Pending)') \in Nat
        BY <2>2
      <4>2. n <= ledger[e] + putFailed[e] + cut[e] + Cardinality(At(e, Pending))
        BY <2>3
      <4>3. Cardinality(At(e, Pending)') = Cardinality(At(e, Pending)) - 1
        BY <3>3
      <4>4. QED
        BY <3>1, <3>2, <3>4, <4>1, <4>2, <4>3, SMTT(60)
    <3>7. Covered(e, n)'
      BY <2>3, <3>4, <3>6 DEF Covered
    <3>8. QED
      BY <2>3, <3>4, <3>5, <3>7
  <2>6. CASE e # job[c]
    <3>1. /\ ledger'[e] = ledger[e] /\ putFailed'[e] = putFailed[e]
          /\ spend'[e] = spend[e] /\ answered'[e] = answered[e] /\ cut'[e] = cut[e]
      BY <1>3, <2>4, <2>6
    <3>2. /\ Cardinality(At(e, {"written"})') = Cardinality(At(e, {"written"}))
          /\ Cardinality(At(e, Pending)') = Cardinality(At(e, Pending))
      BY <2>1, <2>2, <2>6
    <3>3. Covered(e, n)'
      BY <2>3, <3>1, <3>2 DEF Covered
    <3>4. QED
      BY <2>3, <3>1, <3>2, <3>3
  <2>7. QED
    BY <2>5, <2>6
<1>7. AcknowledgedOrWritten' /\ SpendRecordedOrPending'
  BY <1>6 DEF AcknowledgedOrWritten, SpendRecordedOrPending, Pending
<1>8. QED
  BY <1>4, <1>5, <1>7 DEF IInv

\* The response: its token is out, and the event it acknowledges is written.
LEMMA RespondIInv ==
  ASSUME IInv, TypeOK', Busy', NEW c \in Containers, Respond(c)
  PROVE  IInv'
<1>1. /\ stage[c] = "written" /\ stage'[c] = "idle" /\ job[c] \in Events
      /\ job'[c] = None /\ reply'[c] = FALSE
      /\ answered' = [answered EXCEPT ![job[c]] = @ + 1]
      /\ UNCHANGED <<buffer, batch, ledger, spend, begun, putFailed, cut>>
      /\ \A d \in Containers \ {c} :
            stage'[d] = stage[d] /\ job'[d] = job[d] /\ reply'[d] = reply[d]
  BY DEF IInv, TypeOK, Busy, Respond, Goto
<1>2. /\ token \subseteq token'
      /\ \A r \in token' : r \in token \/ (reply[c] /\ r = job[c].request)
  BY DEF Respond
<1>3. Shape'
  BY <1>1 DEF IInv, Shape
<1>4. TokensRecorded'
  <2>1. \A r : Recorded(r)' <=> Recorded(r)
    BY <1>1 DEF Recorded
  <2>2. \A r \in token' : Recorded(r)'
    BY <1>1, <1>2, <2>1 DEF IInv, TokensRecorded
  <2>3. \A d \in Containers :
          /\ stage'[d] = "written" /\ reply'[d] => Recorded(job[d].request) /\ job'[d] = job[d]
          /\ stage'[d] # "idle" /\ job'[d].kind \in Beacons => job'[d].request \in token'
    BY <1>1, <1>2 DEF IInv, TokensRecorded
  <2>4. \A e \in Events : e.kind \in Beacons /\ ledger'[e] > 0 => e.request \in token'
    BY <1>1, <1>2 DEF IInv, TokensRecorded
  <2>5. \A d \in Containers : stage'[d] = "written" /\ reply'[d] => Recorded(job[d].request)'
    BY <2>1, <2>3
  <2>6. QED
    BY <2>2, <2>3, <2>4, <2>5 DEF TokensRecorded, Recorded, RequestOf
<1>5. AcknowledgedOrWritten' /\ SpendRecordedOrPending'
  <2>1. \A e \in Events :
          /\ spend[e] \in Nat /\ cut[e] \in Nat /\ answered[e] \in Nat /\ e # None
          /\ answered'[e] = answered[e] + (IF e = job[c] THEN 1 ELSE 0)
    BY <1>1, EventType DEF IInv, TypeOK
  <2>2. QED
    BY <1>1, <2>1, SumsKept DEF Pending
<1>6. QED
  BY <1>3, <1>4, <1>5 DEF IInv

\* A container that stops takes at most the event it is about with it.
LEMMA StopIInv ==
  ASSUME IInv, TypeOK', Busy', NEW c \in Containers, Stop(c)
  PROVE  IInv'
<1>1. /\ stage'[c] = "idle" /\ job'[c] = None /\ reply'[c] = FALSE
      /\ buffer'[c] = <<>> /\ batch'[c] = <<>>
      /\ UNCHANGED <<token, ledger, spend, begun, answered, putFailed>>
      /\ \A d \in Containers \ {c} :
            /\ stage'[d] = stage[d] /\ job'[d] = job[d] /\ reply'[d] = reply[d]
            /\ buffer'[d] = buffer[d] /\ batch'[d] = batch[d]
  BY DEF IInv, TypeOK, Stop
<1>2. Shape'
  BY <1>1 DEF IInv, Shape
<1>3. TokensRecorded'
  BY <1>1, TokensKept
<1>4. AcknowledgedOrWritten' /\ SpendRecordedOrPending'
  <2>1. \A e \in Events :
          /\ spend[e] \in Nat /\ cut[e] \in Nat /\ answered[e] \in Nat /\ e # None
          /\ cut'[e] = cut[e] + (IF e = job[c] THEN 1 ELSE 0)
    BY EventType DEF IInv, TypeOK, Stop
  <2>2. QED
    BY <1>1, <2>1, SumsKept DEF Pending
<1>5. QED
  BY <1>2, <1>3, <1>4 DEF IInv

LEMMA UnchangedIInv ==
  ASSUME IInv, UNCHANGED vars
  PROVE  IInv'
BY DEF IInv, vars, histories, TypeOK, Busy, Shape, TokensRecorded, Recorded, RequestOf,
       AcknowledgedOrWritten, SpendRecordedOrPending, Covered, At

\* The strengthening holds throughout.
THEOREM Invariant == Spec => []IInv
<1>1. Init => IInv
  BY InitIInv
<1>2. IInv /\ TypeOK' /\ Busy' /\ [Next]_vars => IInv'
  <2> SUFFICES ASSUME IInv, TypeOK', Busy', [Next]_vars
               PROVE  IInv'
    OBVIOUS
  <2>1. ASSUME NEW c \in Containers, NEW e \in Events, Begin(c, e)
        PROVE  IInv'
    BY <2>1, BeginIInv
  <2>2. ASSUME NEW c \in Containers, NEW filled \in BOOLEAN, DecideAd(c, filled)
        PROVE  IInv'
    BY <2>2, RequestHandledIInv DEF DecideAd, Handling, IInv, TypeOK, histories
  <2>3. ASSUME NEW c \in Containers, CreativeMissing(c)
        PROVE  IInv'
    BY <2>3, RequestHandledIInv DEF CreativeMissing, Handling, IInv, TypeOK, histories
  <2>4. ASSUME NEW c \in Containers, Charge(c)
        PROVE  IInv'
    BY <2>4, ChargeIInv
  <2>5. ASSUME NEW c \in Containers, Record(c)
        PROVE  IInv'
    BY <2>5, RecordIInv
  <2>6. ASSUME NEW c \in Containers, Flush(c)
        PROVE  IInv'
    BY <2>6, FlushIInv
  <2>7. ASSUME NEW c \in Containers, Put(c)
        PROVE  IInv'
    <3>1. \A e \in Events : /\ ledger'[e] = ledger[e] + InBatch(c, e)
                            /\ putFailed'[e] = putFailed[e]
      BY <2>7 DEF Put, Stored, histories
    <3>2. QED
      BY <2>7, <3>1, WriteIInv DEF Put, histories
  <2>8. ASSUME NEW c \in Containers, PutFails(c)
        PROVE  IInv'
    <3>1. \A e \in Events : /\ ledger'[e] \in {ledger[e], ledger[e] + InBatch(c, e)}
                            /\ putFailed'[e] = putFailed[e] + InBatch(c, e)
      BY <2>8 DEF PutFails, Stored
    <3>2. QED
      BY <2>8, <3>1, WriteIInv DEF PutFails
  <2>9. ASSUME NEW c \in Containers, Respond(c)
        PROVE  IInv'
    BY <2>9, RespondIInv
  <2>10. ASSUME NEW c \in Containers, Stop(c)
         PROVE  IInv'
    BY <2>10, StopIInv
  <2>11. CASE UNCHANGED vars
    BY <2>11, UnchangedIInv
  <2>12. QED
    BY <2>1, <2>2, <2>3, <2>4, <2>5, <2>6, <2>7, <2>8, <2>9, <2>10, <2>11 DEF Next
<1>3. QED
  BY <1>1, <1>2, BusyTypeCorrect, PTL DEF Spec

\* A container's shutdown between invocations loses nothing.
THEOREM NothingHeld == Spec => []NothingHeldAcross
<1>1. IInv => NothingHeldAcross
  <2> SUFFICES ASSUME IInv, NEW c \in Containers, NEW i \in 1..Len(buffer[c] \o batch[c])
               PROVE  (buffer[c] \o batch[c])[i] = job[c]
    BY DEF NothingHeldAcross
  <2>1. stage[c] \in Stages
    BY DEF IInv, TypeOK, Stages
  <2>2. \/ buffer[c] = <<>> /\ batch[c] = <<>>
        \/ buffer[c] = <<job[c]>> /\ batch[c] = <<>>
        \/ buffer[c] = <<>> /\ batch[c] = <<job[c]>>
    BY <2>1 DEF IInv, Shape, Stages
  <2>3. buffer[c] \o batch[c] = <<>> \/ buffer[c] \o batch[c] = <<job[c]>>
    <3>1. <<>> \o <<>> = <<>>
      OBVIOUS
    <3>2. <<job[c]>> \o <<>> = <<job[c]>> /\ <<>> \o <<job[c]>> = <<job[c]>>
      OBVIOUS
    <3>3. QED
      BY <2>2, <3>1, <3>2
  <2>4. CASE buffer[c] \o batch[c] = <<>>
    BY <2>4
  <2>5. CASE buffer[c] \o batch[c] = <<job[c]>>
    <3>1. i = 1
      BY <2>5
    <3>2. QED
      BY <2>5, <3>1
  <2>6. QED
    BY <2>3, <2>4, <2>5
<1>2. QED
  BY <1>1, Invariant, PTL

\* What a browser was told is counted is in the ledger, or its loss reported.
THEOREM AcknowledgedRecorded == Spec => []AcknowledgedIsRecorded
<1>1. IInv => AcknowledgedIsRecorded
  <2> SUFFICES ASSUME IInv, NEW e \in Events, e.kind \in Beacons
               PROVE  answered[e] <= ledger[e] + putFailed[e]
    BY DEF AcknowledgedIsRecorded
  <2>1. Cardinality(At(e, {"written"})) \in Nat
    BY AtFinite
  <2>2. answered[e] \in Nat /\ ledger[e] \in Nat /\ putFailed[e] \in Nat
    BY DEF IInv, TypeOK
  <2>3. QED
    BY <2>1, <2>2 DEF IInv, AcknowledgedOrWritten
<1>2. QED
  BY <1>1, Invariant, PTL

\* A beacon in the ledger has its request there, or the loss of that reported.
THEOREM RequestFirst == Spec => []RequestRecordedFirst
<1>1. IInv => RequestRecordedFirst
  BY DEF IInv, TypeOK, RequestRecordedFirst, TokensRecorded, Recorded, RequestOf
<1>2. QED
  BY <1>1, Invariant, PTL

\* No spend without a record, but for reported losses and cut invocations; and of
\* what is recorded no more than the SDK may apply of one update each.
THEOREM SpendRecorded == Spec => []SpendIsRecorded
<1>1. IInv => SpendIsRecorded
  <2> SUFFICES ASSUME IInv, NEW e \in Events
               PROVE  spend[e] <= Attempts * (ledger[e] + putFailed[e] + cut[e] + InProgress(e))
    BY DEF SpendIsRecorded
  <2> DEFINE m == ledger[e] + putFailed[e] + cut[e] + InProgress(e)
  <2>1. {c \in Containers : job[c] = e} \in SUBSET Containers
    OBVIOUS
  <2>2. /\ InProgress(e) \in Nat
        /\ Cardinality(At(e, Pending)) <= InProgress(e)
        /\ Cardinality(At(e, Pending)) \in Nat
    BY <2>1, FS_Subset, FS_CardinalityType, AtFinite DEF InProgress, At
  <2>3. /\ spend[e] \in Nat /\ ledger[e] \in Nat /\ putFailed[e] \in Nat /\ cut[e] \in Nat
    BY DEF IInv, TypeOK
  <2>4. PICK n \in Nat : Covered(e, n)
    BY DEF IInv, SpendRecordedOrPending
  <2>5. m \in Nat /\ n <= m
    BY <2>2, <2>3, <2>4 DEF Covered
  <2>6. spend[e] <= Attempts * n
    BY <2>4 DEF Covered
  <2> HIDE DEF m
  <2>7. Attempts * n <= Attempts * m /\ Attempts * n \in Nat /\ Attempts * m \in Nat
    BY <2>5, ChargesCover
  <2>8. spend[e] <= Attempts * m
    BY <2>3, <2>6, <2>7
  <2>9. QED
    BY <2>8 DEF m
<1>2. QED
  BY <1>1, Invariant, PTL
=============================================================================
