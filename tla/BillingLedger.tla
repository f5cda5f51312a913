---------------------------- MODULE BillingLedger ----------------------------
(***************************************************************************)
(* How what happened becomes the record money is owed by: the handlers of  *)
(* main.go, the signed token that ties a beacon to a decision (tokens.go), *)
(* the event sink that writes to S3 (sink_s3.go), and the Lambda bridge    *)
(* that runs one after the other (lambda.go).                              *)
(*                                                                         *)
(* An invocation runs its handler, flushes the sink, and only then returns *)
(* the response.  The container may be cut short between any two of these  *)
(* steps, and S3 or DynamoDB may fail.  A browser learns a token from the  *)
(* response to an ad request, and may send a beacon for it repeatedly.     *)
(***************************************************************************)
EXTENDS Integers, Sequences, FiniteSets

CONSTANTS
    Containers,     \* Lambda execution environments
    Requests,       \* ad requests, by request_id
    Pricing,        \* Pricing[r]: PricingModel of what r is billed to
    Attempts,       \* times the SDK may apply one UpdateItem it retries
    MaxBeacons,     \* bound: beacons of a kind sent for one token
    None            \* no event

Beacons == {"impression", "click"}
Events == [kind : Beacons \cup {"request"}, request : Requests]

ASSUME ContainersAssumption == IsFiniteSet(Containers)
ASSUME PricingAssumption == Pricing \in [Requests -> {"CPM", "CPC", "CPA"}]
ASSUME AttemptsAssumption == Attempts \in Nat \ {0}
ASSUME MaxBeaconsAssumption == MaxBeacons \in Nat
ASSUME NoneAssumption == None \notin Events

VARIABLES
    job,        \* job[c]: the event container c's invocation is about, or None
    stage,      \* stage[c]: how far that invocation is
    buffer,     \* buffer[c]: S3EventSink.buffer
    batch,      \* batch[c]: what Flush took from it and is writing
    reply,      \* reply[c]: whether the response carries an ad
    token,      \* requests whose token a browser holds
    ledger,     \* ledger[e]: objects in S3 that record e
    spend,      \* spend[e]: times e was added to the serving budget
    begun,      \* history: invocations begun for e
    answered,   \* history: responses returned for e
    putFailed,  \* history: PutObjects of e that returned an error
    cut         \* history: invocations for e that were cut short

histories == <<begun, answered, putFailed, cut>>
vars == <<job, stage, buffer, batch, reply, token, ledger, spend, histories>>

Zeros == [e \in Events |-> 0]

Init ==
    /\ job = [c \in Containers |-> None]
    /\ stage = [c \in Containers |-> "idle"]
    /\ buffer = [c \in Containers |-> <<>>]
    /\ batch = [c \in Containers |-> <<>>]
    /\ reply = [c \in Containers |-> FALSE]
    /\ token = {}
    /\ ledger = Zeros
    /\ spend = Zeros
    /\ begun = Zeros
    /\ answered = Zeros
    /\ putFailed = Zeros
    /\ cut = Zeros

Goto(c, from, to) ==
    /\ stage[c] = from
    /\ stage' = [stage EXCEPT ![c] = to]

\* S3EventSink.Emit of the event the invocation is about.
Emit(c) == buffer' = [buffer EXCEPT ![c] = Append(@, job[c])]

Handling(c, kinds) == job[c] # None /\ job[c].kind \in kinds

------------------------------------------------------------------------------

\* The bridge hands a request of its own to a container that is not busy: an ad
\* request once, a beacon as often as the browser that holds the token sends it.
\* Beacons whose token fails verify, and clicks on a creative the control plane
\* does not hold, are refused without effect and left out.
Begin(c, e) ==
    /\ Goto(c, "idle", "begun")
    /\ \/ e.kind = "request" /\ begun[e] = 0
       \/ e.kind \in Beacons /\ e.request \in token /\ begun[e] < MaxBeacons
    /\ job' = [job EXCEPT ![c] = e]
    /\ begun' = [begun EXCEPT ![e] = @ + 1]
    /\ UNCHANGED <<buffer, batch, reply, token, ledger, spend, answered, putFailed, cut>>

\* handleAdRequest: an ad with a freshly minted token, or no ad, and in both
\* cases the event.
DecideAd(c, filled) ==
    /\ Handling(c, {"request"})
    /\ Goto(c, "begun", "handled")
    /\ Emit(c)
    /\ reply' = [reply EXCEPT ![c] = filled]
    /\ UNCHANGED <<job, batch, token, ledger, spend, histories>>

\* handleAdRequest when the winning network bid came without markup, so that its
\* creative is looked up in the control plane and not found: no ad, and no event.
CreativeMissing(c) ==
    /\ Handling(c, {"request"})
    /\ Goto(c, "begun", "handled")
    /\ UNCHANGED <<job, buffer, batch, reply, token, ledger, spend, histories>>

\* What is charged to the serving budget when: handleImpression charges CPM line
\* items, handleClick CPC ones, and nothing charges CPA.
Chargeable(e) ==
    \/ e.kind = "impression" /\ Pricing[e.request] = "CPM"
    \/ e.kind = "click" /\ Pricing[e.request] = "CPC"

\* AddSpend, an UpdateItem ADD that fails without its caller being told, and that the
\* SDK may apply more than once.
Charge(c) ==
    /\ Handling(c, Beacons)
    /\ Chargeable(job[c])
    /\ Goto(c, "begun", "charged")
    /\ \E n \in 0..Attempts : spend' = [spend EXCEPT ![job[c]] = @ + n]
    /\ UNCHANGED <<job, buffer, batch, reply, token, ledger, histories>>

\* handleImpression and handleClick record the beacon under a new event_id.
Record(c) ==
    /\ Handling(c, Beacons)
    /\ Goto(c, IF Chargeable(job[c]) THEN "charged" ELSE "begun", "handled")
    /\ Emit(c)
    /\ UNCHANGED <<job, batch, reply, token, ledger, spend, histories>>

\* S3EventSink.Flush takes the buffer, and has nothing to write if it is empty.
FlushNothing(c) ==
    /\ Goto(c, "handled", "written")
    /\ UNCHANGED <<job, buffer, batch, reply, token, ledger, spend, histories>>

Flush(c) ==
    /\ Goto(c, "handled", IF buffer[c] = <<>> THEN "written" ELSE "writing")
    /\ batch' = [batch EXCEPT ![c] = buffer[c]]
    /\ buffer' = [buffer EXCEPT ![c] = <<>>]
    /\ UNCHANGED <<job, reply, token, ledger, spend, histories>>

\* How often e is in the batch of c.
InBatch(c, e) == Cardinality({i \in 1..Len(batch[c]) : batch[c][i] = e})

Stored(c) == ledger' = [e \in Events |-> ledger[e] + InBatch(c, e)]

\* PutObject writes the batch as one object under a key of its own, so that the
\* SDK's retries write nothing twice.
Put(c) ==
    /\ Goto(c, "writing", "written")
    /\ Stored(c)
    /\ batch' = [batch EXCEPT ![c] = <<>>]
    /\ UNCHANGED <<job, buffer, reply, token, spend, histories>>

\* PutObject returned an error, which is logged and the batch dropped; the
\* object may have been written all the same.
PutFailsUnnoticed(c) ==
    /\ Goto(c, "writing", "written")
    /\ batch' = [batch EXCEPT ![c] = <<>>]
    /\ UNCHANGED <<job, buffer, reply, token, ledger, spend, histories>>

PutFails(c) ==
    /\ Goto(c, "writing", "written")
    /\ Stored(c) \/ UNCHANGED ledger
    /\ putFailed' = [e \in Events |-> putFailed[e] + InBatch(c, e)]
    /\ batch' = [batch EXCEPT ![c] = <<>>]
    /\ UNCHANGED <<job, buffer, reply, token, spend, begun, answered, cut>>

\* The bridge returns the response: the browser learns the token of its ad.
RespondBeforeFlush(c) ==
    /\ stage[c] \in {"handled", "written"}
    /\ stage' = [stage EXCEPT ![c] = "idle"]
    /\ token' = IF reply[c] THEN token \cup {job[c].request} ELSE token
    /\ answered' = [answered EXCEPT ![job[c]] = @ + 1]
    /\ job' = [job EXCEPT ![c] = None]
    /\ reply' = [reply EXCEPT ![c] = FALSE]
    /\ UNCHANGED <<buffer, batch, ledger, spend, begun, putFailed, cut>>

Respond(c) ==
    /\ Goto(c, "written", "idle")
    /\ token' = IF reply[c] THEN token \cup {job[c].request} ELSE token
    /\ answered' = [answered EXCEPT ![job[c]] = @ + 1]
    /\ job' = [job EXCEPT ![c] = None]
    /\ reply' = [reply EXCEPT ![c] = FALSE]
    /\ UNCHANGED <<buffer, batch, ledger, spend, begun, putFailed, cut>>

\* The container is shut down while idle, or cut short by a crash or a timeout
\* of the invocation; the browser then gets an error from the gateway.
Stop(c) ==
    /\ cut' = IF job[c] = None THEN cut ELSE [cut EXCEPT ![job[c]] = @ + 1]
    /\ job' = [job EXCEPT ![c] = None]
    /\ stage' = [stage EXCEPT ![c] = "idle"]
    /\ buffer' = [buffer EXCEPT ![c] = <<>>]
    /\ batch' = [batch EXCEPT ![c] = <<>>]
    /\ reply' = [reply EXCEPT ![c] = FALSE]
    /\ UNCHANGED <<token, ledger, spend, begun, answered, putFailed>>

Next ==
    \/ \E c \in Containers, e \in Events : Begin(c, e)
    \/ \E c \in Containers, filled \in BOOLEAN : DecideAd(c, filled)
    \/ \E c \in Containers :
          \/ CreativeMissing(c)
          \/ Charge(c)
          \/ Record(c)
          \/ Flush(c)
          \/ Put(c)
          \/ PutFails(c)
          \/ Respond(c)
          \/ Stop(c)

Spec == Init /\ [][Next]_vars

------------------------------------------------------------------------------

TypeOK ==
    /\ job \in [Containers -> Events \cup {None}]
    /\ stage \in [Containers ->
          {"idle", "begun", "charged", "handled", "writing", "written"}]
    /\ buffer \in [Containers -> Seq(Events)]
    /\ batch \in [Containers -> Seq(Events)]
    /\ reply \in [Containers -> BOOLEAN]
    /\ token \subseteq Requests
    /\ ledger \in [Events -> Nat]
    /\ spend \in [Events -> Nat]
    /\ begun \in [Events -> Nat]
    /\ answered \in [Events -> Nat]
    /\ putFailed \in [Events -> Nat]
    /\ cut \in [Events -> Nat]

\* "Nothing is held across invocations" (lambda.go): what a container has yet
\* to write is one event of the invocation it is in, so that the shutdown of an
\* idle container loses nothing.
NothingHeldAcross ==
    \A c \in Containers : \A i \in 1..Len(buffer[c] \o batch[c]) :
        (buffer[c] \o batch[c])[i] = job[c]

\* An impression or click that was acknowledged is in the ledger, or its loss
\* was reported: no failure or shutdown after the response can undo it.
AcknowledgedIsRecorded ==
    \A e \in Events :
        e.kind \in Beacons => answered[e] <= ledger[e] + putFailed[e]

\* A beacon in the ledger has its request there too, unless the loss of that
\* was reported: the token leaves only after the request is flushed.
RequestRecordedFirst ==
    \A e \in Events :
        e.kind \in Beacons /\ ledger[e] > 0 =>
            LET q == [kind |-> "request", request |-> e.request]
            IN  ledger[q] + putFailed[q] > 0

InProgress(e) == Cardinality({c \in Containers : job[c] = e})

\* The budget is charged for nothing the ledger does not know, except what a failed
\* write or a container cut short took with it; and for what it knows no more often
\* than the SDK may apply one update, which nothing reports or corrects.
SpendIsRecorded ==
    \A e \in Events :
        spend[e] <= Attempts * (ledger[e] + putFailed[e] + cut[e] + InProgress(e))
==============================================================================
