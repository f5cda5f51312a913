------------------------------- MODULE CostFuse -------------------------------
(***************************************************************************)
(* The switches that stop the spending: an alarm reaches the cost-fuse      *)
(* function through SNS, which sets the concurrency of the ad server to     *)
(* zero or records the trip of the analytics fuse (services/cost-fuse); a   *)
(* person undoes it with `adlabctl fuse reset` (tools/adlabctl/main.go).    *)
(*                                                                         *)
(* Tripping and resetting are each two calls to two services, in the same   *)
(* order, and nothing keeps them apart.  An invocation that returned an     *)
(* error, timed out or died is run again, and SNS may deliver an alarm      *)
(* twice.  The owner is told by a message of its own, which may fail.       *)
(***************************************************************************)
EXTENDS Integers

CONSTANTS
    Alarms,         \* alarm messages
    KindOf,         \* KindOf[a]: classify of its name
    MaxDeliveries,  \* bound: MaxDeliveries[a]: times SNS delivers alarm a
    MaxAttempts,    \* invocations for one delivery, the first one and Lambda's retries
    MaxResets,      \* bound: resets of the ad fuse
    Concurrency     \* reserved concurrency of the ad server when it is armed

Kinds == {"AD_FUSE", "ANALYTICS_FUSE", "WARNING"}
Fuses == Kinds \ {"WARNING"}

ASSUME AlarmsAssumption == KindOf \in [Alarms -> Kinds]
ASSUME CountsAssumption ==
    /\ MaxDeliveries \in [Alarms -> Nat] /\ MaxResets \in Nat
    /\ MaxAttempts \in Nat \ {0} /\ Concurrency \in Nat \ {0}

VARIABLES
    concurrency,    \* reserved concurrent executions of the ad server
    fuse,           \* fuse[k]: state of the row FUSE#k, ARMED if there is none
    handling,       \* handling[a]: how far the handling of alarm a is
    deliveries,     \* deliveries[a]: times it was delivered
    attempts,       \* attempts[a]: invocations begun for the last delivery
    resetting,      \* whether fuseReset is between its two calls
    resets,         \* resets of the ad fuse begun
    ownerTold,      \* history: alarms of which the owner was told, since the last
                    \* delivery, that the server could not be stopped
    silent,         \* history: silent[a]: how many of those invocations were cut short,
                    \* or did not get their notice through
    disturbed       \* history: a call failed, or a trip was cut short or met a reset, since the
                    \* last trip or reset that went through undisturbed

runs == <<deliveries, attempts>>
notices == <<ownerTold, silent>>
fuseVars == <<concurrency, fuse, handling, runs, resetting, resets, notices, disturbed>>

FuseInit ==
    /\ concurrency = Concurrency
    /\ fuse = [k \in Fuses |-> "ARMED"]
    /\ handling = [a \in Alarms |-> "none"]
    /\ deliveries = [a \in Alarms |-> 0]
    /\ attempts = [a \in Alarms |-> 0]
    /\ resetting = FALSE
    /\ resets = 0
    /\ ownerTold = {}
    /\ silent = [a \in Alarms |-> 0]
    /\ disturbed = FALSE

Step(a, from, to) ==
    /\ handling[a] = from
    /\ handling' = [handling EXCEPT ![a] = to]

Halfway == {a \in Alarms : handling[a] = "stopped"}

\* SNS delivers an alarm: for the first time, or again after it was dealt with.  The
\* retry of an invocation that was cut short when all but its last message was done is
\* no different.
Invoke(a) ==
    /\ handling[a] \in {"none", "handled", "gave_up"}
    /\ deliveries[a] < MaxDeliveries[a]
    /\ handling' = [handling EXCEPT ![a] = "invoked"]
    /\ deliveries' = [deliveries EXCEPT ![a] = @ + 1]
    /\ attempts' = [attempts EXCEPT ![a] = 1]
    /\ ownerTold' = ownerTold \ {a}
    /\ silent' = [silent EXCEPT ![a] = 0]
    /\ UNCHANGED <<concurrency, fuse, resetting, resets, disturbed>>

\* The handler failed: it is invoked again, as often as Lambda does.
ErrsSwallowed(a, from) ==
    /\ handling[a] = from
    /\ handling' = [handling EXCEPT ![a] = "handled"]
    /\ UNCHANGED runs

Errs(a, from) ==
    /\ handling[a] = from
    /\ IF attempts[a] < MaxAttempts
       THEN /\ handling' = [handling EXCEPT ![a] = "invoked"]
            /\ attempts' = [attempts EXCEPT ![a] = @ + 1]
       ELSE /\ handling' = [handling EXCEPT ![a] = "gave_up"]
            /\ UNCHANGED attempts
    /\ UNCHANGED deliveries

\* The ad fuse: PutFunctionConcurrency to zero.
StopServing(a) ==
    /\ KindOf[a] = "AD_FUSE"
    /\ Step(a, "invoked", "stopped")
    /\ concurrency' = 0
    /\ disturbed' = resetting
    /\ UNCHANGED <<fuse, runs, resetting, resets, notices>>

\* It returned an error, and may have been applied.
StopServingFails(a) ==
    /\ KindOf[a] = "AD_FUSE"
    /\ Step(a, "invoked", "failed")
    /\ concurrency' \in {concurrency, 0}
    /\ disturbed' = TRUE
    /\ UNCHANGED <<fuse, runs, resetting, resets, notices>>

Silently(a) == silent' = [silent EXCEPT ![a] = @ + 1] /\ UNCHANGED ownerTold

\* Then notify, whose own failure is logged and no more, and the error is returned.
Notify(a) ==
    /\ Errs(a, "failed")
    /\ \/ ownerTold' = ownerTold \cup {a} /\ UNCHANGED silent
       \/ Silently(a)
    /\ UNCHANGED <<concurrency, fuse, resetting, resets, disturbed>>

\* recordTrip, whose failure is logged and no reason to run again.  (That the server
\* was stopped is told as well; nothing depends on it.)
RecordTrip(a) ==
    /\ Step(a, "stopped", "handled")
    /\ \/ fuse' = [fuse EXCEPT !["AD_FUSE"] = "TRIPPED"] /\ UNCHANGED disturbed
       \/ UNCHANGED fuse /\ disturbed' = TRUE
    /\ UNCHANGED <<concurrency, runs, resetting, resets, notices>>

\* The analytics fuse: recordTrip is all there is.
RecordAnalyticsTrip(a) ==
    /\ KindOf[a] = "ANALYTICS_FUSE"
    /\ Step(a, "invoked", "handled")
    /\ fuse' = [fuse EXCEPT !["ANALYTICS_FUSE"] = "TRIPPED"]
    /\ UNCHANGED <<concurrency, runs, resetting, resets, notices, disturbed>>

RecordAnalyticsTripFails(a) ==
    /\ KindOf[a] = "ANALYTICS_FUSE"
    /\ Errs(a, "invoked")
    /\ fuse' \in {fuse, [fuse EXCEPT !["ANALYTICS_FUSE"] = "TRIPPED"]}
    /\ UNCHANGED <<concurrency, resetting, resets, notices, disturbed>>

\* A warning is passed on and nothing else.
Warn(a) ==
    /\ KindOf[a] = "WARNING"
    /\ Step(a, "invoked", "handled")
    /\ UNCHANGED <<concurrency, fuse, runs, resetting, resets, notices, disturbed>>

\* The invocation times out or dies, and the call it was making may have been applied.
CutShort(a) ==
    /\ Silently(a)
    /\ \/ /\ Errs(a, "invoked")
          /\ IF KindOf[a] = "AD_FUSE"
             THEN concurrency' \in {concurrency, 0} /\ disturbed' = TRUE
             ELSE UNCHANGED <<concurrency, disturbed>>
          /\ fuse' \in {fuse} \cup {[fuse EXCEPT ![k] = "TRIPPED"] :
                                     k \in {KindOf[a]} \cap {"ANALYTICS_FUSE"}}
       \/ /\ Errs(a, "stopped")
          /\ fuse' \in {fuse, [fuse EXCEPT !["AD_FUSE"] = "TRIPPED"]}
          /\ disturbed' = TRUE
          /\ UNCHANGED concurrency
       \/ Errs(a, "failed") /\ UNCHANGED <<concurrency, fuse, disturbed>>
    /\ UNCHANGED <<resetting, resets>>

Handle(a) ==
    \/ StopServing(a) \/ StopServingFails(a) \/ Notify(a) \/ RecordTrip(a)
    \/ RecordAnalyticsTrip(a) \/ RecordAnalyticsTripFails(a) \/ Warn(a) \/ CutShort(a)

------------------------------------------------------------------------------

\* fuseReset of the ad fuse: the concurrency first; an error here ends it.
ResetAdFuse ==
    /\ ~resetting
    /\ resets < MaxResets
    /\ resets' = resets + 1
    /\ resetting' = TRUE
    /\ concurrency' = Concurrency
    /\ disturbed' = (Halfway # {})
    /\ UNCHANGED <<fuse, handling, runs, notices>>

\* Then the row, or an error, which leaves it as it was; an error of the first call
\* that was applied nevertheless comes to the same.
RearmAdFuseNever ==
    /\ resetting
    /\ resetting' = FALSE
    /\ UNCHANGED <<fuse, disturbed, concurrency, handling, runs, resets, notices>>

RearmAdFuse ==
    /\ resetting
    /\ resetting' = FALSE
    /\ \/ fuse' = [fuse EXCEPT !["AD_FUSE"] = "ARMED"] /\ UNCHANGED disturbed
       \/ UNCHANGED fuse /\ disturbed' = TRUE
    /\ UNCHANGED <<concurrency, handling, runs, resets, notices>>

\* fuseReset of the analytics fuse is the row only.
ResetAnalyticsFuse ==
    /\ fuse["ANALYTICS_FUSE"] = "TRIPPED"
    /\ fuse' = [fuse EXCEPT !["ANALYTICS_FUSE"] = "ARMED"]
    /\ UNCHANGED <<concurrency, handling, runs, resetting, resets, notices, disturbed>>

Reset == ResetAdFuse \/ RearmAdFuse \/ ResetAnalyticsFuse

FuseNext == (\E a \in Alarms : Invoke(a) \/ Handle(a)) \/ Reset

\* Lambda runs the handler it has invoked, again if it has to.
FuseSpec == FuseInit /\ [][FuseNext]_fuseVars /\ \A a \in Alarms : WF_fuseVars(Handle(a))

------------------------------------------------------------------------------

FuseTypeOK ==
    /\ concurrency \in {0, Concurrency}
    /\ fuse \in [Fuses -> {"ARMED", "TRIPPED"}]
    /\ handling \in
          [Alarms -> {"none", "invoked", "stopped", "failed", "handled", "gave_up"}]
    /\ deliveries \in [Alarms -> Nat]
    /\ \A a \in Alarms : deliveries[a] <= MaxDeliveries[a]
    /\ attempts \in [Alarms -> 0..MaxAttempts]
    /\ resetting \in BOOLEAN
    /\ resets \in 0..MaxResets
    /\ ownerTold \subseteq Alarms /\ silent \in [Alarms -> Nat]
    /\ disturbed \in BOOLEAN

\* What `adlabctl fuse status` reads from the row is what the ad server does, as
\* soon as no trip or reset of the ad fuse is half done, unless a call failed, a trip
\* was cut short or a trip met a reset, and until the next one goes through.
StatusTruthful ==
    Halfway = {} /\ ~resetting /\ ~disturbed =>
        (fuse["AD_FUSE"] = "TRIPPED" <=> concurrency = 0)

\* An alarm of the ad fuse stops the ad server, or its owner is told that it could
\* not, or each and every invocation for it was cut short or failed to tell: it takes
\* as many mishaps as there are invocations for an alarm to end in silence.
EndsInSilence(a) == handling[a] = "gave_up" /\ silent[a] = MaxAttempts

AlarmActedOn ==
    \A a \in {b \in Alarms : KindOf[b] = "AD_FUSE"} :
        handling[a] = "invoked" ~>
            (concurrency = 0 \/ a \in ownerTold \/ EndsInSilence(a))
==============================================================================
