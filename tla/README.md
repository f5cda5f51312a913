# adtech-lab in TLA+

adtech-lab is a small but complete advertising stack: a browser games site that
shows ads, an ad server that decides them (one Lambda function, or one local
process), a buyer that bids over HTTP, switches that cut the spending, and a fleet
of command line agents that read the logs, adjust the configuration and report.
This directory models the parts of it that keep state, wait for one another, or
decide about money and promises. Paths below are relative to `src/`.

- [The system](#the-system): components, state, operations, what is hard
- [The modules](#the-modules): what each models and how it maps to the code
- [The runs](#the-runs): what is checked, with which bounds, and why they suffice
- [The disagreements](#the-disagreements): what the code does and its docs deny
- [The proofs](#the-proofs): what holds for every value of the constants
- [The plan](#the-plan): what could come next
- [Not modelled](#not-modelled)

## The system

### How a request flows

```
 page (adtag.js, adlab.js)  ad server (Lambda container)              shared
 -------------------------  ----------------------------              ------
 POST /ad/request  ---->  handleAdRequest
                            control plane snapshot <---- Get/load --- DynamoDB
                            Assign, ResolveFields
                            callBuyers ----------------> mini-DSP /bid
                            Decide: SpendToday, Capped <------------- DynamoDB
                            runAuction, Allocate
                            notifyWin -----------------> mini-DSP /win
                            freq.Increment -------------------------> DynamoDB
                            MintToken, sink.Emit
 ad + token       <-----    Flush ----------------------------------> S3
 observer, timer, queue
 GET /event/impression -->  handleImpression: verify, AddSpend ------> DynamoDB
                            sink.Emit, Flush ------------------------> S3
 POST /collect    ----->    handleCollect: sink.Emit, Flush ---------> S3

 S3 logs --> agents (yieldctl, integrityctl, demandctl, orchestratorctl, ...)
         --> proposals, issues, digests --> adlabctl seed --> DynamoDB
 CloudWatch alarm --> SNS --> cost-fuse --> Lambda concurrency, fuse rows
 a person --> adlabctl fuse reset -------^
```

The same handlers run in two ways. Locally, `net/http` starts a goroutine per
request and the stores are maps under mutexes. In production a Lambda container
handles one request at a time, several containers run at once, the stores are
DynamoDB tables with a cache in each container, and a container can disappear
between any two steps.

### Components

| Component | State it keeps | Operations | Hard behaviour | Correct when |
|---|---|---|---|---|
| Frequency cap, local (`frequency.go`) | counts, last seen | Count, Increment, Capped | the check is under a lock, the increment after it | a session gets a capped ad N times, or knows why more; never suppressed early |
| Frequency cap, DynamoDB (`store_dynamodb.go`) | a row per session and line item, a cache per container | Count, Increment | stale reads and caches, failed and repeated writes, TTL, replaced containers | the overshoot has a known bound; nothing is suppressed for impressions never recorded |
| Budget, DynamoDB (`store_dynamodb.go`) | a row per line item and day, a cache with one expiry per container | SpendToday, AddSpend | charge long after check, cache expiry in a decision, midnight, failed and stale reads | exhausted budgets stop within the window and a read's lag, unexhausted ones are never held back for longer |
| Budget, local (`state.go`) | a map | SpendToday, AddSpend | never reset | as above, for one process and one day |
| Decision (`decision.go`, `auction.go`, `allocation.go`) | none, one request | Decide, runAuction, Allocate | two rankings composed; stages that describe themselves before the next one overrules them | contracts are honoured, the best bid pays its price, records say what happened |
| Handlers, token, sink, bridge (`main.go`, `tokens.go`, `sink_s3.go`, `lambda.go`) | the buffer of an invocation | handle*, Mint/VerifyToken, Emit, Flush | crash between steps, failed put, repeated beacon | what was acknowledged is recorded |
| Control plane (`store_dynamodb.go`, `adlabctl seed`) | a snapshot per container, 60 s | Get, load, seed | concurrent loads, torn scans, a failing refresh, a seed that stops half way | what was written is picked up, and not undone |
| Experiments, fields (`experiment.go`, `bidrequest.go`) | none | Assign, Validate, ResolveFields | gaps, overlaps, unvalidated input | one arm per unit, holdout kept |
| Network buyers (`httpbuyer.go`) | the calls of a request | callBuyers, callOne, notifyWin | shared deadline, late answers, lost notices | a bad buyer never stops an auction, and is recorded for what it did |
| mini-DSP (`services/mini-dsp`) | spend, frequency, counters | Decide, NotifyWin | only notices move its state | its over-delivery is explained by what it could not know |
| Cost fuse (`services/cost-fuse`, `adlabctl fuse`) | concurrency, fuse rows | trip, reset | redelivery, half-done trips, a reset that meets a trip | the record says what the server does; an alarm is acted on |
| Yield controller (`tools/yieldctl`) | bucket ranges | Allocate, layout, propose, Evaluate, Verdict | rounding, bounds that conflict, incomplete logs, iteration | ranges tile the space, the holdout stays, promotion is earned |
| Orchestrator (`tools/orchestratorctl`) | health, progress, last briefing | Observe, Assess, CheckFleet, Decide, Record | blind sources, runs that fail half way, lost pushes, queued runs on old files | tell once, retry once, raise once, never forget |
| Ad tag (`adtag.js`) | viewability timers, dwell time | render, watchViewability, finish | callbacks in any order, late ones, page hide | what it reports was shown |
| Measurement client (`adlab.js`) | the queue | track, flush, revealEndgame | a page that is killed when hidden | nothing tracked while it was shown is left behind |
| Pacing (`pacing.go`) | none | Pace, Project | boundaries of the day | spend follows the curve |
| Traffic filter, agent kit (`filter.go`, `tools/agentkit`) | none | Classify; GuardWrite, mapping | - | no write above an agent's stage |
| Integrity (`tools/integrityctl`) | a fold per session | load, Review | events out of order | verdicts do not depend on order |
| Games (`apps/publisher/static`) | boards, records | moves | - | rules of each game |
| Other agents (`tools/*ctl`, `supplychain`, `trafficsim`, `notify`) | none across runs | reports | - | arithmetic of the reports |

The hazards that follow from the hard behaviour are listed one by one, at their
lines, in `PROJECT.json`, with the properties that would catch each going wrong.

## The modules

| Module | Models | Extends or instantiates |
|---|---|---|
| `SessionCap` | the promise of a frequency cap, whoever counts | - |
| `MemoryFrequency` | the local store and the handler around it | instantiates `SessionCap` |
| `DynamoFrequency` | the production store in a fleet of containers | instantiates `SessionCap` |
| `DailyBudget` | the promise of a daily budget, whoever keeps the books | - |
| `DynamoBudget` | daily budgets from the check to the charge | instantiates `DailyBudget` |
| `BillingLedger` | handlers, token, sink and bridge up to the S3 object | - |
| `AdDecision` | one decision from line items to answer | - |
| `Experiments` | assignment of units to arms, Validate, fields of a bid request | - |
| `MiniDSP` | a buyer: its campaigns and its books | - |
| `NetworkDemand` | calls, auction and notices between ad servers and buyers | `MiniDSP`, `Experiments` |
| `ControlPlane` | `adlabctl seed` against the snapshot of a process | - |
| `CostFuse` | trips and resets of the fuses | - |
| `YieldController` | runs of the controller over its own proposals | `Experiments` |
| `Plan` | what the orchestrator observes, and what follows for each step | - |
| `Fleet` | the daily run of the orchestrator, agents and commits | `Plan` |
| `Page` | ad tag and measurement client in one page of a browser | - |
| `MC...` | the values of the constants for TLC | the module they name |
| `OperationsProofs` | the theorems about the control plane, the fleet, the fuse and the controller | those four and `TLAPS` |
| other `...Proofs` | the theorems about a module | that module and `TLAPS` |

Operators named for how they differ from the one below them
(`CappedPastLimit`, `RespondBeforeFlush`, `StopKeepsTimer`, ...) are slips a change to
the code could make. No specification uses them; they show that each property can
fail. Variables called history in a module are read by properties only.

`OperationsProofs` extends four components that share nothing, so those have names of
their own for what every specification has: `Fuse...`, `Fleet...` and `Yield...` before
`Init`, `Next` and `Spec`, with the bare names left to `ControlPlane`.

### SessionCap, MemoryFrequency, DynamoFrequency

`SessionCap` has one variable, the impressions of each key in its current window,
and says that they grow one at a time, up to a limit known in advance. Each store
instantiates it with the slack that store really has.

`MemoryFrequency` splits a request where the code does: `Decide` is everything
under `rngMu`, in which `Capped` is asked; `Increment` is the call after the
unlock. A count older than the TTL reads as zero and is restarted by the next
increment (`lapsed`). Keys are pairs of session and line item. A request without
a session and a line item without a cap never reach the store and are no keys.

`DynamoFrequency` has a row per key and a cache per container. `ReadThrough` is a
miss of `Count` whose read succeeded; a read that fails is answered with zero and
changes nothing, so it is part of `Count` rather than an action. The code does not ask
for consistent reads (`store_dynamodb.go:322`), so a read may return any count the row
has had (`held`). `Decide` (`decision.go:226-228`) counts a line item a second time for
the trace, after `Capped`: a container may read the row of the key it is already
serving, find the cap reached, and serve it all the same. `Increment` adds
to the row, as often as the SDK retries an update that was applied but not
answered, and then to the container's cache; `IncrementFails` may or may not have
reached the row and leaves the cache alone. Nothing expires the cache: that is what
the code does. `RowExpires` is DynamoDB's TTL and `Recycle` a replaced container.

### DailyBudget, DynamoBudget

`DailyBudget` knows what was charged today, what reports of ads are still to come, how
long a budget has been spent, and which servers lost sight of a spend. An ad is served
while the budget lasts, for a window after it was spent, or by a server that has no
account of the spend but what it charged itself; nothing is charged but a report, at most `Charges` times. It has
no caches, and it promises more than "not served on for long": what a day's books may
come to, every report still out counted as often as it may be charged, grows only with ads
that may be served (`CommittedWithinBudget`).

`DynamoBudget` keeps that promise, its row for the charges, its beacons for the reports,
its decisions without an account of the row (`blind`) for what was lost sight of: their
read failed, or they were told the entry that a charge had begun from nothing in their
container (`partial`). `SpendToday` is asked for line
item after line item (`seen` is what it has said so far), each answer from the cache,
from the row, or zero after a failed read. The code does not ask for consistent reads
(`store_dynamodb.go:232`), so a read returns the row as it is or as it was within
`ReadLag` ticks; that lag is cached with it, and the window of the promise is `TTL +
ReadLag` (`Late`). The cache has a single expiry (`age`), and
only `cachedSpend` notices it; `AddSpend` does not, and starts an entry it does not find
from nothing. Serving (`Serve`) and charging (`Charging`) are separate actions with the
browser in between (`beacons`): any container may get the beacon, at any time. `Tick`
ages caches and lets a decision live through at most one tick, since it takes
milliseconds and the window seconds. `Midnight` names a new row, `spendKey` having a
date in it, while the caches do not. `row` is always today's row.

Money is counted in impressions. Line items without a budget, and those charged per
click or action, are left out: none of them is both checked and charged by the
impression.

### BillingLedger

An invocation goes through the stages the bridge gives it: begun, charged, handled,
writing, written, answered. The handler's `Emit` fills the buffer, `Flush` takes it,
`Put` writes it, and only then does the response leave, and with it the token that
makes beacons possible. `PutFails` drops the batch, written or not; `Stop` ends the
container anywhere. `AddSpend` reports no error to its caller, so `Charge` may have
had no effect; and it is an `ADD` that the SDK may apply more than once, when an update
was applied and its answer lost, so it may have had the effect up to `Attempts` times.

A network bid without markup is the one case in which a decided ad has neither ad
nor event (`CreativeMissing`). Beacons that fail verification have no effect and are
left out.

### AdDecision

The loop of `Decide` over line items (`Consider`), its sort, rule and trace
(`Decide`), the guarantee (`AllocateGuaranteed`), the bids in the order runAuction
takes them (`NetworkBid`, `LocalBid`), its sort and verdict together with
Allocate's comparison (`CloseAuction`) and what the handler makes of the result
(`Answer`). Which check excludes a line item, whether the pacer lets it serve and
what a buyer answers are free choices; what follows from them is the code's.
Sorting is modelled by what a stable sort puts first. Money is in half cents, so
that `round2` has something to round.

### Experiments

Pure operators, shared by the server and the controller. `Assign` is the code's, with
its fallbacks (no such experiment, inactive, no arm for the bucket); the hash is a
function given to the model. `Validate` goes through the arms in the order of their
ranges and compares each with a cursor; the cursor before an arm is the end of the last
non-empty range ahead of it (`Cursor`, `Passed`), which needs no recursion, so that
theorems can be about it. Ranges that begin together keep their order, as Go's sort
leaves them for a dozen arms or fewer. Problems are reported by kind. `ResolveFields`
asks one experiment per optional field.

### MiniDSP and NetworkDemand

`MiniDSP` is one process per buyer: `Decide` and `NotifyWin` each hold the mutex of the
bidder throughout and are one step each; a restart forgets everything, since nothing is
written. Prices are random between six tenths of the maximum and the maximum; a model
price is the integer the budget counts.

`NetworkDemand` puts ad servers in front of them. A request is called for under `rngMu`
(`Call`: one at a time in a process, any number in several), every buyer by a goroutine
of its own (`out`), against one deadline (`Expire`). The deadline is set on the context
of the ad request, so a client that goes away (`Disconnect`) ends the wait as the
deadline does. `Respond`, `ConnectionFails` and `Decode` classify answers as `callOne`
does: the order in which it looks at error, context, status and body decides what a
buyer is recorded for; a body may break off while it is read (`Tear`). A buyer that is too
late still does its work and counts its bid. `Allocate` is `wg.Wait`, auction and sale,
against everything else there is to serve (`rival`); the notice to the winner is a
goroutine that may come late or not at all (`Deliver`, `Lose`), for in a Lambda function
it outlives the invocation. The floor and the fields of a bid request are those that
`Experiments` assigns.

### ControlPlane

A file is a sequence of items; an item in the table, in a scan and in the snapshot is
known by the version of the file it was last written from. `SeedItem` writes one item,
or skips a buyer on this machine; `SeedStops` is the end or the first failed write.
`Miss`, `Scan`, `Store` and `ScanFails` are `Get` and `load`, page by page, for
several requests at once: the code takes no lock across the scan. What is stored last
stays, with a fresh `loadedAt`. The scan asks for no consistent reads: an item comes as it
is or, until the table has been left alone for `ReadLag` ticks, as it was (`Reads`). An item
that does not decode is dropped (`applyItem`, here `Applied`) and is not in use; which those
are is given to the model, since all depends on the item.

### CostFuse

The trip of the ad fuse is two calls (`StopServing`, `RecordTrip`), the reset two in
the same order (`ResetAdFuse`, `RearmAdFuse`), and nothing keeps the four apart. A call
that failed may have been applied. When the first call fails the handler tells the owner
before it returns the error (`Notify`), and a message that SNS does not take is logged
and no more. An invocation may be cut short at any stage, by its timeout or a crash, with
the call it was making applied or not (`CutShort`). One that returned an error or was cut
short is run again, up to `MaxAttempts` times for a delivery, and then given up; SNS may
deliver an alarm again (`MaxDeliveries`), which is also what the retry of an invocation
comes to that was cut short in its last message.
`disturbed` is history: a call failed, or a trip was cut short or met a reset, since the
last one that went through. `ownerTold` and `silent` are history too: of which alarms the
owner was told that the server could not be stopped, and how many invocations of a
delivery were cut short or could not tell. Giving up is not telling: `AlarmActedOn` says
that an alarm ends in neither only if every one of them was silent (`EndsInSilence`).

### YieldController

One experiment, its arms in the order of their names, shares counted in buckets. `Logs` is
everything the log of a run may say: which arms it has, of the file or not (the control
that `Assign` falls back on by name, an arm renamed or taken out since), and of each
whether it breaches a guardrail, earns nothing or something. `lo`, `hi` and `waterFill` are
Allocate's bounds and its two rounds of giving out room; an arm that is not in the file
has no share to move from, and gets one all the same. The bounds are whole buckets; what
is given out between them is not, and the model has every share as `Layout` rounds it
(`Rounded`, and the half of `Remainder`): the parts of n buckets may come to more or less
than n, by half a bucket for each. The sampled revenue decides only the proportions, so
every division of the room within the bounds is a behaviour. `Layout` gives the last
arm the rest, and with it what the rounding left or took. `unlike` counts the proposals that
were entered for a log whose arms were not those of the file. A sum (`Total`) is the number of its units, the pairs of an arm and one of
its buckets, rather than a recursion over arms. `Enter` is the person who takes over what
was printed. The control is the first arm by name, as it is for `floor_price` and
`buyer_tmax`. For `field.user_eids` it is not ("send" after "omit"), and there the first
run applied would exchange the sides of the split: Allocate lays arms out by name whatever
the order of their ranges in the file. `Evaluate` and `Verdict` are the shadow mode, over
records.

### Plan and Fleet

`Plan` is pure: what an observation of the world is when some sources do not answer
(`Observe`; an unknown number is negative and not zero), and for each of the ten steps
whether it is verified, blocked, done, in conflict, ready, or next.

`Fleet` is the daily run. It checks out the files and decides everything at once
(`Begin`: the code reads the sources, then works on what it read), acts on the agents in
the order of their names, celebrates, sends the briefing, and commits at the end;
`Lose` is a runner that dies or a push that is rejected three times. What is sent,
opened or started is out before it is remembered. Runs do not overlap, but one that is
triggered while another is under way waits (`Trigger`, replacing one that did), and what it
checks out is the commit of then (`waiting`, `base`): it skips (`Skip`), or begins on files
that lack what the other pushed. Its own push is then rebased: what only one side changed
is merged, and lines both changed conflict, after which nothing is pushed (`Push`).
GitHub is asked about each agent, and may answer for some only (`Answers`). `Runs` are the workflows of the other
agents, `Do` and `Claim` the person who does steps or says so, `Outage` the sources.

### Page

The two scripts run on the one thread of a page, so a callback is one action and what
interleaves is when the browser calls them. `Stop`, `Report`, `Entry` and `Finish` are
the functions of `watchViewability`, `Push`, `Flush` and `RevealEndgame` those of the
transport; `OnHidden` and `OnPagehide` call the listeners of both scripts in the order
they were added, `Once` being a listener that is removed when it is called, whatever
it then does. The browser is external: it runs a timer that is due and tells the tag
where the slot is, each at most `Lag` ticks late; a hidden tab draws no frames and
observes nothing; a page navigated away from may come back from the cache with its
variables as they were (`Show`), or never. `seen`, `left`, `absent`, `gap` record what really was in view.

## The runs

All runs pass. A property that is not true of the code is not among them: what the
code's own docs say and the models refute is under
[The disagreements](#the-disagreements).

| Run | Bounds | Shows |
|---|---|---|
| `memory_frequency` | 3 requests at once, caps 2 and 1 | `Accounting`: no impression escapes the count; `OvershootBounded`: a burst passes a cap by less than the concurrency; `NoEarlySuppression`; the store implements `SessionCap` |
| `dynamo_frequency` | 2 containers, 1 key capped at 2, 2 applications of an update, 1 failed increment, 1 replacement | `ContainerCap`, `FleetCap`: bounds per container and fleet; `NeverOverstates`; every container implements `SessionCap` |
| `dynamo_budget` | 2 containers, budget 2, 2 ads a day each reported twice, window of 2 ticks, reads 1 tick behind, 1 midnight | `NeverAhead`, `FalseExhaustionBounded`: a budget is not exhausted falsely; the fleet implements `DailyBudget`: none is served on for longer than the window and a read's lag, decisions apart whose read failed or whose entry a charge began |
| `billing_ledger` | 2 containers, 1 ad, 2 beacons of each kind, 2 applications of an update | `NothingHeldAcross`, `AcknowledgedIsRecorded`, `RequestRecordedFirst`, `SpendIsRecorded`: what was acknowledged and charged is in the ledger, or its loss was reported, and nothing is charged more often than one update may be applied |
| `ad_decision` | 3 line items, 2 buyers, 3 priorities, 2 values, 4 offers, 2 floors | `GuaranteeHonoured`, `SoldToHighest`, `RecordAddsUp`, `TraceTruthful` |
| `network_demand` | 2 servers, 2 requests of one user, 2 buyers, 2 campaigns, 1 broken answer, broken body or client that leaves, 1 restart | `OutcomesTruthful`: a buyer is recorded for what it did, or for the end of its context or its connection; `OverdeliveryExplained`: a buyer passes cap and budget only for what it could not know; `BooksReconcile`: its three counts against the seller's; `AuctionGoesOn` |
| `control_plane` | 2 scans at once of 2 pages, 4 items, 1 of them not to decode, 2 files, TTL of 2 ticks, scans of 1, reads 1 behind | `PickedUp`: what decodes of a table left alone is in use after the TTL, a scan and the lag; `NeverBackwards`: only a scan that was overtaken takes an item back, or one that read it late or dropped it |
| `cost_fuse` | 2 alarms of the ad fuse, one of them delivered twice, 1 of the analytics fuse, 1 warning, 2 attempts for a delivery, 1 reset | `StatusTruthful`: the record is what the server does; `AlarmActedOn`: an alarm stops the server, or the owner is told, or every attempt was cut short or could not tell |
| `yield` | 3 arms over 20 buckets and a name that is none of theirs, minimum 2, 2 moved per run, any logs, one proposal entered for a log with other arms than the file | `StaysSound`, `HoldoutKept`, `BoundaryBucketsMove`: what runs of the controller leave alone; `ValidateIsExact` against a reference definition; `PromotionEarned` |
| `plan` | 10 steps, 2 games, 2 sets of blind sources, 1 lost run, 1 on older files, no agents | `CelebratedOnce`: a step is told once, and once more for each such run; `PlanFinishes`: the plan has no circular wait and nothing unknown holds it up for good |
| `fleet` | 2 agents of one workflow, 1 lost run, 1 on older files, GitHub silent about one agent at times, the plan standing still | `LadderClimbedOnce`: one retry, then one issue, and once more for each such run; `StaysDownIsRaised` |
| `page` | standard of 2 ticks, lag of 1, queue of 3, 5 ticks, 3 scrolls, 2 switches of the tab, 1 play | `ViewableIsContinuous`, `NeverOverstated`, `DwellReportsAgree`, `NothingLeftBehind` |

Why the bounds are enough:

- *Frequency.* A third request shows that the overshoot grows with the concurrency
  and not just to one; two keys that requests do not mix keys up. In the fleet keys
  do not interact, so one is enough; two containers are what stale caches need, two
  applications of an update what makes the row run ahead of the truth, and one failure
  and one replacement make each slack term of the bounds reachable. `MaxLost` and
  `MaxRecycles` bound the counters and nothing else.
- *Budget.* A budget of two is exhausted by two ads, or by one that is reported twice,
  and a cached spend can be zero, short of it, or at it. A window of two ticks
  separates a cache that is young, old, and over; reads are up to one tick behind, so that
  a window may begin with a spend out of date. One midnight is enough because
  what is cached after a second is no older than a window either. What two line
  items add (an expiry in the middle of a decision) is left to the proofs, which are
  for any number. So is an update that the SDK applies twice: to the row it is what a
  beacon that comes twice is, and the run has those.
- *Ledger.* Ads do not interact: all they share is a container, which forgets one
  invocation before the next. Two beacons make a replay; two containers let beacons
  overtake each other and the request's own invocation. Two applications of an update
  make a single charge exceed its record.
- *Decision.* Three line items give a winner, a runner-up and a third that ties with
  either; priorities 1, 4 and 5 lie below, at the edge of and at a guarantee; offers
  and floors lie below, at (by rounding) and above each other and the line items'
  values.
- *Network.* Two servers decide for one user at once, which is what makes a buyer bid
  in ignorance; the capped campaign is at its cap, and the budgeted one at its budget,
  after one win. The second buyer has nothing to sell, so it is the one that declines,
  breaks, or is late while the first wins. One request is of the arm that leaves the
  floor out, so a bid may come in below it. One restart forgets a notice.
- *Control plane.* Two scans are enough for one to overtake the other; two pages and
  four items for a scan that is half old and half new; of the two files the second changes
  an item, adds one, adds one that seed skips and one that does not decode. A seed may be run again, so a second
  file that stopped half way is completed.
- *Cost fuse.* Two alarms trip at once; one reset meets either of their calls; an attempt
  is followed by a retry, and one alarm by a redelivery.
- *Yield.* Three arms have two boundaries and one arm with two neighbours, and three
  roundings shift a boundary by a bucket; the minimum is more than those come to, as it
  is in the code (500 buckets). Every log with the arms of the file is possible at every
  run, and the run is over all the files that can be reached; one proposal is entered for
  a log with arms missing, or with the fourth name, which sorts first and is that of
  no arm.
- *Plan, fleet.* The plan is complete. Either every source answers, or Reddit refuses
  its API and its first feed while itch's pages are missing, which leaves nothing known of
  games, comments and posts; what a source answers changes between runs, which is when it
  is read. The step that is watched is the post, which is also what is claimed too early.
  Two agents of one workflow are retried together. The runs that may be lost are one, and
  one begins on older files (one is behind by no more than the run it waited for), and
  every property says how much each costs.
- *Page.* The standard is longer than the lag, so that a stretch too short, a gap too
  short to be told of and a late timer differ. Three scrolls leave the ad, enter it and
  leave it again; two switches hide, show and hide again, which is how finish gets to run
  twice. A queue of three overflows in the middle of `game_end`, which tracks two events.

Symmetry is used over containers where nothing distinguishes them, and only for
invariants and action properties. Deadlock is checked except where the system may stop:
a fleet whose every container is capped (`dynamo_frequency`), decisions and auctions
that have ended (`ad_decision`, `network_demand`), alarms that have all been handled
(`cost_fuse`), a page that is left for good (`page`).

No cfg checks a type invariant: those of the modules with proofs are theorems.

### Fairness

Four runs check that something eventually happens. What is assumed:

- `NetworkDemand`: the deadline's timer, the goroutines of `callOne` once it has
  passed, and `Allocate` once all of them are done (weak fairness: each stays enabled
  until it is taken, and the Go runtime runs it). Nothing is assumed of a buyer or of
  the network: `AuctionGoesOn` holds although no buyer ever answers.
- `CostFuse`: Lambda runs a handler that it has invoked (weak). Nothing is assumed of
  SNS, nor that any call succeeds.
- `Fleet`: the workflow has a daily schedule, and a run that has begun goes on (weak for
  its steps; strong for a scheduled run and the next day, which a manual or queued run, a
  lost run or a new day may disable for a while). Again and again GitHub takes an issue and
  Telegram a briefing: a call that always fails never gets through. `PlanFinishes` adds that
  the person does the step the last briefing named, and is conditional on the sources
  answering from some day on. `StaysDownIsRaised` is conditional on the agent staying
  down.

The other components promise nothing that must eventually happen: a browser may never
send its beacon, a Lambda invocation may be cut short for good, a cache that is
never asked never expires, a proposal may never be entered.

## The disagreements

What docs, comments or tests say and the code does not do, met while modelling. The
behaviours are in the models unless noted.

*Ad server*

- "The cap holds within one browsing session" (`frequency.go:33`): two containers each
  serve up to the cap, one request at a time, because a cached count is never reread
  (`store_dynamodb.go:307`). `ContainerCap` and `FleetCap` state what does hold.
- Invocations see "the same slightly-stale spend" (`store_dynamodb.go:187`): the cache may
  expire between two reads of one decision, and the next beacon starts an entry from
  nothing (`store_dynamodb.go:251`), so that an exhausted line item is served on past
  the window it was exhausted in. (It needs two line items.) The promise of `DailyBudget`
  excepts decisions on such entries, next to those whose read failed.
- "The overshoot is bounded by concurrency x impression value"
  (`docs/learning-progress.md:28`): it is bounded by the ads whose beacon is still to
  come, charges being made on the beacon (`main.go:528`).
- "Replays are recorded once in the billing ledger"
  (`docs/architecture-proposal.md:232`): every beacon is recorded under an event id of
  its own (`main.go:528`).
- Remnant demand and bids compete "on PRICE in a single comparison"
  (`allocation.go:17`): line items are ranked by priority first, so a bid may win for
  less than a remnant line item that lost on priority is worth (`allocation.go:70`).
- "1 if it won" (`tools/demandctl/main.go:34`): a bid that remnant demand beat stays
  marked won (`auction.go:192`), and `demand.go:41` books it as revenue.
- "Only reachable for our OWN demand" (a missing creative, `main.go:289`): a network bid
  without markup gets there as well, after its buyer was notified of a win.
- A split with a gap "must never reach the serving path" (`loadControlPlane`): Validate
  runs on fixtures only, and what comes through DynamoDB is used as it is. What that
  costs is the second case of `AssignBucket`: the control, not marked as holdout.

*Cost fuse and control plane*

- "The ad server reads this flag and drops /collect writes"
  (`services/cost-fuse/main.go:124`): `handleCollect` reads no such row. Nothing depends
  on the analytics fuse, so no property is about it.
- "Never fail the trip because the email failed" (`services/cost-fuse/main.go:87`) goes for
  the email that says the trip failed, too: what remains is the log, and an alarm may end
  with the server running and nobody told (`EndsInSilence`).
- "The ad server picks this up within its 60s control-plane TTL"
  (`tools/adlabctl/main.go:117`, of a seed): within
  the TTL, the time of a scan and the lag of its reads, which are eventually consistent
  (`PickedUp`); and an item that does not decode is never picked up, without a log line
  (`store_dynamodb.go:86`).

*Buyers*

- "One buyer was too slow, the other was not there" (`httpbuyer.go:265`): a buyer that is in
  time is recorded as timed out when the client of the ad request leaves, and as
  malformed when its body breaks off on the way or is cut by the deadline.
- A buyer compares its spend with a daily budget (`bidder.go:115`), but nothing resets
  the spend except a restart, which loses it; after one the win rate it reports may
  exceed one, the bids being forgotten whose notices are still to come.

*Yield controller*

- `applyProposal` changes a copy, so `propose --out` writes the file as it was read;
  hence `Enter` is a person.
- "At most 10% of buckets move in one run" (`alloc.go:146`): each boundary may move that
  far (`BoundaryBucketsMove`).
- If every arm breaches its guardrail, the last arm by name gets everything that is
  left (`alloc.go:259`), although a breached arm is to be taken to the minimum.
- The holdout it keeps is the control's current share (`main.go:105`) and not the
  configured one, so the control's share never shrinks again.
- Re-running "does not permute arms across the bucket space" (`alloc.go:247`), but ranges are
  laid out by name whatever their order in the file: for `field.user_eids`, whose control
  "send" comes after "omit", the first run applied exchanges the sides. The model has the
  control first (`ArmsAssumption`).
- An arm missing from the log keeps its range while the others are laid out over all
  buckets: ranges overlap. An arm that is in the log and not in the file is laid out
  with the others, and then nothing is written for it: its buckets are a gap, and if its
  name sorts first the control loses the ones it had (the `unlike = 0` of `StaysSound`
  and `HoldoutKept`).
- The last arm by name bears what the rounding of the others leaves or takes: its share may
  be half a bucket less than the minimum for each arm (`alloc.go:259-262`).
- It reads events called `impression` with their price; the ad server writes
  `ad_impression`, with another field for the source (`main.go:285`, `main.go:552`), so on the
  server's own log every arm breaches. `yieldctl evaluate --shadow FILE`, as documented,
  ends with the usage.
- Days of shadow are records, of whatever experiment or day; the verdict does not ask
  whether an arm had breached.

*Orchestrator*

- The workflow pipes the program through `tee` without `pipefail`: a briefing that was
  not delivered leaves the job green, and three rejected pushes do so too.
- "A rebase is always safe here: nothing they touch overlaps" (`orchestrator.yml:172-173`):
  two runs of the orchestrator write the same files. One that was queued works on those of
  before the other's push (`orchestrator.yml:57-59`, `101`), celebrates, retries or raises
  what the other did, and conflicts with it when both sent a briefing, whose time is
  recorded: then the rebase stops, no attempt can push and what it did is forgotten. Hence
  `stale` in `CelebratedOnce` and `LadderClimbedOnce`.
- A retry that is queued or running counts as healthy, so an agent that always fails may be
  reported as recovered, and the ladder restarts; what holds is per spell of failure
  (`LadderClimbedOnce`).
- A second feed of Reddit that fails yields zero posts and not an unknown number
  (`verify.go:231`): a step that was done is shown as a conflict until the feed answers.
- Progress is saved before an achievement is sent, so one that could not be sent is
  never told (`CelebratedOnce` bounds what is told twice only); `telegram.py` without its configuration exits zero and counts as sent.
- The issue for an agent that never ran says that a retry did not fix it; there was none.

*Page*

- "Report the dwell time once" (`adtag.js:136`): `finish` is registered for two events and
  runs once for each. The two reports agree (`DwellReportsAgree`).
- The transport's flush on a hidden page runs before `finish`, which was registered
  later: the `ad_view_time` stays in the queue, and is lost if the page is killed.
  `NothingLeftBehind` is therefore about what was tracked before.
- After the first hidden tab the observer is disconnected: viewing after that is not
  measured. An ad rendered in a hidden tab loses one of its two listeners when the tab
  is shown. After a hidden tab the observer does not call again by itself, so a stretch in
  view may go uncounted: `NeverOverstated` has no counterpart from below.

## The proofs

TLC's instances are small; the theorems hold for every number of containers, requests,
keys, line items, buyers, campaigns, agents, arms, alarms and scans, every cap, budget,
share, window, standard, lag and bound. They assume only what the modules' named
`ASSUME`s say, and TLC evaluates those on the values of the runs:

- caps, budgets, windows and attempts are positive, money and priorities are numbers, and
  what stands for no value is none;
- a read of a spend is at most `ReadLag` ticks behind, for some number `ReadLag`
  (`ReadLagAssumption`), and so is a scan of a table that was left alone for as long
  (`TicksAssumption`; DynamoDB documents no bound, only that reads are "usually" less
  than a second behind);
- the sets of requests, containers, agents and items are finite, where they are counted;
- every item is on a page of a scan, and a campaign belongs to one buyer
  (`OwnerAssumption`: it is an entry of that bidder's list);
- the arms of an experiment have different names, the control comes first, and the
  ranges at first tile the buckets with the minimum for each (`ArmsAssumption`,
  `FirstEndAssumption`: so do `floor_price` and `buyer_tmax`); the names a log may have
  are different and in an order (`NamesAssumption`), and the bound on proposals entered
  for other arms is a number (`UnlikeAssumption`);
- a promotion needs a day of shadow at least, the code says fourteen, and what a
  request earns is not negative (`ShadowAssumption`);
- the minimum of an arm is a twentieth of the buckets or more and no more than the limit
  on a move, a twentieth is a whole number, and the minimum is more than half a bucket
  for each arm (`SharesAssumption`: the code has 0.05, 0.10 and 10000, so that is fewer
  than a thousand arms).

| Theorem | Says |
|---|---|
| `MemoryFrequencyProofs!EverythingCounted` | `Accounting` |
| `MemoryFrequencyProofs!Overshoot` | `OvershootBounded` |
| `MemoryFrequencyProofs!SuppressionEarned` | `NoEarlySuppression` |
| `MemoryFrequencyProofs!Refinement` | the local store implements `SessionCap` |
| `DynamoFrequencyProofs!ContainerCapHolds` | `ContainerCap` |
| `DynamoFrequencyProofs!FleetCapHolds` | `FleetCap` |
| `DynamoFrequencyProofs!SuppressionRecorded` | `NeverOverstates` |
| `DynamoFrequencyProofs!Refinement` | every container implements `SessionCap` |
| `DynamoBudgetProofs!CacheNeverAhead` | `NeverAhead` |
| `DynamoBudgetProofs!HeldBackRightly` | `FalseExhaustionBounded` |
| `DynamoBudgetProofs!Refinement` | the fleet implements `DailyBudget` |
| `DynamoBudgetProofs!CommittedWithin` | what a day may still cost grows only by ads that may be served |
| `BillingLedgerProofs!NothingHeld` | `NothingHeldAcross` |
| `BillingLedgerProofs!AcknowledgedRecorded` | `AcknowledgedIsRecorded` |
| `BillingLedgerProofs!RequestFirst` | `RequestRecordedFirst` |
| `BillingLedgerProofs!SpendRecorded` | `SpendIsRecorded` |
| `AdDecisionProofs!GuaranteeIsHonoured` | `GuaranteeHonoured` |
| `AdDecisionProofs!AuctionSellsToHighest` | `SoldToHighest` |
| `AdDecisionProofs!TraceIsTruthful` | `TraceTruthful` |
| `AdDecisionProofs!RecordIsSound` | `RecordAddsUp` |
| `NetworkDemandProofs!OutcomesAreTruthful` | `OutcomesTruthful` |
| `NetworkDemandProofs!BooksAreReconciled` | `BooksReconcile` |
| `NetworkDemandProofs!OverdeliveryIsExplained` | `OverdeliveryExplained` |
| `OperationsProofs!SnapshotPickedUp` | `PickedUp` |
| `OperationsProofs!SnapshotNeverBackwards` | `NeverBackwards` |
| `OperationsProofs!LadderIsClimbedOnce` | `LadderClimbedOnce` |
| `OperationsProofs!CelebrationHappensOnce` | `CelebratedOnce` |
| `OperationsProofs!StatusIsTruthful` | `StatusTruthful` |
| `OperationsProofs!HoldoutIsKept` | `HoldoutKept` |
| `OperationsProofs!OnlyBoundariesMove` | `BoundaryBucketsMove` |
| `OperationsProofs!ValidateExact` | Validate takes exactly the splits, for any experiment |
| `OperationsProofs!ValidateIsRight` | `ValidateIsExact` |
| `OperationsProofs!ValidatedAssigns` | what Validate takes assigns every bucket to its one owner, without a fallback |
| `OperationsProofs!FileStaysSound` | `StaysSound` |
| `OperationsProofs!PromotionIsEarned` | `PromotionEarned` |
| `PageProofs!ViewableEarned` | `ViewableIsContinuous` |
| `PageProofs!DwellTimeSound` | `NeverOverstated` |
| `PageProofs!DwellReportsFinal` | `DwellReportsAgree` |
| `PageProofs!QueueSent` | `NothingLeftBehind` |
| `...TypeCorrect` | the type invariant of each module with proofs |

*MemoryFrequency.* `OvershootBounded` is not inductive: it says nothing of requests
on their way. `Accounting` is the missing half: what was delivered is what is counted
plus what is in flight. With it, a decision finds fewer than cap counted and, the
deciding request being idle, at most concurrency minus one in flight, and the bound
follows. `Accounting` needs that a lapse finds no request of its key in flight
and that an increment restarts a lapsed count; its lemmas say how `InFlight` grows
and shrinks.

*DynamoFrequency.* What a container has served is at most what it remembers plus
what it failed to record (`Remembered`). A decision is made below the cap, so what was
served is below it too, and since a container does one thing at a time it stays there
until the increment; the second conjunct of `Remembered` carries that from `Decide` to
`Increment`. (That the cached count stays below the cap would be false: the second
count of the decision may read a row that is at it.) `NeverOverstates` bounds every
cached count by the updates that reached the row, ever; the row itself and every count
it has had are bounded by the same history. `FleetCap` adds up over
containers, so its proof is an account of room (`FleetAccount`): what was delivered and
what each container may still serve by what it remembers are, together, at most a cap
for each container there ever was and the increments lost. A delivery moves one
impression from the room to the delivered, and a container that is replaced leaves its
room behind.

*DynamoBudget.* A cached spend may be of yesterday, begun by `AddSpend`, or read; the
history variables tell which. The invariant bounds a cache that is none of yesterday's by
the row, says that a container whose cache dates from before midnight has an `age` of
at least the ticks since, and that one whose complete entry is below an exhausted budget
has an `age` of at least the ticks since exhaustion, less the lag of a read. A decision that straddles a tick is
one tick behind, which is why the bound is not one tick less; the
same facts are carried for what a decision has already been told (`seen`). The refinement
is those facts at the moment of a `Serve` (`ServeMayServe`); every other step of the fleet is
the step of the promise that it looks like, or none. `CommittedWithin` is about the
promise alone: a charge takes away a report worth at least what it adds
(`ChargeCommitsNothing`), midnight only makes a day cheaper, and an ad is all that remains.

*BillingLedger.* The sums that the properties compare are off, at any moment, by the
invocations on their way: an event is written before it is answered
(`AcknowledgedOrWritten`) and charged before it is written
(`SpendRecordedOrPending`). Counting the containers at those stages makes both
inductive. An update may be applied up to `Attempts` times, so the second is about a
number of charges that make up the spend and that record, reported losses, cut and
pending invocations cover (`Covered`); `AtMoves` says that one container moving on changes such a count by one.
`Shape` ties what a container holds to its stage, `TokensRecorded` that nobody has a
token, or is about to get one, whose request was not written.

*AdDecision.* The properties speak of a finished decision. What they need of the steps
before: nothing eligible outranks the line item selected (`SelectedIsBest`), bids are
collected only when it is not guaranteed, and those in competition are at the floor
(`BidsInOrder`). `TraceTruthful` needs in addition that there is a runner-up whenever
there are two eligible line items: sorting orders any set of line items strictly
(`BeatsIsOrder`), so the one the fewest others beat is beaten by none (`FirstExists`).

*ControlPlane.* Neither property says anything of a scan under way. `ScanTrue`: what a
scan has read is the table's if the last write is older than the scan by the lag of a
read. `CacheTrue`: so is what is cached if the last write is older than the snapshot by
the time of a scan and the lag; storing turns the first into the second. `Behind`,
`Lagging` and `NotOlder` compare versions: those in the table only grow, a late read
returns an older one, and a scan that was not overtaken began when the cache was already
what it is, so that what it has read and not missed is no older.

*NetworkDemand.* `Books` is what the two sides of a sale have in common: wins, spend and
counts of a buyer are those of the sales whose notice it has and remembers.
`BooksReconcile` is the rest of its bids in the four classes the server's records make
of them. `OverdeliveryExplained` is about sales, while a sale is the server's decision,
taken after the bid: `WithinReach` says the same of each bid that may yet be sold. The bid
was checked against the buyer's own books (`Eligible`), and for a bid made in full
knowledge those are the sales themselves, by `Books`; every other step takes offers
away. That needs every sale to be a bid that was sent and decoded (`Answers`, `Bids`,
`Winners`), which also makes `OutcomesTruthful` inductive.

*Fleet.* The bounds say nothing of what a run remembers. What was sent is accounted for by
what the runner's files say was sent, by the losses and by the runs on older files
(`Climbing`, `Celebrating`). Such a run may be forgotten whole or merged agent by agent, so
what it does is also within what the committed files remember (`OnOlderFiles`); between runs
the files are the committed ones (`OverIsCommitted`). That nothing is
recorded that was not so rests on `ObservedIsSo`: a source that does not answer hides,
and never invents.

*CostFuse.* Undisturbed, a trip and a reset are not both half done (`Apart`), and the
concurrency is already what the second call of the one under way will record
(`FirstCallMade`). A trip that is cut short stops being half done without having been
recorded, so it counts as disturbed.

*YieldController.* Inductive is that the ranges tile the buckets in the order of the arms
(`Tiles`) unless a log had others, and what a proposal does to the file it was
made from (`Proposed`: nothing but `Enter` changes the file, and then the proposal is
gone). Rounding makes up to `Half` a bucket for each arm, and the last arm bears it: it
alone may be less than the minimum (`Least`), and since the minimum is more than that it is
never empty. The work is in one run. `BoundsHold` and `RoomFacts`: the lower bounds
together exceed the buckets by no more than that, since each is at most the share it
replaces but for what the last arm lacks. `WaterFits`: both rounds of waterFill stay within
the bounds and give out no more than there is, but for the rounding. `LayoutTiles`:
shares laid end to end, the last arm taking the rest, tile again. `EndsNear`: where arm i
ends is the sum of the first i shares, and also all buckets less the other shares, so it
moves by at most the limit times the smaller of the two numbers of arms, and the rounding.

*Validate.* `ValidateExact` compares the cursor with the split it stands for, over any
experiment. If the cursor goes through, each range begins where the last one ahead of it
ended; the first range that an earlier one reaches into would contradict that, so
whatever is ahead ends before what is behind begins, and a bucket without an owner would
be a gap after the last range to begin at or before it. Conversely, in a split the bucket
just before a range has an owner, and that is the last range ahead. First and last exist
because the variants are finite: the one with the fewest ahead of it has none
(`LeastOf`). With `RangesBounded`, which incomplete logs do not disturb, both properties of
the run follow.

*Page.* The listeners call one another, so what any of them does to the page is stated
once (`Kept`): it may end a stretch in view, which it counts, but begins none, and what it
reports is final. `Viewing`: time is counted, and the timer runs, only while the
observer would tell of a departure. `Counted`: what the tag counts, together with the stretch it is
in and what it may yet count before it is told, is at most what was seen and the lag of
each departure. `Gaps`: it is told before the ad has been gone for longer than the lag, so no timer
outlives a longer gap.

*Shadow mode.* `PromotionEarned` is about a fold over records, each of them two sums over
arms. The library's induction theorems take an operator as a parameter, which no prover
here can instantiate, so induction is stated over sets: a set of numbers with zero and
the successor of each of its members is Nat, since the least number missing could not be
(`Inductive`), and likewise a set of subsets of a finite set (`SetsInductive`). From the
first it follows that a recursive function exists if each step goes down
(`Recursion`), hence the function that a fold chooses (`FoldExists`), so the fold is what it
says it is. A sum takes its terms in any order (`SumStep`), the fold takes its records
one after the other (`LastDay`), and day by day the one counts what the other adds
(`CountsOneMore`, `EvaluateCounts`). `PromotionOf` reads the verdict off, for records of any
number of days. It remains that no estimate is negative: neither is a share in a proposal,
which `RangesBounded` keeps.

Model-checked only are the four liveness properties, which are beyond this prover:
`AuctionGoesOn`, `AlarmActedOn`, `PlanFinishes` and `StaysDownIsRaised`. Every other
property of the runs is a theorem.

The type invariants of the modules with proofs are theorems, and no cfg repeats them;
that of `YieldController` is `RangesBounded`.

## The plan

What could come next, the most consequential first:

1. A composition of `Page`, `BillingLedger` and `DynamoBudget`: one ad from the queue of
   the browser to the charge.
2. The promise of `NetworkDemand` as an abstract specification of its own, a ledger of two
   parties, with a refinement.
3. `Integrity`: the fold over a day's events in the order the objects are listed.
4. The agent kit's guard over the stages of all agents; `Pace` against its curve in fixed
   point arithmetic; single games (2048, Sudoku) as pure functions.

## Not modelled

- Requests without a session, line items without cap or budget: they never reach the
  state modelled.
- Charges per click in `DynamoBudget` (the code path is the same `AddSpend`) and the
  budgets of buyers in the ad server, which are read but never charged.
- `handleDelivery` and `Project`: read-only reports. `handleCollect`: an `Emit` and a `Flush`
  without a token; nothing ties it to the ledger.
- Pacing: a floating point formula without state; what it decides is a free choice of
  `AdDecision`.
- Traffic filtering: a pure classification, whose outcome is a refusal before the
  decision. The agent kit: two pure functions.
- Token expiry: a token lives thirty minutes, and every beacon modelled is one that
  arrives in time.
- The local budget store: a map under one mutex, never reset.
- The unsynchronised random source of the mini-DSP: its values are a free choice, and a panic
  in it is out of a model's reach.
- Of the yield controller the reading of the log and the reports; of the orchestrator the funnel,
  the itch history and the wording of the digest; of the browser the personal records,
  the visit bucket and the service worker.
- The integrity agent and the report agents: folds over a day's files with floating point
  thresholds, without state across runs.
- The games: single-player boards around the ad slot.
- The supply chain checker, notifications, the traffic simulator and the infrastructure: pure
  I/O, or declarations.
