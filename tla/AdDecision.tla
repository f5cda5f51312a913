----------------------------- MODULE AdDecision -----------------------------
(***************************************************************************)
(* One ad decision, from the line items to the answer: Decide              *)
(* (decision.go), runAuction (auction.go), Allocate (allocation.go) and    *)
(* the part of handleAdRequest (main.go) that acts on the allocation.      *)
(*                                                                         *)
(* The line items are considered in order, then every buyer: those over    *)
(* the network, whose answers callBuyers has collected by then, before     *)
(* those in the process.  What makes a line item ineligible, and what a    *)
(* buyer answers, is up to the environment; what follows from it is not.   *)
(*                                                                         *)
(* Money is CPM in half cents: bids are rounded to whole cents.            *)
(***************************************************************************)
EXTENDS Integers, Sequences, FiniteSets

CONSTANTS
    N,          \* line items, in the order of ControlPlane.LineItems
    Network,    \* buyers with an endpoint, called by callBuyers
    Local,      \* buyers in the process
    Priorities, \* LineItem.Priority
    Values,     \* what expectedECPM makes of a line item's rate
    Offers,     \* prices buyers offer
    Floors,     \* floors in force
    None        \* nothing yet

LineItems == 1..N
Buyers == 1..(Network + Local)

ASSUME SizesAssumption == N \in Nat /\ Network \in Nat /\ Local \in Nat
ASSUME MoneyAssumption ==
    Priorities \subseteq Int /\ Values \subseteq Nat /\ Offers \subseteq Nat /\ Floors \subseteq Nat

GuaranteedPriority == 5

\* Allocation (allocation.go): where the impression goes and at what price.
Allocations == [source : {"guaranteed", "auction", "remnant", "none"},
                item : 0..N, buyer : 0..(Network + Local), price : Nat]

ASSUME NoneAssumption == None \notin 0..N /\ None \notin Allocations

VARIABLES
    demand,     \* demand[i]: priority and expected eCPM of line item i
    floor,      \* the floor this request runs under
    reasons,    \* Candidate.Reason of the line items considered, or "eligible"
    selected,   \* the line item Decide returned, 0 for nil, None before
    rule,       \* Trace.DecisionRule
    bids,       \* AuctionResult.Bids
    tally,      \* AuctionResult's counts of bids received, timed out, too low
    allocation, \* what Allocate returned
    answer      \* what handleAdRequest made of it

vars == <<demand, floor, reasons, selected, rule, bids, tally, allocation, answer>>

Init ==
    /\ demand \in [LineItems -> [priority : Priorities, ecpm : Values]]
    /\ floor \in Floors
    /\ reasons = <<>>
    /\ selected = None
    /\ rule = None
    /\ bids = <<>>
    /\ tally = [received |-> 0, timedOut |-> 0, belowFloor |-> 0]
    /\ allocation = None
    /\ answer = None

------------------------------------------------------------------------------

\* The loop of Decide: eligible (targeting, flight, creative, budget), then the
\* frequency cap, then the pacer, the first that objects giving the reason.
Objections == {"ineligible", "frequency_capped", "paced_down"}

Consider(reason) ==
    /\ Len(reasons) < N
    /\ reasons' = Append(reasons, reason)
    /\ UNCHANGED <<demand, floor, selected, rule, bids, tally, allocation, answer>>

Eligible == {i \in LineItems : reasons[i] \notin Objections}

\* What sort.SliceStable in Decide sorts by, and the line item it puts first.
OutranksByValue(i, j) == demand[i].ecpm > demand[j].ecpm

Outranks(i, j) ==
    \/ demand[i].priority > demand[j].priority
    \/ /\ demand[i].priority = demand[j].priority
       /\ demand[i].ecpm > demand[j].ecpm

SortedFirst(i, S) ==
    /\ i \in S
    /\ \A j \in S \ {i} : Outranks(i, j) \/ (i < j /\ ~Outranks(j, i))

\* The rule that decided, by a look at the runner-up.
Rule(w) ==
    IF Eligible = {w} THEN "only_eligible_candidate"
    ELSE IF \E r \in Eligible : /\ SortedFirst(r, Eligible \ {w})
                                /\ demand[r].priority < demand[w].priority
         THEN "highest_priority"
         ELSE "highest_expected_ecpm"

\* The end of Decide: a winner, if any, and a reason for every other.
SelectNothing ==
    /\ Eligible = {}
    /\ selected' = 0
    /\ rule' = "no_eligible_candidates"
    /\ UNCHANGED reasons

SelectLineItem(w) ==
    /\ SortedFirst(w, Eligible)
    /\ selected' = w
    /\ rule' = Rule(w)
    /\ reasons' = [i \in LineItems |->
          IF i \notin Eligible THEN reasons[i]
          ELSE IF i = w THEN "selected"
          ELSE IF demand[i].priority < demand[w].priority THEN "lost_on_priority"
          ELSE "lost_on_value"]

Decide ==
    /\ selected = None
    /\ Len(reasons) = N
    /\ SelectNothing \/ \E w \in LineItems : SelectLineItem(w)
    /\ UNCHANGED <<demand, floor, bids, tally, allocation, answer>>

------------------------------------------------------------------------------

\* Allocate, 1: guaranteed demand wins outright, and there is no auction.
GuaranteedPastPriority(i) == i > 0 /\ demand[i].priority > GuaranteedPriority

Guaranteed(i) == i > 0 /\ demand[i].priority >= GuaranteedPriority

ECPM(i) == IF i > 0 THEN demand[i].ecpm ELSE 0

AllocateGuaranteed ==
    /\ selected # None
    /\ allocation = None
    /\ Guaranteed(selected)
    /\ allocation' = [source |-> "guaranteed", item |-> selected, buyer |-> 0,
                      price |-> ECPM(selected)]
    /\ UNCHANGED <<demand, floor, reasons, selected, rule, bids, tally, answer>>

\* Allocate, 2: runAuction collects the bids.
InAuction ==
    /\ selected # None
    /\ allocation = None
    /\ ~Guaranteed(selected)

NoBid(status) ==
    /\ bids' = Append(bids, [status |-> status, cpm |-> 0, markup |-> FALSE])
    /\ tally' = IF status = "timeout" THEN [tally EXCEPT !.timedOut = @ + 1] ELSE tally

\* round2: to whole cents, half a cent up.
Round2(price) == ((price + 1) \div 2) * 2

BidCountedIfValid(price, markup) ==
    LET low == Round2(price) < floor IN
    /\ bids' = Append(bids, [status |-> IF low THEN "below_floor" ELSE "bid",
                             cpm |-> Round2(price), markup |-> markup])
    /\ tally' = IF low THEN [tally EXCEPT !.belowFloor = @ + 1]
                       ELSE [tally EXCEPT !.received = @ + 1]

Bid(price, markup) ==
    LET low == Round2(price) < floor IN
    /\ bids' = Append(bids, [status |-> IF low THEN "below_floor" ELSE "bid",
                             cpm |-> Round2(price), markup |-> markup])
    /\ tally' = [tally EXCEPT !.received = @ + 1,
                              !.belowFloor = IF low THEN @ + 1 ELSE @]

\* A buyer over the network was late, failed or declined, or bid; its markup may
\* be missing.
NetworkBid ==
    /\ InAuction
    /\ Len(bids) < Network
    /\ \/ \E status \in {"timeout", "no_bid"} : NoBid(status)
       \/ \E price \in Offers \ {0}, markup \in BOOLEAN : Bid(price, markup)
    /\ UNCHANGED <<demand, floor, reasons, selected, rule, allocation, answer>>

\* A buyer in the process: its creatives are the control plane's.
LocalBid ==
    /\ InAuction
    /\ Len(bids) \in Network..(Network + Local - 1)
    /\ \/ \E status \in {"not_eligible", "timeout", "no_bid"} : NoBid(status)
       \/ \E price \in Offers : Bid(price, FALSE)
    /\ UNCHANGED <<demand, floor, reasons, selected, rule, allocation, answer>>

With(statuses) == {b \in 1..Len(bids) : bids[b].status \in statuses}

\* The bid sort.SliceStable puts first.
Highest(b) ==
    LET valid == With({"bid"}) IN
    /\ b \in valid
    /\ \A d \in valid \ {b} :
          bids[b].cpm > bids[d].cpm \/ (bids[b].cpm = bids[d].cpm /\ b < d)

Announce(b) ==
    bids' = [d \in 1..Len(bids) |->
        IF bids[d].status # "bid" THEN bids[d]
        ELSE [bids[d] EXCEPT !.status = IF d = b THEN "won" ELSE "lost"]]

\* Allocate, 3: the winning bid, if any, against the line item Decide selected.
RemnantOrNothing ==
    [source |-> IF selected > 0 THEN "remnant" ELSE "none",
     item |-> selected, buyer |-> 0, price |-> ECPM(selected)]

ToBuyer(b) == [source |-> "auction", item |-> 0, buyer |-> b, price |-> bids[b].cpm]

CompeteWithNobody(b) == ToBuyer(b)

Compete(b) == IF bids[b].cpm > ECPM(selected) THEN ToBuyer(b) ELSE RemnantOrNothing

CloseAuction ==
    /\ InAuction
    /\ Len(bids) = Network + Local
    /\ \/ With({"bid"}) = {} /\ allocation' = RemnantOrNothing /\ UNCHANGED bids
       \/ \E b \in Buyers : Highest(b) /\ Announce(b) /\ allocation' = Compete(b)
    /\ UNCHANGED <<demand, floor, reasons, selected, rule, tally, answer>>

------------------------------------------------------------------------------

\* A network buyer brings its own markup; every other creative is found in the
\* control plane, where it was seen to fit.
HasMarkup(a) ==
    a.source # "none" /\ (a.buyer \in 1..Network => bids[a.buyer].markup)

\* handleAdRequest: the network buyer that won is told before its markup is
\* looked at.  Without an ad for an allocation no event is recorded.
Answer ==
    /\ allocation # None
    /\ answer = None
    /\ answer' = [ad |-> HasMarkup(allocation),
                  notice |-> IF allocation.buyer \in 1..Network THEN allocation.buyer ELSE 0,
                  recorded |-> HasMarkup(allocation) \/ allocation.source = "none"]
    /\ UNCHANGED <<demand, floor, reasons, selected, rule, bids, tally, allocation>>

Next ==
    \/ \E reason \in Objections \cup {"eligible"} : Consider(reason)
    \/ Decide
    \/ AllocateGuaranteed
    \/ NetworkBid
    \/ LocalBid
    \/ CloseAuction
    \/ Answer

Spec == Init /\ [][Next]_vars

------------------------------------------------------------------------------

Statuses == {"not_eligible", "timeout", "no_bid", "below_floor", "bid", "won", "lost"}

Reasons ==
    Objections \cup {"eligible", "selected", "lost_on_priority", "lost_on_value"}

Rules == {"no_eligible_candidates", "only_eligible_candidate", "highest_priority",
          "highest_expected_ecpm"}

TypeOK ==
    /\ demand \in [LineItems -> [priority : Priorities, ecpm : Values]]
    /\ floor \in Floors
    /\ reasons \in Seq(Reasons)
    /\ selected \in {None} \cup 0..N
    /\ rule \in {None} \cup Rules
    /\ bids \in Seq([status : Statuses, cpm : Nat, markup : BOOLEAN])
    /\ tally \in [received : Nat, timedOut : Nat, belowFloor : Nat]
    /\ allocation \in {None} \cup Allocations
    /\ answer \in {None} \cup [ad : BOOLEAN, notice : 0..Network, recorded : BOOLEAN]

\* "Guaranteed demand wins outright" (allocation.go): it is served exactly when
\* any of it is eligible, however far down the list, the most important of it,
\* and there is no auction: what callBuyers collected is dropped.
GuaranteeHonoured ==
    allocation # None =>
        IF \E i \in Eligible : demand[i].priority >= GuaranteedPriority
        THEN /\ allocation.source = "guaranteed"
             /\ allocation.item \in Eligible
             /\ \A i \in Eligible : demand[i].priority <= demand[allocation.item].priority
             /\ bids = <<>>
        ELSE allocation.source # "guaranteed"

\* A buyer pays its own bid when that is the highest, at the floor at least, and
\* above the line item Decide selected; whenever the auction does not sell, none
\* of its bids was worth more than what is served instead.
SoldToHighest ==
    allocation # None =>
        LET placed == With({"won", "lost"}) IN
        /\ \A b \in placed : bids[b].cpm <= allocation.price
        /\ allocation.source = "auction" =>
              /\ allocation.buyer \in placed
              /\ allocation.price = bids[allocation.buyer].cpm
              /\ allocation.price >= floor
              /\ allocation.price > ECPM(selected)

\* The counts on the ad_request event agree with the outcomes of the buyers, and
\* an auction with a valid bid has one winner.
RecordAddsUp ==
    /\ tally.received = Cardinality(With({"bid", "won", "lost", "below_floor"}))
    /\ tally.timedOut = Cardinality(With({"timeout"}))
    /\ tally.belowFloor = Cardinality(With({"below_floor"}))
    /\ With({"lost"}) # {} => Cardinality(With({"won"})) = 1

\* The trace gives every eligible loser its real reason, and names the rule that
\* decided: priority when no other line item had the winner's.
TraceTruthful ==
    selected \in LineItems =>
        /\ \A i \in Eligible \ {selected} :
              \/ /\ reasons[i] = "lost_on_priority"
                 /\ demand[i].priority < demand[selected].priority
              \/ /\ reasons[i] = "lost_on_value"
                 /\ demand[i].priority = demand[selected].priority
                 /\ demand[i].ecpm <= demand[selected].ecpm
        /\ rule = "highest_priority" <=>
              /\ Eligible # {selected}
              /\ \A i \in Eligible \ {selected} :
                    demand[i].priority < demand[selected].priority
=============================================================================
