------------------------------- MODULE MiniDSP -------------------------------
(***************************************************************************)
(* A buyer as a process of its own (services/mini-dsp): what it answers to  *)
(* a bid request, and what it believes about its spend and its reach.  Both *)
(* beliefs move with win notices only, and live in the memory of the        *)
(* process.  Decide and NotifyWin each hold Bidder.mu throughout.           *)
(*                                                                         *)
(* A price is the integer the budget counts: what one impression costs.     *)
(***************************************************************************)
EXTENDS Integers, Sequences

CONSTANTS
    K,              \* buyers, numbered in the order of ControlPlane.Buyers
    Camps,          \* campaigns, each of one buyer
    CampaignsOf,    \* CampaignsOf[b]: the campaigns of b in the order of its file
    MaxCPM,         \* MaxCPM[c]
    DailyBudget,    \* DailyBudget[c], 0 for none
    FreqCapPerUser, \* FreqCapPerUser[c], 0 for none
    Targets,        \* Targets[c]: kinds of request (country and size) c is for
    Users,          \* sessions as the buyer knows them
    Anonymous       \* the user of a request without a session

Buyers == 1..K

ASSUME BuyersAssumption == K \in Nat /\ CampaignsOf \in [Buyers -> Seq(Camps)]
ASSUME OwnerAssumption ==
    \A b, d \in Buyers : \A i \in DOMAIN CampaignsOf[b], j \in DOMAIN CampaignsOf[d] :
        CampaignsOf[b][i] = CampaignsOf[d][j] => b = d
ASSUME CampaignAssumption ==
    /\ MaxCPM \in [Camps -> Nat]
    /\ DailyBudget \in [Camps -> Nat]
    /\ FreqCapPerUser \in [Camps -> Nat]
ASSUME AnonymousAssumption == Anonymous \notin Users

VARIABLES
    spend,          \* Bidder.spend, by campaign
    freq,           \* Bidder.freq, by campaign and user
    bidsSubmitted,  \* Bidder.bidsSubmitted
    winsNotified    \* Bidder.winsNotified

books == <<spend, freq, bidsSubmitted, winsNotified>>

NewBidder ==
    /\ spend = [c \in Camps |-> 0]
    /\ freq = [c \in Camps |-> [u \in Users |-> 0]]
    /\ bidsSubmitted = [c \in Camps |-> 0]
    /\ winsNotified = [c \in Camps |-> 0]

\* What a campaign looks at before it prices: targeting, its budget, its cap.
WithinBudget(c) == DailyBudget[c] > 0 => spend[c] < DailyBudget[c]

UnderCapPastLimit(c, u) ==
    FreqCapPerUser[c] > 0 /\ u # Anonymous => freq[c][u] <= FreqCapPerUser[c]

UnderCap(c, u) ==
    FreqCapPerUser[c] > 0 /\ u # Anonymous => freq[c][u] < FreqCapPerUser[c]

Eligible(c, req) == req.kind \in Targets[c] /\ WithinBudget(c) /\ UnderCap(c, req.user)

\* A random fraction, six tenths at least, of the maximum, in whole cents; and
\* whether that fraction can come out below the floor the request discloses.
Prices(c) == {p \in 1..MaxCPM[c] : 10 * p + 5 > 6 * MaxCPM[c]}
MayUndercut(c, req) == 6 * MaxCPM[c] < 10 * req.floor

PassedOver(c, req) == ~Eligible(c, req) \/ MayUndercut(c, req)

\* Decide bids for the first campaign that is eligible and not priced below the
\* floor, and declines if there is none.
CanBid(b, i, price, req) ==
    /\ Eligible(CampaignsOf[b][i], req)
    /\ price \in Prices(CampaignsOf[b][i])
    /\ price >= req.floor
    /\ \A j \in 1..(i - 1) : PassedOver(CampaignsOf[b][j], req)

CanDecline(b, req) == \A i \in DOMAIN CampaignsOf[b] : PassedOver(CampaignsOf[b][i], req)

Submit(c) ==
    /\ bidsSubmitted' = [bidsSubmitted EXCEPT ![c] = @ + 1]
    /\ UNCHANGED <<spend, freq, winsNotified>>

\* NotifyWin, as handleWin calls it for a notice it does not drop.
NotifyWinUncounted(c, u, price) ==
    /\ winsNotified' = [winsNotified EXCEPT ![c] = @ + 1]
    /\ freq' = IF u = Anonymous THEN freq ELSE [freq EXCEPT ![c][u] = @ + 1]
    /\ UNCHANGED <<spend, bidsSubmitted>>

NotifyWin(c, u, price) ==
    /\ winsNotified' = [winsNotified EXCEPT ![c] = @ + 1]
    /\ spend' = [spend EXCEPT ![c] = @ + price]
    /\ freq' = IF u = Anonymous THEN freq ELSE [freq EXCEPT ![c][u] = @ + 1]
    /\ UNCHANGED bidsSubmitted

\* The process of buyer b is restarted: nothing it believed is written anywhere.
Forget(b) ==
    LET mine == {CampaignsOf[b][i] : i \in DOMAIN CampaignsOf[b]} IN
    /\ spend' = [c \in Camps |-> IF c \in mine THEN 0 ELSE spend[c]]
    /\ freq' = [c \in Camps |-> IF c \in mine THEN [u \in Users |-> 0] ELSE freq[c]]
    /\ bidsSubmitted' = [c \in Camps |-> IF c \in mine THEN 0 ELSE bidsSubmitted[c]]
    /\ winsNotified' = [c \in Camps |-> IF c \in mine THEN 0 ELSE winsNotified[c]]
==============================================================================
