----------------------------- MODULE NetworkDemand -----------------------------
(***************************************************************************)
(* Buyers over the network: the ad server calls them all at once against    *)
(* one deadline (callBuyers, callOne), holds its auction over what came     *)
(* back in time, and tells the winner so in a goroutine of its own          *)
(* (notifyWin); the buyers are those of MiniDSP.  The deadline is set on    *)
(* the context of the ad request, which ends as well when its client goes.  *)
(*                                                                         *)
(* A buyer that is too late still does its work and counts its bid.  A win  *)
(* notice is sent once and never repeated; in a Lambda function it leaves   *)
(* whenever the container is next thawed, or never.                         *)
(***************************************************************************)
EXTENDS MiniDSP, Experiments

CONSTANTS
    Requests,       \* ad requests with network buyers to call
    Servers,        \* processes of the ad server, each deciding one at a time
    ServerOf,       \* ServerOf[r]: the process that serves r
    UserOf,         \* UserOf[r]: its session, or Anonymous
    KindOf,         \* KindOf[r]: its country and size
    Running,        \* the experiments in force, as a sequence
    FloorOf,        \* FloorOf[v]: the floor variant v of the floor experiment sets
    MaxRival,       \* bound: the best a line item or a local buyer is worth
    MaxFailures,    \* bound: broken answers, failed connections, bodies cut
                    \* off, and clients that go away
    MaxRestarts,    \* bound: restarts of buyers
    NoBid,          \* an answer with status 204
    Broken,         \* another status, or 200 with a body that is no bid response
    None            \* nothing yet

ASSUME RequestsAssumption ==
    /\ IsFiniteSet(Requests)
    /\ ServerOf \in [Requests -> Servers]
    /\ UserOf \in [Requests -> Users \cup {Anonymous}]
ASSUME BoundsAssumption ==
    MaxRival \in Nat /\ MaxFailures \in Nat /\ MaxRestarts \in Nat

\* What a buyer may send back: at most one bid (unseen is history, see below), or
\* something else.
AnyBid == [camp : Camps, price : Nat, unseen : SUBSET Requests]
NotBids == {NoBid, Broken}

ASSUME NoneAssumption ==
    /\ None \notin 0..K \cup NotBids /\ NoBid # Broken
    /\ ({None} \cup NotBids) \cap AnyBid = {}

VARIABLES
    called,     \* requests whose buyers have been called
    reply,      \* reply[r][b]: what buyer b has answered to r
    out,        \* out[r][b]: what callOne has made of it
    expired,    \* requests whose deadline has passed
    gone,       \* requests whose client has gone away
    cut,        \* the <<r, b>> whose body broke off on its way (history)
    winner,     \* winner[r]: the buyer sold to, 0 for anybody else
    notice,     \* notice[r]: what became of the win notice
    restarts    \* restarts of buyers so far

ctx == <<expired, gone, cut>>
vars == <<books, called, reply, out, ctx, winner, notice, restarts>>

Init ==
    /\ NewBidder
    /\ called = {}
    /\ reply = [r \in Requests |-> [b \in Buyers |-> None]]
    /\ out = [r \in Requests |-> [b \in Buyers |-> "uncalled"]]
    /\ expired = {} /\ gone = {} /\ cut = {}
    /\ winner = [r \in Requests |-> None]
    /\ notice = [r \in Requests |-> "none"]
    /\ restarts = 0

Undecided(r) == winner[r] = None
InFlight(r) == r \in called /\ Undecided(r)

\* What the buyers' context is over for: its deadline, or that of the request.
CtxDone(r) == r \in expired \cup gone

\* handleAdRequest assigns the floor and the fields that go along.
AdRequest(r) ==
    [id |-> r, placement |-> "", session |-> IF UserOf[r] = Anonymous THEN "" ELSE UserOf[r]]

Floor == [r \in Requests |-> FloorOf[Assign(Running, FloorPrice, AdRequest(r)).variant.id]]

\* buildRequest: the floor is one of the fields an experiment may leave out; the
\* session and the country go along when they are known.
BidRequest ==
    [r \in Requests |->
        [floor |-> IF "imp_bidfloor" \in ResolveFields(Running, AdRequest(r)) THEN Floor[r] ELSE 0,
         user |-> UserOf[r], kind |-> KindOf[r]]]

\* handleAdRequest takes rngMu and calls every buyer that has an endpoint.
Call(r) ==
    /\ r \notin called
    /\ \A q \in Requests : ServerOf[q] = ServerOf[r] => ~InFlight(q)
    /\ called' = called \cup {r}
    /\ out' = [out EXCEPT ![r] = [b \in Buyers |-> "waiting"]]
    /\ UNCHANGED <<books, reply, ctx, winner, notice, restarts>>

------------------------------------------------------------------------------

\* Bids of campaign c for user u that may still win, and sales to it.
IsBid(r, b) == reply[r][b] \notin {None} \cup NotBids
Live(r, b, c) == IsBid(r, b) /\ reply[r][b].camp = c /\ Undecided(r)
Sold(r, c) ==
    \E b \in Buyers : winner[r] = b /\ IsBid(r, b) /\ reply[r][b].camp = c

\* What buyer b does not know when it decides: bids of its own that may yet be
\* sold, and sales it has no notice of or has forgotten.
Unseen(c) ==
    {q \in Requests : \/ \E b \in Buyers : Live(q, b, c)
                      \/ Sold(q, c) /\ notice[q] # "delivered"}

\* handleBid, after the time the buyer takes to think: whether anybody still
\* waits for the answer makes no difference to it.
HandleBid(r, b) ==
    /\ r \in called
    /\ reply[r][b] = None
    /\ \/ /\ CanDecline(b, BidRequest[r])
          /\ reply' = [reply EXCEPT ![r][b] = NoBid]
          /\ UNCHANGED books
       \/ \E i \in DOMAIN CampaignsOf[b] :
             LET c == CampaignsOf[b][i] IN
             \E p \in Prices(c) :
                /\ CanBid(b, i, p, BidRequest[r])
                /\ reply' = [reply EXCEPT ![r][b] =
                      [camp |-> c, price |-> p, unseen |-> Unseen(c)]]
                /\ Submit(c)
    /\ UNCHANGED <<called, out, ctx, winner, notice, restarts>>

MayFail ==
    Cardinality(gone) + Cardinality({x \in Requests \X Buyers :
        reply[x[1]][x[2]] = Broken \/ out[x[1]][x[2]] = "error" \/ x \in cut}) < MaxFailures

\* Something between the two answers in the place of the buyer.
Break(r, b) ==
    /\ r \in called
    /\ MayFail
    /\ reply[r][b] = None
    /\ reply' = [reply EXCEPT ![r][b] = Broken]
    /\ UNCHANGED <<books, called, out, ctx, winner, notice, restarts>>

------------------------------------------------------------------------------

Conclude(r, b, from, to) ==
    /\ out[r][b] = from
    /\ out' = [out EXCEPT ![r][b] = to]
    /\ UNCHANGED <<books, called, reply, ctx, winner, notice, restarts>>

\* callOne: Do returns with a response, or fails; an error once the context is
\* over is a timeout, whatever the error.
Respond(r, b) ==
    \/ reply[r][b] = NoBid /\ Conclude(r, b, "waiting", "no_bid")
    \/ reply[r][b] = Broken /\ Conclude(r, b, "waiting", "error")
    \/ reply[r][b] \notin {None, NoBid} /\ Conclude(r, b, "waiting", "decoding")

ConnectionFailsMerged(r, b) == Conclude(r, b, "waiting", "timeout")

ConnectionFails(r, b) ==
    /\ CtxDone(r) \/ MayFail
    /\ Conclude(r, b, "waiting", IF CtxDone(r) THEN "timeout" ELSE "error")

\* The deadline of all the calls of a request.
Expire(r) ==
    /\ InFlight(r) /\ ~CtxDone(r)
    /\ expired' = expired \cup {r}
    /\ UNCHANGED <<books, called, reply, out, gone, cut, winner, notice, restarts>>

\* The client goes away while its request is in flight, which cancels it.
Disconnect(r) ==
    /\ InFlight(r) /\ ~CtxDone(r)
    /\ MayFail
    /\ gone' = gone \cup {r}
    /\ UNCHANGED <<books, called, reply, out, expired, cut, winner, notice, restarts>>

\* The connection breaks while the body is on its way.
Tear(r, b) ==
    /\ MayFail
    /\ out[r][b] = "decoding" /\ reply[r][b] # Broken
    /\ <<r, b>> \notin cut
    /\ cut' = cut \cup {<<r, b>>}
    /\ UNCHANGED <<books, called, reply, out, expired, gone, winner, notice, restarts>>

GiveUpNever(r, b) == FALSE

GiveUp(r, b) == CtxDone(r) /\ ConnectionFails(r, b)

\* The body is read and decoded under the same context; cut off by it or on its
\* way, it is as malformed as one that is.
Whole(r, b) == reply[r][b] # Broken /\ <<r, b>> \notin cut

Decode(r, b) ==
    \/ Whole(r, b) /\ Conclude(r, b, "decoding", "bid")
    \/ ~Whole(r, b) /\ Conclude(r, b, "decoding", "malformed")
    \/ CtxDone(r) /\ Conclude(r, b, "decoding", "malformed")

CutOff(r, b) == CtxDone(r) /\ Decode(r, b)

------------------------------------------------------------------------------

\* runAuction over the bids at the floor or above it: the highest, the first of
\* the highest.
Price(r, b) == reply[r][b].price
Valid(r, b) == out[r][b] = "bid" /\ Price(r, b) >= Floor[r]

Highest(r, b) ==
    /\ Valid(r, b)
    /\ \A d \in Buyers \ {b} :
          Valid(r, d) => Price(r, d) < Price(r, b) \/ (Price(r, d) = Price(r, b) /\ b < d)

Sells(r, rival, b) == Highest(r, b) /\ Price(r, b) > rival

\* wg.Wait, then Allocate, against everything else there is to serve; then the
\* unlock, and notifyWin for the network buyer that won.
Allocate(r) ==
    /\ InFlight(r)
    /\ \A b \in Buyers : out[r][b] \notin {"waiting", "decoding"}
    /\ \E rival \in 0..MaxRival :
          \/ \E b \in Buyers :
                /\ Sells(r, rival, b)
                /\ winner' = [winner EXCEPT ![r] = b]
                /\ notice' = [notice EXCEPT ![r] = "sent"]
          \/ /\ \A b \in Buyers : ~Sells(r, rival, b)
             /\ winner' = [winner EXCEPT ![r] = 0]
             /\ UNCHANGED notice
    /\ UNCHANGED <<books, called, reply, out, ctx, restarts>>

\* The notice reaches handleWin, and the buyer counts it.
Deliver(r) ==
    /\ notice[r] = "sent"
    /\ notice' = [notice EXCEPT ![r] = "delivered"]
    /\ NotifyWin(reply[r][winner[r]].camp, UserOf[r], Price(r, winner[r]))
    /\ UNCHANGED <<called, reply, out, ctx, winner, restarts>>

\* It does not arrive within its 800 ms, the container it waits in is thrown
\* away, or handleWin drops it.
Lose(r) ==
    /\ notice[r] = "sent"
    /\ notice' = [notice EXCEPT ![r] = "lost"]
    /\ UNCHANGED <<books, called, reply, out, ctx, winner, restarts>>

Restart(b) ==
    /\ restarts < MaxRestarts
    /\ restarts' = restarts + 1
    /\ Forget(b)
    /\ notice' = [r \in Requests |->
          IF winner[r] = b /\ notice[r] = "delivered" THEN "forgotten" ELSE notice[r]]
    /\ UNCHANGED <<called, reply, out, ctx, winner>>

ServerSteps(r) ==
    \/ Expire(r)
    \/ \E b \in Buyers : ConnectionFails(r, b) \/ Respond(r, b) \/ Decode(r, b)
    \/ Allocate(r)

Next ==
    \/ \E r \in Requests :
          Call(r) \/ Disconnect(r) \/ ServerSteps(r) \/ Deliver(r) \/ Lose(r)
    \/ \E r \in Requests, b \in Buyers : HandleBid(r, b) \/ Break(r, b) \/ Tear(r, b)
    \/ \E b \in Buyers : Restart(b)

\* The server's own timer and goroutines run; buyers and the network may not.
Spec ==
    /\ Init /\ [][Next]_vars
    /\ \A r \in Requests :
          /\ WF_vars(Expire(r))
          /\ WF_vars(Allocate(r))
          /\ \A b \in Buyers : WF_vars(GiveUp(r, b)) /\ WF_vars(CutOff(r, b))

------------------------------------------------------------------------------

TypeOK ==
    /\ spend \in [Camps -> Nat] /\ freq \in [Camps -> [Users -> Nat]]
    /\ bidsSubmitted \in [Camps -> Nat] /\ winsNotified \in [Camps -> Nat]
    /\ called \subseteq Requests /\ expired \subseteq Requests /\ gone \subseteq Requests
    /\ cut \subseteq Requests \X Buyers
    /\ reply \in [Requests -> [Buyers -> AnyBid \cup NotBids \cup {None}]]
    /\ out \in [Requests -> [Buyers -> {"uncalled", "waiting", "decoding", "bid", "no_bid",
                                       "timeout", "error", "malformed"}]]
    /\ winner \in [Requests -> {None} \cup 0..K]
    /\ notice \in [Requests -> {"none", "sent", "delivered", "lost", "forgotten"}]
    /\ restarts \in 0..MaxRestarts

\* "A cancelled context is a TIMEOUT, which is a different fact from a connection
\* failure" (httpbuyer.go): nobody is recorded as too late before the deadline
\* unless the client has gone, nor as offering or declining what it did not; an
\* answer held to be malformed is, or broke off, or was read after either.
OutcomesTruthful ==
    \A r \in Requests, b \in Buyers :
        /\ out[r][b] = "timeout" => CtxDone(r)
        /\ out[r][b] = "bid" => IsBid(r, b) /\ <<r, b>> \notin cut
        /\ out[r][b] = "no_bid" => reply[r][b] = NoBid
        /\ out[r][b] = "malformed" => ~Whole(r, b) \/ CtxDone(r)

SalesOf(c) == {q \in Requests : Sold(q, c)}
PriceOf(q) == Price(q, winner[q])

\* The sum of the prices of S, as the number of its units.
Value(S) == Cardinality(UNION {{q} \X (1..PriceOf(q)) : q \in S})
KnownOf(q) == Requests \ reply[q][winner[q]].unseen

\* A buyer goes over its own cap and budget for bids it makes without knowing of
\* a sale or of another bid of its own, and for no other: those made in full
\* knowledge of the user, or of the campaign, stay within the cap, and within one
\* price of the budget.
OverdeliveryExplained ==
    \A c \in Camps :
        /\ FreqCapPerUser[c] > 0 =>
              \A u \in Users :
                 Cardinality({q \in SalesOf(c) :
                     /\ UserOf[q] = u
                     /\ {p \in Requests : UserOf[p] = u} \subseteq KnownOf(q)})
                 <= FreqCapPerUser[c]
        /\ DailyBudget[c] > 0 =>
              Value({q \in SalesOf(c) : KnownOf(q) = Requests}) < DailyBudget[c] + MaxCPM[c]

BidsOf(c) == {x \in Requests \X Buyers : IsBid(x[1], x[2]) /\ reply[x[1]][x[2]].camp = c}

\* The three counts of Bidder: what was bid and not notified is "losses PLUS wins
\* whose notification never arrived PLUS bids that ... were never in the auction"
\* (bidder.go), as long as the process lives; and the buyer's wins and spend are
\* the seller's, less the notices that did not arrive or were forgotten.
BooksReconcile ==
    \A c \in Camps :
        LET known == {q \in SalesOf(c) : notice[q] = "delivered"} IN
        /\ winsNotified[c] = Cardinality(known)
        /\ spend[c] = Value(known)
        /\ restarts = 0 =>
              bidsSubmitted[c] - winsNotified[c] =
                  Cardinality({x \in BidsOf(c) :
                      \/ Undecided(x[1])
                      \/ out[x[1]][x[2]] = "bid" /\ winner[x[1]] # x[2]
                      \/ out[x[1]][x[2]] \in {"timeout", "error", "malformed"}
                      \/ winner[x[1]] = x[2] /\ notice[x[1]] # "delivered"})

\* Every request gets its auction, however many buyers fail to answer.
AuctionGoesOn == \A r \in Requests : InFlight(r) ~> ~Undecided(r)
==============================================================================
