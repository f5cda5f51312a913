-------------------------- MODULE NetworkDemandProofs --------------------------
(***************************************************************************)
(* What holds of any number of buyers, servers and requests.               *)
(*                                                                         *)
(* The outcomes of callOne (OutcomesTruthful) are inductive together with  *)
(* what a request has been through: Answers, Bids and Winners below.  They *)
(* make every sale a bid that was sent and decoded, of a campaign of the   *)
(* buyer that is told so.                                                  *)
(*                                                                         *)
(* Books is what the two sides of a sale have in common: a buyer's wins,   *)
(* its spend and its count of each user are those of the sales whose       *)
(* notice it has and remembers.  What it bid beyond those is the rest of   *)
(* its bids, which the server's records put in four classes                *)
(* (BooksReconcile).                                                       *)
(*                                                                         *)
(* OverdeliveryExplained is about sales, but a sale is decided after the   *)
(* bid, by the server: WithinReach says the same of every bid that may yet *)
(* be sold.  A bid made knowing of every other is counted against the cap  *)
(* and the budget the buyer saw (Eligible), which by Books are those of    *)
(* the sales themselves; all other steps only take offers away.            *)
(***************************************************************************)
EXTENDS NetworkDemand, FiniteSetTheorems, TLAPS

\* What a request has been through: a buyer is waited for once it was called, what is
\* decoded was sent, a bid is of a campaign of its buyer and within its price, and a
\* request that is decided waits for nobody and has told the buyer it sold to.
Answers ==
    \A r \in Requests, b \in Buyers :
        /\ r \notin called =>
              reply[r][b] = None /\ out[r][b] = "uncalled" /\ winner[r] = None
        /\ r \in called => out[r][b] # "uncalled"
        /\ out[r][b] \in {"decoding", "bid", "malformed"} => reply[r][b] \notin {None, NoBid}

Bids ==
    \A r \in Requests, b \in Buyers :
        IsBid(r, b) =>
            /\ \E i \in DOMAIN CampaignsOf[b] : reply[r][b].camp = CampaignsOf[b][i]
            /\ reply[r][b].price \in 1..MaxCPM[reply[r][b].camp]

Winners ==
    \A r \in Requests :
        /\ winner[r] \in Buyers => out[r][winner[r]] = "bid"
        /\ winner[r] \in Buyers <=> notice[r] # "none"
        /\ ~Undecided(r) => \A b \in Buyers : out[r][b] \notin {"waiting", "decoding"}

\* The sales a buyer knows of.
KnownSales(c) == {q \in SalesOf(c) : notice[q] = "delivered"}

Books ==
    \A c \in Camps :
        /\ winsNotified[c] = Cardinality(KnownSales(c))
        /\ spend[c] = Value(KnownSales(c))
        /\ \A u \in Users : freq[c][u] = Cardinality({q \in KnownSales(c) : UserOf[q] = u})
        /\ restarts = 0 => bidsSubmitted[c] = Cardinality(BidsOf(c))

\* A bid that may yet be sold, or was; the requests of a user with such a bid made in
\* full knowledge of the user; and the units of the bids made in full knowledge.
OnOffer(q, b, c) ==
    IsBid(q, b) /\ reply[q][b].camp = c /\ (Undecided(q) \/ winner[q] = b)

RequestsOf(u) == {p \in Requests : UserOf[p] = u}

InformedFor(c, u) ==
    {q \in RequestsOf(u) :
        \E b \in Buyers : OnOffer(q, b, c) /\ RequestsOf(u) \cap reply[q][b].unseen = {}}

InformedUnits(c) ==
    {x \in Requests \X (1..MaxCPM[c]) :
        \E b \in Buyers : /\ OnOffer(x[1], b, c)
                          /\ reply[x[1]][b].unseen = {}
                          /\ x[2] \in 1..reply[x[1]][b].price}

WithinReach ==
    \A c \in Camps :
        /\ FreqCapPerUser[c] > 0 =>
              \A u \in Users : Cardinality(InformedFor(c, u)) <= FreqCapPerUser[c]
        /\ DailyBudget[c] > 0 =>
              Cardinality(InformedUnits(c)) < DailyBudget[c] + MaxCPM[c]

Facts == TypeOK /\ OutcomesTruthful /\ Answers /\ Bids /\ Winners

\* The context of a request is only ever looked at through its parts.
USE DEF ctx

------------------------------------------------------------------------------
\* TYPES

Outcomes == {"uncalled", "waiting", "decoding", "bid", "no_bid", "timeout", "error",
             "malformed"}

AnyReply == AnyBid \cup NotBids \cup {None}

LEMMA BidType ==
  ASSUME TypeOK, NEW r \in Requests, NEW b \in Buyers, IsBid(r, b)
  PROVE  /\ reply[r][b] \in AnyBid
         /\ reply[r][b].camp \in Camps
         /\ reply[r][b].price \in Nat
         /\ reply[r][b].unseen \in SUBSET Requests
<1>1. reply[r][b] \in AnyBid
  BY DEF TypeOK, IsBid
<1> QED
  BY <1>1 DEF AnyBid

\* A buyer's campaigns are campaigns, and its bids fit a bid response.
LEMMA CampaignType ==
  ASSUME NEW b \in Buyers, NEW i \in DOMAIN CampaignsOf[b]
  PROVE  /\ CampaignsOf[b][i] \in Camps
         /\ MaxCPM[CampaignsOf[b][i]] \in Nat
BY BuyersAssumption, CampaignAssumption

LEMMA MakeBid ==
  ASSUME NEW c \in Camps, NEW p \in Nat, NEW S \in SUBSET Requests
  PROVE  /\ [camp |-> c, price |-> p, unseen |-> S] \in AnyBid
         /\ [camp |-> c, price |-> p, unseen |-> S] \notin NotBids \cup {None}
<1>1. [camp |-> c, price |-> p, unseen |-> S] \in AnyBid
  BY DEF AnyBid
<1> QED
  BY <1>1, NoneAssumption

\* A buyer's answer, whichever it is.
LEMMA ReplyType ==
  ASSUME TypeOK, NEW r \in Requests, NEW b \in Buyers, NEW x \in AnyReply,
         reply' = [reply EXCEPT ![r][b] = x]
  PROVE  /\ reply' \in [Requests -> [Buyers -> AnyReply]]
         /\ reply'[r][b] = x
         /\ \A q \in Requests, d \in Buyers :
               <<q, d>> # <<r, b>> => reply'[q][d] = reply[q][d]
BY DEF TypeOK, AnyReply

\* What HandleBid does, when it bids.
LEMMA HandleBidEffect ==
  ASSUME TypeOK, NEW r \in Requests, NEW b \in Buyers, HandleBid(r, b)
  PROVE  \/ reply' = [reply EXCEPT ![r][b] = NoBid] /\ UNCHANGED books
         \/ \E i \in DOMAIN CampaignsOf[b] :
               LET c == CampaignsOf[b][i] IN
               \E p \in 1..MaxCPM[c] :
                  /\ Eligible(c, BidRequest[r])
                  /\ [camp |-> c, price |-> p, unseen |-> Unseen(c)] \in AnyBid
                  /\ reply' = [reply EXCEPT ![r][b] =
                        [camp |-> c, price |-> p, unseen |-> Unseen(c)]]
                  /\ Submit(c)
<1>1. CASE reply' = [reply EXCEPT ![r][b] = NoBid] /\ UNCHANGED books
  BY <1>1
<1>2. ASSUME NEW i \in DOMAIN CampaignsOf[b], NEW p \in Prices(CampaignsOf[b][i]),
             CanBid(b, i, p, BidRequest[r]),
             reply' = [reply EXCEPT ![r][b] =
                [camp |-> CampaignsOf[b][i], price |-> p,
                 unseen |-> Unseen(CampaignsOf[b][i])]],
             Submit(CampaignsOf[b][i])
      PROVE  LET c == CampaignsOf[b][i] IN
               /\ p \in 1..MaxCPM[c]
               /\ Eligible(c, BidRequest[r])
               /\ [camp |-> c, price |-> p, unseen |-> Unseen(c)] \in AnyBid
               /\ reply' = [reply EXCEPT ![r][b] =
                     [camp |-> c, price |-> p, unseen |-> Unseen(c)]]
               /\ Submit(c)
  <2> DEFINE c == CampaignsOf[b][i]
  <2>1. c \in Camps /\ MaxCPM[c] \in Nat
    BY CampaignType
  <2>2. p \in 1..MaxCPM[c] /\ p \in Nat
    BY <2>1 DEF Prices
  <2>3. Unseen(c) \in SUBSET Requests
    BY DEF Unseen
  <2>4. [camp |-> c, price |-> p, unseen |-> Unseen(c)] \in AnyBid
    BY <2>1, <2>2, <2>3, MakeBid
  <2> QED
    BY <1>2, <2>2, <2>4 DEF CanBid
<1> QED
  BY <1>1, <1>2 DEF HandleBid

LEMMA ConcludeType ==
  ASSUME TypeOK, NEW r \in Requests, NEW b \in Buyers, NEW from \in {"waiting", "decoding"},
         NEW to \in Outcomes, Conclude(r, b, from, to)
  PROVE  /\ out' \in [Requests -> [Buyers -> Outcomes]]
         /\ out[r][b] = from /\ out'[r][b] = to
         /\ \A q \in Requests, d \in Buyers : <<q, d>> # <<r, b>> => out'[q][d] = out[q][d]
         /\ UNCHANGED <<books, called, reply, ctx, winner, notice, restarts>>
BY DEF TypeOK, Outcomes, Conclude

\* What callOne makes of a call: nothing that is not so.
LEMMA ConcludeEffect ==
  ASSUME TypeOK, NEW r \in Requests, NEW b \in Buyers,
         ConnectionFails(r, b) \/ Respond(r, b) \/ Decode(r, b)
  PROVE  \E from \in {"waiting", "decoding"}, to \in Outcomes \ {"uncalled", "waiting"} :
            /\ Conclude(r, b, from, to)
            /\ to = "timeout" => CtxDone(r)
            /\ to = "no_bid" => reply[r][b] = NoBid
            /\ to = "decoding" => reply[r][b] \notin {None, NoBid}
            /\ to \in {"bid", "malformed"} => from = "decoding"
            /\ to = "bid" => Whole(r, b)
            /\ to = "malformed" => ~Whole(r, b) \/ CtxDone(r)
<1> USE DEF Outcomes
<1>1. CASE ConnectionFails(r, b)
  BY <1>1 DEF ConnectionFails
<1>2. CASE Respond(r, b)
  BY <1>2 DEF Respond
<1>3. CASE Decode(r, b)
  BY <1>3 DEF Decode
<1> QED
  BY <1>1, <1>2, <1>3

\* Allocate sells to a buyer whose bid came in, or to nobody over the network.
LEMMA AllocateEffect ==
  ASSUME TypeOK, NEW r \in Requests, Allocate(r)
  PROVE  /\ r \in called /\ winner[r] = None
         /\ \A b \in Buyers : out[r][b] \notin {"waiting", "decoding"}
         /\ UNCHANGED <<books, called, reply, out, ctx, restarts>>
         /\ \/ \E b \in Buyers : /\ out[r][b] = "bid"
                                 /\ winner' = [winner EXCEPT ![r] = b]
                                 /\ notice' = [notice EXCEPT ![r] = "sent"]
            \/ winner' = [winner EXCEPT ![r] = 0] /\ notice' = notice
BY DEF Allocate, InFlight, Undecided, Sells, Highest, Valid

LEMMA WinnerType ==
  ASSUME Facts, NEW r \in Requests
  PROVE  /\ winner[r] \in {None} \cup 0..K
         /\ notice[r] # "none" =>
               /\ winner[r] \in Buyers
               /\ IsBid(r, winner[r])
<1>1. winner[r] \in {None} \cup 0..K
  BY DEF Facts, TypeOK
<1>2. winner[r] \in Buyers => out[r][winner[r]] = "bid"
  BY DEF Facts, Winners
<1>3. winner[r] \in Buyers => IsBid(r, winner[r])
  BY <1>2 DEF Facts, OutcomesTruthful
<1> QED
  BY <1>1, <1>3 DEF Facts, Winners

\* What NotifyWin and Forget do to the books.
LEMMA NotifyWinType ==
  ASSUME TypeOK, NEW c \in Camps, NEW u \in Users \cup {Anonymous}, NEW p \in Nat,
         NotifyWin(c, u, p)
  PROVE  /\ spend' \in [Camps -> Nat] /\ freq' \in [Camps -> [Users -> Nat]]
         /\ winsNotified' \in [Camps -> Nat] /\ bidsSubmitted' = bidsSubmitted
         /\ winsNotified'[c] = winsNotified[c] + 1
         /\ spend'[c] = spend[c] + p
         /\ \A v \in Users : freq'[c][v] = IF v = u THEN freq[c][v] + 1 ELSE freq[c][v]
         /\ \A d \in Camps \ {c} : /\ winsNotified'[d] = winsNotified[d]
                                   /\ spend'[d] = spend[d]
                                   /\ freq'[d] = freq[d]
<1>1. /\ spend' \in [Camps -> Nat] /\ winsNotified' \in [Camps -> Nat]
      /\ bidsSubmitted' = bidsSubmitted
      /\ winsNotified'[c] = winsNotified[c] + 1
      /\ spend'[c] = spend[c] + p
      /\ \A d \in Camps \ {c} : winsNotified'[d] = winsNotified[d] /\ spend'[d] = spend[d]
  BY DEF TypeOK, NotifyWin
<1>2. CASE u = Anonymous
  BY <1>1, <1>2, AnonymousAssumption DEF TypeOK, NotifyWin
<1>3. CASE u # Anonymous
  <2>1. freq' = [freq EXCEPT ![c][u] = @ + 1] /\ u \in Users
    BY <1>3 DEF NotifyWin
  <2>2. freq' \in [Camps -> [Users -> Nat]]
    BY <2>1 DEF TypeOK
  <2>3. /\ \A v \in Users : freq'[c][v] = IF v = u THEN freq[c][v] + 1 ELSE freq[c][v]
        /\ \A d \in Camps \ {c} : freq'[d] = freq[d]
    BY <2>1 DEF TypeOK
  <2> QED
    BY <1>1, <2>2, <2>3
<1> QED
  BY <1>2, <1>3

Mine(b) == {CampaignsOf[b][i] : i \in DOMAIN CampaignsOf[b]}

LEMMA ForgetType ==
  ASSUME TypeOK, NEW b \in Buyers, Forget(b)
  PROVE  /\ spend' \in [Camps -> Nat] /\ freq' \in [Camps -> [Users -> Nat]]
         /\ winsNotified' \in [Camps -> Nat] /\ bidsSubmitted' \in [Camps -> Nat]
         /\ \A c \in Camps \cap Mine(b) :
               /\ spend'[c] = 0 /\ winsNotified'[c] = 0
               /\ \A u \in Users : freq'[c][u] = 0
         /\ \A c \in Camps \ Mine(b) :
               /\ spend'[c] = spend[c] /\ winsNotified'[c] = winsNotified[c]
               /\ freq'[c] = freq[c]
<1>1. /\ spend' = [c \in Camps |-> IF c \in Mine(b) THEN 0 ELSE spend[c]]
      /\ freq' = [c \in Camps |-> IF c \in Mine(b) THEN [u \in Users |-> 0] ELSE freq[c]]
      /\ bidsSubmitted' = [c \in Camps |-> IF c \in Mine(b) THEN 0 ELSE bidsSubmitted[c]]
      /\ winsNotified' = [c \in Camps |-> IF c \in Mine(b) THEN 0 ELSE winsNotified[c]]
  BY DEF Forget, Mine
<1> QED
  BY <1>1 DEF TypeOK

LEMMA InitFacts == Init => Facts
<1> SUFFICES ASSUME Init PROVE Facts
  OBVIOUS
<1>1. TypeOK
  <2>1. 0 \in 0..MaxRestarts
    BY BoundsAssumption
  <2> QED
    BY <2>1 DEF Init, NewBidder, TypeOK
<1>2. /\ \A r \in Requests, b \in Buyers : reply[r][b] = None /\ out[r][b] = "uncalled"
      /\ \A r \in Requests : winner[r] = None /\ notice[r] = "none"
      /\ called = {}
  BY DEF Init
<1>3. OutcomesTruthful /\ Answers /\ Bids
  BY <1>2 DEF OutcomesTruthful, Answers, Bids, IsBid
<1>4. Winners
  BY <1>2, NoneAssumption DEF Winners, Undecided, Buyers
<1> QED
  BY <1>1, <1>3, <1>4 DEF Facts

\* A step that only concerns what is made of the answers.
LEMMA ConcludeFacts ==
  ASSUME Facts, NEW r \in Requests, NEW b \in Buyers,
         ConnectionFails(r, b) \/ Respond(r, b) \/ Decode(r, b)
  PROVE  Facts' /\ UNCHANGED <<books, reply, winner, notice, restarts>>
<1>0. TypeOK
  BY DEF Facts
<1>1. PICK from \in {"waiting", "decoding"}, to \in Outcomes \ {"uncalled", "waiting"} :
            /\ Conclude(r, b, from, to)
            /\ to = "timeout" => CtxDone(r)
            /\ to = "no_bid" => reply[r][b] = NoBid
            /\ to = "decoding" => reply[r][b] \notin {None, NoBid}
            /\ to \in {"bid", "malformed"} => from = "decoding"
            /\ to = "bid" => Whole(r, b)
            /\ to = "malformed" => ~Whole(r, b) \/ CtxDone(r)
  BY <1>0, ConcludeEffect
<1>2. /\ out' \in [Requests -> [Buyers -> Outcomes]]
      /\ out[r][b] = from /\ out'[r][b] = to
      /\ \A q \in Requests, d \in Buyers : <<q, d>> # <<r, b>> => out'[q][d] = out[q][d]
      /\ UNCHANGED <<books, called, reply, ctx, winner, notice, restarts>>
  BY <1>0, <1>1, ConcludeType
<1>3. TypeOK'
  BY <1>0, <1>2 DEF TypeOK, books, Outcomes
<1>4. r \in called /\ Undecided(r) /\ (from = "decoding" => reply[r][b] \notin {None, NoBid})
  BY <1>2 DEF Facts, Answers, Winners, Outcomes
<1>5. Answers'
  <2> SUFFICES ASSUME NEW q \in Requests, NEW d \in Buyers
               PROVE  /\ q \notin called =>
                            reply[q][d] = None /\ out'[q][d] = "uncalled" /\ winner[q] = None
                      /\ q \in called => out'[q][d] # "uncalled"
                      /\ out'[q][d] \in {"decoding", "bid", "malformed"} =>
                            reply[q][d] \notin {None, NoBid}
    BY <1>2 DEF Answers
  <2>1. CASE <<q, d>> = <<r, b>>
    BY <1>1, <1>2, <1>4, <2>1
  <2>2. CASE <<q, d>> # <<r, b>>
    BY <1>2, <2>2 DEF Facts, Answers
  <2> QED
    BY <2>1, <2>2
<1>6. OutcomesTruthful'
  <2> SUFFICES ASSUME NEW q \in Requests, NEW d \in Buyers
               PROVE  /\ out'[q][d] = "timeout" => CtxDone(q)
                      /\ out'[q][d] = "bid" => IsBid(q, d) /\ <<q, d>> \notin cut
                      /\ out'[q][d] = "no_bid" => reply[q][d] = NoBid
                      /\ out'[q][d] = "malformed" => ~Whole(q, d) \/ CtxDone(q)
    BY <1>2 DEF OutcomesTruthful, IsBid, Whole, CtxDone
  <2>1. CASE <<q, d>> = <<r, b>>
    BY <1>1, <1>2, <1>4, <2>1 DEF IsBid, NotBids, Whole
  <2>2. CASE <<q, d>> # <<r, b>>
    BY <1>2, <2>2 DEF Facts, OutcomesTruthful
  <2> QED
    BY <2>1, <2>2
<1>7. Bids'
  BY <1>2 DEF Facts, Bids, IsBid
<1>8. Winners'
  <2> SUFFICES ASSUME NEW q \in Requests
               PROVE  /\ winner[q] \in Buyers => out'[q][winner[q]] = "bid"
                      /\ winner[q] \in Buyers <=> notice[q] # "none"
                      /\ ~Undecided(q) =>
                            \A d \in Buyers : out'[q][d] \notin {"waiting", "decoding"}
    BY <1>2 DEF Winners, Undecided
  <2>1. /\ winner[q] \in Buyers => out[q][winner[q]] = "bid"
        /\ winner[q] \in Buyers <=> notice[q] # "none"
        /\ ~Undecided(q) => \A d \in Buyers : out[q][d] \notin {"waiting", "decoding"}
    BY DEF Facts, Winners
  <2>2. CASE q = r
    <3>1. winner[q] \notin Buyers
      BY <1>4, <2>2, NoneAssumption DEF Undecided, Buyers
    <3> QED
      BY <1>4, <2>1, <2>2, <3>1
  <2>3. CASE q # r
    BY <1>2, <2>1, <2>3
  <2> QED
    BY <2>2, <2>3
<1> QED
  BY <1>2, <1>3, <1>5, <1>6, <1>7, <1>8 DEF Facts

\* A buyer's answer, or what comes in its place.
LEMMA ReplyFacts ==
  ASSUME Facts, NEW r \in called, NEW b \in Buyers, reply[r][b] = None,
         NEW x \in AnyBid \cup NotBids,
         reply' = [reply EXCEPT ![r][b] = x],
         x \notin NotBids =>
            /\ \E i \in DOMAIN CampaignsOf[b] : x.camp = CampaignsOf[b][i]
            /\ x.price \in 1..MaxCPM[x.camp],
         UNCHANGED <<called, out, ctx, winner, notice, restarts>>,
         /\ spend' \in [Camps -> Nat] /\ freq' \in [Camps -> [Users -> Nat]]
         /\ bidsSubmitted' \in [Camps -> Nat] /\ winsNotified' \in [Camps -> Nat]
  PROVE  Facts'
<1>0. TypeOK /\ r \in Requests
  BY DEF Facts, TypeOK
<1>1. /\ reply' \in [Requests -> [Buyers -> AnyReply]]
      /\ reply'[r][b] = x
      /\ \A q \in Requests, d \in Buyers :
            <<q, d>> # <<r, b>> => reply'[q][d] = reply[q][d]
  <2>1. x \in AnyReply
    BY DEF AnyReply
  <2>2. reply \in [Requests -> [Buyers -> AnyReply]]
    BY <1>0 DEF TypeOK, AnyReply
  <2>3. [reply[r] EXCEPT ![b] = x] \in [Buyers -> AnyReply]
    BY <1>0, <2>1, <2>2
  <2>4. reply' = [reply EXCEPT ![r] = [reply[r] EXCEPT ![b] = x]]
    OBVIOUS
  <2>5. reply' \in [Requests -> [Buyers -> AnyReply]]
    BY <1>0, <2>2, <2>3, <2>4
  <2>6. reply'[r] = [reply[r] EXCEPT ![b] = x]
    BY <1>0, <2>2, <2>4
  <2> QED
    BY <1>0, <2>2, <2>4, <2>5, <2>6
<1>2. TypeOK'
  BY <1>0, <1>1 DEF TypeOK, AnyReply
<1>3. x # None
  BY NoneAssumption DEF NotBids
<1>4. out[r][b] \notin {"decoding", "bid", "malformed", "no_bid"}
  BY <1>0, NoneAssumption DEF Facts, Answers, OutcomesTruthful, NotBids
<1>5. Answers'
  <2> SUFFICES ASSUME NEW q \in Requests, NEW d \in Buyers
               PROVE  /\ q \notin called =>
                            reply'[q][d] = None /\ out[q][d] = "uncalled" /\ winner[q] = None
                      /\ q \in called => out[q][d] # "uncalled"
                      /\ out[q][d] \in {"decoding", "bid", "malformed"} =>
                            reply'[q][d] \notin {None, NoBid}
    BY DEF Answers
  <2>1. CASE <<q, d>> = <<r, b>>
    BY <1>0, <1>1, <1>4, <2>1 DEF Facts, Answers
  <2>2. CASE <<q, d>> # <<r, b>>
    BY <1>1, <2>2 DEF Facts, Answers
  <2> QED
    BY <2>1, <2>2
<1>6. OutcomesTruthful'
  <2> SUFFICES ASSUME NEW q \in Requests, NEW d \in Buyers
               PROVE  /\ out[q][d] = "timeout" => CtxDone(q)
                      /\ out[q][d] = "bid" =>
                            reply'[q][d] \notin {None} \cup NotBids /\ <<q, d>> \notin cut
                      /\ out[q][d] = "no_bid" => reply'[q][d] = NoBid
                      /\ out[q][d] = "malformed" =>
                            reply'[q][d] = Broken \/ <<q, d>> \in cut \/ CtxDone(q)
    BY DEF OutcomesTruthful, IsBid, Whole, CtxDone
  <2>1. CASE <<q, d>> = <<r, b>>
    BY <1>0, <1>1, <1>4, <2>1 DEF Facts, OutcomesTruthful
  <2>2. CASE <<q, d>> # <<r, b>>
    BY <1>1, <2>2 DEF Facts, OutcomesTruthful, IsBid, Whole
  <2> QED
    BY <2>1, <2>2
<1>7. Bids'
  <2> SUFFICES ASSUME NEW q \in Requests, NEW d \in Buyers,
                      reply'[q][d] \notin {None} \cup NotBids
               PROVE  /\ \E i \in DOMAIN CampaignsOf[d] : reply'[q][d].camp = CampaignsOf[d][i]
                      /\ reply'[q][d].price \in 1..MaxCPM[reply'[q][d].camp]
    BY DEF Bids, IsBid
  <2>1. CASE <<q, d>> = <<r, b>>
    BY <1>1, <2>1
  <2>2. CASE <<q, d>> # <<r, b>>
    BY <1>1, <2>2 DEF Facts, Bids, IsBid
  <2> QED
    BY <2>1, <2>2
<1>8. Winners'
  BY DEF Facts, Winners, Undecided
<1> QED
  BY <1>2, <1>5, <1>6, <1>7, <1>8 DEF Facts

LEMMA HandleBidFacts ==
  ASSUME Facts, NEW r \in Requests, NEW b \in Buyers, HandleBid(r, b)
  PROVE  Facts'
<1>0. TypeOK
  BY DEF Facts
<1>1. /\ r \in called /\ reply[r][b] = None
      /\ UNCHANGED <<called, out, ctx, winner, notice, restarts>>
  BY DEF HandleBid
<1>2. CASE reply' = [reply EXCEPT ![r][b] = NoBid] /\ UNCHANGED books
  <2>1. /\ spend' \in [Camps -> Nat] /\ freq' \in [Camps -> [Users -> Nat]]
        /\ bidsSubmitted' \in [Camps -> Nat] /\ winsNotified' \in [Camps -> Nat]
    BY <1>0, <1>2 DEF TypeOK, books
  <2>2. NoBid \in NotBids
    BY DEF NotBids
  <2> QED
    BY <1>1, <1>2, <2>1, <2>2, ReplyFacts
<1>3. ASSUME NEW i \in DOMAIN CampaignsOf[b], NEW c, c = CampaignsOf[b][i],
             NEW p \in 1..MaxCPM[c], NEW x \in AnyBid,
             x = [camp |-> c, price |-> p, unseen |-> Unseen(c)],
             reply' = [reply EXCEPT ![r][b] = x], Submit(c)
      PROVE  Facts'
  <2>1. c \in Camps
    BY <1>3, CampaignType
  <2>2. /\ spend' \in [Camps -> Nat] /\ freq' \in [Camps -> [Users -> Nat]]
        /\ bidsSubmitted' \in [Camps -> Nat] /\ winsNotified' \in [Camps -> Nat]
    BY <1>0, <1>3, <2>1 DEF TypeOK, Submit
  <2>3. x.camp = c /\ x.price = p
    BY <1>3
  <2> QED
    BY <1>1, <1>3, <2>2, <2>3, ReplyFacts
<1>4. ASSUME NEW i \in DOMAIN CampaignsOf[b],
             LET c == CampaignsOf[b][i] IN
               \E p \in 1..MaxCPM[c] :
                  /\ Eligible(c, BidRequest[r])
                  /\ [camp |-> c, price |-> p, unseen |-> Unseen(c)] \in AnyBid
                  /\ reply' = [reply EXCEPT ![r][b] =
                        [camp |-> c, price |-> p, unseen |-> Unseen(c)]]
                  /\ Submit(c)
      PROVE  Facts'
  BY <1>3, <1>4
<1> QED
  BY <1>0, <1>2, <1>4, HandleBidEffect

LEMMA BreakFacts ==
  ASSUME Facts, NEW r \in Requests, NEW b \in Buyers, Break(r, b)
  PROVE  Facts'
<1>1. /\ spend' \in [Camps -> Nat] /\ freq' \in [Camps -> [Users -> Nat]]
      /\ bidsSubmitted' \in [Camps -> Nat] /\ winsNotified' \in [Camps -> Nat]
  BY DEF Facts, TypeOK, Break, books
<1>2. Broken \in NotBids
  BY DEF NotBids
<1> QED
  BY <1>1, <1>2, ReplyFacts DEF Break

LEMMA CallFacts ==
  ASSUME Facts, NEW r \in Requests, Call(r)
  PROVE  Facts'
<1>0. TypeOK
  BY DEF Facts
<1>1. /\ called' = called \cup {r} /\ r \notin called
      /\ out' = [out EXCEPT ![r] = [b \in Buyers |-> "waiting"]]
      /\ UNCHANGED <<books, reply, ctx, winner, notice, restarts>>
  BY DEF Call
<1>2. /\ \A b \in Buyers : out'[r][b] = "waiting"
      /\ \A q \in Requests \ {r} : out'[q] = out[q]
      /\ out' \in [Requests -> [Buyers -> Outcomes]]
  BY <1>0, <1>1 DEF TypeOK, Outcomes
<1>3. TypeOK'
  BY <1>0, <1>1, <1>2 DEF TypeOK, Outcomes, books
<1>4. Answers'
  BY <1>1, <1>2 DEF Facts, Answers
<1>5. OutcomesTruthful' /\ Bids'
  BY <1>1, <1>2 DEF Facts, OutcomesTruthful, Bids, IsBid, Whole, CtxDone
<1>6. Winners'
  <2> SUFFICES ASSUME NEW q \in Requests
               PROVE  /\ winner[q] \in Buyers => out'[q][winner[q]] = "bid"
                      /\ winner[q] \in Buyers <=> notice[q] # "none"
                      /\ ~Undecided(q) =>
                            \A d \in Buyers : out'[q][d] \notin {"waiting", "decoding"}
    BY <1>1 DEF Winners, Undecided
  <2>1. CASE q = r
    <3>1. winner[q] \in Buyers => winner[q] # None
      BY NoneAssumption DEF Buyers
    <3>2. winner[q] \in Buyers => out[q][winner[q]] # "uncalled"
      BY <2>1 DEF Facts, Winners
    <3>3. \A b \in Buyers : winner[q] = None
      BY <1>1, <2>1 DEF Facts, Answers
    <3>4. winner[q] \notin Buyers
      BY <3>1, <3>3
    <3>5. Undecided(q) \/ Buyers = {}
      BY <3>3 DEF Undecided
    <3> QED
      BY <3>4, <3>5 DEF Facts, Winners
  <2>2. CASE q # r
    BY <1>2, <2>2 DEF Facts, Winners
  <2> QED
    BY <2>1, <2>2
<1> QED
  BY <1>3, <1>4, <1>5, <1>6 DEF Facts

LEMMA ExpireFacts ==
  ASSUME Facts, NEW r \in Requests, Expire(r)
  PROVE  Facts'
<1>1. TypeOK'
  BY DEF Facts, TypeOK, Expire, books
<1> QED
  BY <1>1 DEF Expire, Facts, OutcomesTruthful, Answers, Bids, Winners, IsBid, Undecided,
              CtxDone, Whole

LEMMA DisconnectFacts ==
  ASSUME Facts, NEW r \in Requests, Disconnect(r)
  PROVE  Facts'
<1>1. TypeOK'
  BY DEF Facts, TypeOK, Disconnect, books
<1> QED
  BY <1>1 DEF Disconnect, Facts, OutcomesTruthful, Answers, Bids, Winners, IsBid, Undecided,
              CtxDone, Whole

\* A body that breaks off is still being read.
LEMMA TearFacts ==
  ASSUME Facts, NEW r \in Requests, NEW b \in Buyers, Tear(r, b)
  PROVE  Facts'
<1>1. TypeOK'
  BY DEF Facts, TypeOK, Tear, books
<1>2. OutcomesTruthful'
  <2> SUFFICES ASSUME NEW q \in Requests, NEW d \in Buyers
               PROVE  /\ out[q][d] = "timeout" => CtxDone(q)
                      /\ out[q][d] = "bid" => IsBid(q, d) /\ <<q, d>> \notin cut'
                      /\ out[q][d] = "no_bid" => reply[q][d] = NoBid
                      /\ out[q][d] = "malformed" =>
                            reply[q][d] = Broken \/ <<q, d>> \in cut' \/ CtxDone(q)
    BY DEF Tear, OutcomesTruthful, IsBid, Whole, CtxDone
  <2>1. CASE <<q, d>> = <<r, b>>
    BY <2>1 DEF Tear
  <2>2. CASE <<q, d>> # <<r, b>>
    BY <2>2 DEF Tear, Facts, OutcomesTruthful, Whole
  <2> QED
    BY <2>1, <2>2
<1> QED
  BY <1>1, <1>2 DEF Tear, Facts, Answers, Bids, Winners, IsBid, Undecided

LEMMA AllocateFacts ==
  ASSUME Facts, NEW r \in Requests, Allocate(r)
  PROVE  Facts'
<1>0. TypeOK
  BY DEF Facts
<1>1. /\ r \in called /\ winner[r] = None
      /\ \A b \in Buyers : out[r][b] \notin {"waiting", "decoding"}
      /\ UNCHANGED <<books, called, reply, out, ctx, restarts>>
      /\ \/ \E b \in Buyers : /\ out[r][b] = "bid"
                              /\ winner' = [winner EXCEPT ![r] = b]
                              /\ notice' = [notice EXCEPT ![r] = "sent"]
         \/ winner' = [winner EXCEPT ![r] = 0] /\ notice' = notice
  BY <1>0, AllocateEffect
<1>2. PICK w \in 0..K :
        /\ winner' = [winner EXCEPT ![r] = w]
        /\ \/ w \in Buyers /\ out[r][w] = "bid" /\ notice' = [notice EXCEPT ![r] = "sent"]
           \/ w = 0 /\ notice' = notice
  <2>1. Buyers \subseteq 0..K /\ 0 \in 0..K
    BY BuyersAssumption DEF Buyers
  <2> QED
    BY <1>1, <2>1
<1>3. /\ winner' \in [Requests -> {None} \cup 0..K]
      /\ notice' \in [Requests -> {"none", "sent", "delivered", "lost", "forgotten"}]
      /\ winner'[r] = w
      /\ \A q \in Requests \ {r} : winner'[q] = winner[q] /\ notice'[q] = notice[q]
  BY <1>0, <1>2 DEF TypeOK
<1>4. TypeOK'
  BY <1>0, <1>1, <1>3 DEF TypeOK, books
<1>5. Answers' /\ OutcomesTruthful' /\ Bids'
  BY <1>1, <1>3 DEF Facts, Answers, OutcomesTruthful, Bids, IsBid, Whole, CtxDone
<1>6. Winners'
  <2> SUFFICES ASSUME NEW q \in Requests
               PROVE  /\ winner'[q] \in Buyers => out[q][winner'[q]] = "bid"
                      /\ winner'[q] \in Buyers <=> notice'[q] # "none"
                      /\ winner'[q] # None =>
                            \A d \in Buyers : out[q][d] \notin {"waiting", "decoding"}
    BY <1>1 DEF Winners, Undecided
  <2>1. CASE q = r
    <3>1. winner[r] \notin Buyers /\ 0 \notin Buyers
      BY <1>1, NoneAssumption DEF Buyers
    <3>2. notice[r] = "none"
      BY <3>1 DEF Facts, Winners
    <3>3. CASE w = 0 /\ notice' = notice
      BY <1>1, <1>3, <2>1, <3>1, <3>2, <3>3
    <3>4. CASE w \in Buyers /\ out[r][w] = "bid" /\ notice' = [notice EXCEPT ![r] = "sent"]
      <4>1. notice'[r] = "sent"
        BY <1>0, <3>4 DEF TypeOK
      <4> QED
        BY <1>1, <1>3, <2>1, <3>4, <4>1
    <3> QED
      BY <1>2, <3>3, <3>4
  <2>2. CASE q # r
    BY <1>3, <2>2 DEF Facts, Winners, Undecided
  <2> QED
    BY <2>1, <2>2
<1> QED
  BY <1>4, <1>5, <1>6 DEF Facts

\* A step of a notice, once it is sent.
LEMMA NoticeFacts ==
  ASSUME Facts, \A q \in Requests : notice[q] = "none" <=> notice'[q] = "none",
         notice' \in [Requests -> {"none", "sent", "delivered", "lost", "forgotten"}],
         /\ spend' \in [Camps -> Nat] /\ freq' \in [Camps -> [Users -> Nat]]
         /\ bidsSubmitted' \in [Camps -> Nat] /\ winsNotified' \in [Camps -> Nat],
         restarts' \in 0..MaxRestarts,
         UNCHANGED <<called, reply, out, ctx, winner>>
  PROVE  Facts'
<1>1. TypeOK'
  BY DEF Facts, TypeOK
<1> QED
  BY <1>1 DEF Facts, OutcomesTruthful, Answers, Bids, Winners, IsBid, Undecided, Whole,
              CtxDone

\* The sale a notice is about.
LEMMA SaleType ==
  ASSUME Facts, NEW r \in Requests, notice[r] # "none"
  PROVE  /\ winner[r] \in Buyers
         /\ IsBid(r, winner[r])
         /\ reply[r][winner[r]].camp \in Camps
         /\ Price(r, winner[r]) \in Nat
         /\ UserOf[r] \in Users \cup {Anonymous}
<1>1. winner[r] \in Buyers /\ IsBid(r, winner[r])
  BY WinnerType
<1> QED
  BY <1>1, BidType, RequestsAssumption DEF Facts, Price

LEMMA DeliverFacts ==
  ASSUME Facts, NEW r \in Requests, Deliver(r)
  PROVE  Facts'
<1>0. TypeOK
  BY DEF Facts
<1>1. /\ notice[r] = "sent" /\ notice' = [notice EXCEPT ![r] = "delivered"]
      /\ NotifyWin(reply[r][winner[r]].camp, UserOf[r], Price(r, winner[r]))
      /\ UNCHANGED <<called, reply, out, ctx, winner, restarts>>
  BY DEF Deliver
<1>2. /\ reply[r][winner[r]].camp \in Camps /\ Price(r, winner[r]) \in Nat
      /\ UserOf[r] \in Users \cup {Anonymous}
  BY <1>1, SaleType
<1>3. /\ spend' \in [Camps -> Nat] /\ freq' \in [Camps -> [Users -> Nat]]
      /\ winsNotified' \in [Camps -> Nat] /\ bidsSubmitted' \in [Camps -> Nat]
  BY <1>0, <1>1, <1>2, NotifyWinType DEF TypeOK
<1>4. /\ notice' \in [Requests -> {"none", "sent", "delivered", "lost", "forgotten"}]
      /\ \A q \in Requests : notice[q] = "none" <=> notice'[q] = "none"
      /\ restarts' \in 0..MaxRestarts
  BY <1>0, <1>1 DEF TypeOK
<1> QED
  BY <1>1, <1>3, <1>4, NoticeFacts

LEMMA LoseFacts ==
  ASSUME Facts, NEW r \in Requests, Lose(r)
  PROVE  Facts'
<1>1. /\ notice' \in [Requests -> {"none", "sent", "delivered", "lost", "forgotten"}]
      /\ \A q \in Requests : notice[q] = "none" <=> notice'[q] = "none"
  BY DEF Facts, TypeOK, Lose
<1>2. /\ spend' \in [Camps -> Nat] /\ freq' \in [Camps -> [Users -> Nat]]
      /\ winsNotified' \in [Camps -> Nat] /\ bidsSubmitted' \in [Camps -> Nat]
      /\ restarts' \in 0..MaxRestarts
      /\ UNCHANGED <<called, reply, out, ctx, winner>>
  BY DEF Facts, TypeOK, Lose, books
<1> QED
  BY <1>1, <1>2, NoticeFacts

LEMMA RestartFacts ==
  ASSUME Facts, NEW b \in Buyers, Restart(b)
  PROVE  Facts'
<1>0. TypeOK
  BY DEF Facts
<1>1. /\ notice' \in [Requests -> {"none", "sent", "delivered", "lost", "forgotten"}]
      /\ \A q \in Requests : notice[q] = "none" <=> notice'[q] = "none"
  BY <1>0 DEF TypeOK, Restart
<1>2. /\ spend' \in [Camps -> Nat] /\ freq' \in [Camps -> [Users -> Nat]]
      /\ winsNotified' \in [Camps -> Nat] /\ bidsSubmitted' \in [Camps -> Nat]
  BY <1>0, ForgetType DEF Restart
<1>3. restarts' \in 0..MaxRestarts /\ UNCHANGED <<called, reply, out, ctx, winner>>
  BY <1>0, BoundsAssumption DEF TypeOK, Restart
<1> QED
  BY <1>1, <1>2, <1>3, NoticeFacts

LEMMA NextFacts == Facts /\ [Next]_vars => Facts'
<1> SUFFICES ASSUME Facts, [Next]_vars PROVE Facts'
  OBVIOUS
<1>1. ASSUME NEW r \in Requests, ServerSteps(r) PROVE Facts'
  BY <1>1, ConcludeFacts, ExpireFacts, AllocateFacts DEF ServerSteps
<1>2. CASE UNCHANGED vars
  BY <1>2 DEF vars, books, Facts, TypeOK, OutcomesTruthful, Answers, Bids, Winners, IsBid,
              Undecided, Whole, CtxDone
<1> QED
  BY <1>1, <1>2, CallFacts, DisconnectFacts, DeliverFacts, LoseFacts, HandleBidFacts,
     BreakFacts, TearFacts, RestartFacts
  DEF Next

LEMMA FactsHold == Spec => []Facts
BY InitFacts, NextFacts, PTL DEF Spec

\* Answers, outcomes, notices and the books of the buyers keep their types, for any
\* buyers, requests and experiments.
THEOREM TypeCorrect == Spec => []TypeOK
<1>1. Facts => TypeOK
  BY DEF Facts
<1> QED
  BY <1>1, FactsHold, PTL

\* However answers, the deadline, a client that leaves and failures race, no outcome
\* says of a buyer what is not so.
THEOREM OutcomesAreTruthful == Spec => []OutcomesTruthful
<1>1. Facts => OutcomesTruthful
  BY DEF Facts
<1> QED
  BY <1>1, FactsHold, PTL

------------------------------------------------------------------------------
\* THE BOOKS

\* The units of one price.
LEMMA UnitsOfOne ==
  ASSUME NEW x, NEW n \in Nat
  PROVE  IsFiniteSet({x} \X (1..n)) /\ Cardinality({x} \X (1..n)) = n
<1>1. IsFiniteSet({x}) /\ Cardinality({x}) = 1
  BY FS_Singleton
<1>2. IsFiniteSet(1..n) /\ Cardinality(1..n) = n
  BY FS_Interval
<1>3. Cardinality({x} \X (1..n)) = 1 * n
  BY <1>1, <1>2, FS_Product
<1>4. IsFiniteSet({x} \X (1..n))
  BY <1>1, <1>2, FS_Product
<1> QED
  BY <1>3, <1>4

LEMMA ValueType ==
  ASSUME NEW S \in SUBSET Requests, \A q \in S : PriceOf(q) \in Nat
  PROVE  /\ IsFiniteSet(UNION {{q} \X (1..PriceOf(q)) : q \in S})
         /\ Value(S) \in Nat
<1> DEFINE T == {{q} \X (1..PriceOf(q)) : q \in S}
           g == [q \in S |-> {q} \X (1..PriceOf(q))]
<1>1. g \in Surjection(S, T)
  BY DEF Surjection
<1>2. IsFiniteSet(S)
  BY RequestsAssumption, FS_Subset
<1>3. IsFiniteSet(T)
  <2> HIDE DEF g, T
  <2> QED
    BY <1>1, <1>2, FS_Surjection
<1>4. \A U \in T : IsFiniteSet(U)
  <2>1. \A q \in S : IsFiniteSet({q} \X (1..PriceOf(q)))
    BY UnitsOfOne
  <2> QED
    BY <2>1
<1>5. IsFiniteSet(UNION T)
  <2> HIDE DEF T
  <2> QED
    BY <1>3, <1>4, FS_UNION
<1> QED
  BY <1>5, FS_CardinalityType DEF Value

\* A sale adds its price.
LEMMA ValueAdd ==
  ASSUME NEW S \in SUBSET Requests, \A q \in S : PriceOf(q) \in Nat,
         NEW r \in Requests \ S, PriceOf(r) \in Nat
  PROVE  Value(S \cup {r}) = Value(S) + PriceOf(r)
<1> DEFINE A == UNION {{q} \X (1..PriceOf(q)) : q \in S}
           B == {r} \X (1..PriceOf(r))
<1>1. UNION {{q} \X (1..PriceOf(q)) : q \in S \cup {r}} = A \cup B
  OBVIOUS
<1>2. A \cap B = {}
  OBVIOUS
<1>3. IsFiniteSet(A) /\ Cardinality(A) \in Nat
  BY ValueType DEF Value
<1>4. IsFiniteSet(B) /\ Cardinality(B) = PriceOf(r)
  BY UnitsOfOne
<1>5. Value(S) = Cardinality(A)
  BY DEF Value
<1>6. Value(S \cup {r}) = Cardinality(A \cup B)
  BY <1>1 DEF Value
<1> HIDE DEF A, B
<1>7. /\ Cardinality(A \cup B) = Cardinality(A) + Cardinality(B) - Cardinality(A \cap B)
      /\ Cardinality(A \cap B) = 0
  BY <1>2, <1>3, <1>4, FS_Union, FS_EmptySet
<1> QED
  BY <1>3, <1>4, <1>5, <1>6, <1>7

LEMMA OneMore ==
  ASSUME NEW S, IsFiniteSet(S), NEW x, x \notin S
  PROVE  /\ IsFiniteSet(S \cup {x})
         /\ Cardinality(S) \in Nat
         /\ Cardinality(S \cup {x}) = Cardinality(S) + 1
BY FS_AddElement, FS_CardinalityType

\* Who a request was sold to, and what a buyer knows of it.
Delivered(c) == {q \in Requests : notice[q] = "delivered" /\ reply[q][winner[q]].camp = c}

LEMMA KnownIs == Facts => \A c \in Camps : KnownSales(c) = Delivered(c)
<1> SUFFICES ASSUME Facts, NEW c \in Camps PROVE KnownSales(c) = Delivered(c)
  OBVIOUS
<1>1. \A q \in Requests : notice[q] = "delivered" =>
         winner[q] \in Buyers /\ IsBid(q, winner[q])
  BY SaleType
<1> QED
  BY <1>1 DEF KnownSales, SalesOf, Sold, Delivered

LEMMA KnownIsNext == (Facts => \A c \in Camps : KnownSales(c) = Delivered(c))'
BY KnownIs, PTL

LEMMA KnownPrices ==
  ASSUME Facts, NEW c \in Camps
  PROVE  /\ KnownSales(c) \in SUBSET Requests
         /\ IsFiniteSet(KnownSales(c))
         /\ \A q \in KnownSales(c) : PriceOf(q) \in Nat
<1>1. KnownSales(c) \in SUBSET Requests
  BY DEF KnownSales, SalesOf
<1>2. \A q \in KnownSales(c) : PriceOf(q) \in Nat
  BY SaleType DEF KnownSales, SalesOf, PriceOf
<1> QED
  BY <1>1, <1>2, RequestsAssumption, FS_Subset

\* Nothing is delivered and nothing delivered is changed.
LEMMA KnownStays ==
  ASSUME Facts, Facts', NEW c \in Camps,
         \A q \in Requests : notice'[q] = "delivered" <=> notice[q] = "delivered",
         \A q \in Requests : notice[q] = "delivered" =>
            winner'[q] = winner[q] /\ reply'[q][winner[q]] = reply[q][winner[q]]
  PROVE  /\ KnownSales(c)' = KnownSales(c)
         /\ Value(KnownSales(c))' = Value(KnownSales(c))
<1>1. KnownSales(c) = Delivered(c)
  BY KnownIs
<1>2. KnownSales(c)' = Delivered(c)'
  BY KnownIsNext
<1>3. Delivered(c)' = Delivered(c)
  BY DEF Delivered
<1>4. \A q \in Delivered(c) : PriceOf(q)' = PriceOf(q)
  BY DEF Delivered, PriceOf, Price
<1> QED
  BY <1>1, <1>2, <1>3, <1>4 DEF Value

\* The books agree as long as the buyers' do not change and no notice is delivered.
LEMMA BooksStay ==
  ASSUME Facts, Facts', Books,
         \A q \in Requests : notice'[q] = "delivered" <=> notice[q] = "delivered",
         \A q \in Requests : notice[q] = "delivered" =>
            winner'[q] = winner[q] /\ reply'[q][winner[q]] = reply[q][winner[q]],
         spend' = spend, freq' = freq, winsNotified' = winsNotified,
         \A c \in Camps : restarts' = 0 => bidsSubmitted'[c] = Cardinality(BidsOf(c)')
  PROVE  Books'
<1> SUFFICES ASSUME NEW c \in Camps
             PROVE  /\ winsNotified'[c] = Cardinality(KnownSales(c)')
                    /\ spend'[c] = Value(KnownSales(c))'
                    /\ \A u \in Users :
                          freq'[c][u] = Cardinality({q \in KnownSales(c)' : UserOf[q] = u})
                    /\ restarts' = 0 => bidsSubmitted'[c] = Cardinality(BidsOf(c)')
  BY DEF Books
<1>1. KnownSales(c)' = KnownSales(c) /\ Value(KnownSales(c))' = Value(KnownSales(c))
  BY KnownStays
<1> QED
  BY <1>1 DEF Books

LEMMA BidsFinite == \A c \in Camps : IsFiniteSet(BidsOf(c))
<1>1. IsFiniteSet(Buyers)
  BY BuyersAssumption, FS_Interval DEF Buyers
<1>2. IsFiniteSet(Requests \X Buyers)
  BY <1>1, RequestsAssumption, FS_Product
<1>3. \A c \in Camps : BidsOf(c) \in SUBSET (Requests \X Buyers)
  BY DEF BidsOf
<1> QED
  BY <1>2, <1>3, FS_Subset

LEMMA HandleBidBooks ==
  ASSUME Facts, Facts', Books, NEW r \in Requests, NEW b \in Buyers, HandleBid(r, b)
  PROVE  Books'
<1>0. TypeOK
  BY DEF Facts
<1>1. reply[r][b] = None /\ UNCHANGED <<notice, winner, restarts>>
  BY DEF HandleBid
<1>2. ASSUME NEW x \in AnyBid \cup NotBids, reply' = [reply EXCEPT ![r][b] = x]
      PROVE  /\ reply'[r][b] = x
             /\ \A q \in Requests, d \in Buyers :
                   <<q, d>> # <<r, b>> => reply'[q][d] = reply[q][d]
  <2>1. x \in AnyReply
    BY DEF AnyReply
  <2> QED
    BY <1>0, <1>2, <2>1, ReplyType
<1>3. ASSUME NEW x \in AnyBid \cup NotBids, reply' = [reply EXCEPT ![r][b] = x]
      PROVE  \A q \in Requests : notice[q] = "delivered" =>
                winner'[q] = winner[q] /\ reply'[q][winner[q]] = reply[q][winner[q]]
  <2> SUFFICES ASSUME NEW q \in Requests, notice[q] = "delivered"
               PROVE  winner'[q] = winner[q] /\ reply'[q][winner[q]] = reply[q][winner[q]]
    OBVIOUS
  <2>1. winner[q] \in Buyers /\ IsBid(q, winner[q])
    BY SaleType
  <2>2. <<q, winner[q]>> # <<r, b>>
    BY <1>1, <2>1 DEF IsBid
  <2> QED
    BY <1>1, <1>2, <1>3, <2>1, <2>2
<1>4. CASE reply' = [reply EXCEPT ![r][b] = NoBid] /\ UNCHANGED books
  <2>1. NoBid \in AnyBid \cup NotBids
    BY DEF NotBids
  <2>2. \A c \in Camps : BidsOf(c)' = BidsOf(c)
    <3>1. ~IsBid(r, b) /\ ~IsBid(r, b)'
      BY <1>1, <1>2, <1>4, <2>1 DEF IsBid, NotBids
    <3>2. \A q \in Requests, d \in Buyers :
             <<q, d>> # <<r, b>> => reply'[q][d] = reply[q][d]
      BY <1>2, <1>4, <2>1
    <3>3. \A q \in Requests, d \in Buyers : IsBid(q, d)' <=> IsBid(q, d)
      BY <3>1, <3>2 DEF IsBid
    <3> QED
      BY <3>1, <3>2, <3>3 DEF BidsOf
  <2> QED
    BY <1>1, <1>3, <1>4, <2>1, <2>2, BooksStay DEF books, Books
<1>5. ASSUME NEW i \in DOMAIN CampaignsOf[b], NEW e, e = CampaignsOf[b][i],
             NEW x \in AnyBid, x.camp = e,
             reply' = [reply EXCEPT ![r][b] = x], Submit(e)
      PROVE  Books'
  <2>1. e \in Camps
    BY <1>5, CampaignType
  <2>2. x \in AnyBid \cup NotBids /\ x # None /\ x \notin NotBids
    BY NoneAssumption
  <2>3. /\ reply'[r][b] = x
        /\ \A q \in Requests, d \in Buyers :
              <<q, d>> # <<r, b>> => reply'[q][d] = reply[q][d]
    BY <1>2, <1>5, <2>2
  <2>4. ~IsBid(r, b) /\ IsBid(r, b)'
    BY <1>1, <2>2, <2>3 DEF IsBid
  <2>5. \A q \in Requests, d \in Buyers :
           <<q, d>> # <<r, b>> => (IsBid(q, d)' <=> IsBid(q, d))
    BY <2>3 DEF IsBid
  <2>6. BidsOf(e)' = BidsOf(e) \cup {<<r, b>>} /\ <<r, b>> \notin BidsOf(e)
    BY <1>5, <2>3, <2>4, <2>5 DEF BidsOf
  <2>7. \A c \in Camps \ {e} : BidsOf(c)' = BidsOf(c)
    BY <1>5, <2>3, <2>4, <2>5 DEF BidsOf
  <2>8. /\ bidsSubmitted'[e] = bidsSubmitted[e] + 1
        /\ \A c \in Camps \ {e} : bidsSubmitted'[c] = bidsSubmitted[c]
        /\ UNCHANGED <<spend, freq, winsNotified>>
    BY <1>0, <1>5, <2>1 DEF Submit, TypeOK
  <2>9. IsFiniteSet(BidsOf(e))
    BY <2>1, BidsFinite
  <2>10. Cardinality(BidsOf(e)') = Cardinality(BidsOf(e)) + 1
    BY <2>6, <2>9, OneMore
  <2>11. \A c \in Camps : restarts' = 0 => bidsSubmitted'[c] = Cardinality(BidsOf(c)')
    BY <1>1, <2>1, <2>7, <2>8, <2>10 DEF Books
  <2> QED
    BY <1>1, <1>3, <1>5, <2>2, <2>8, <2>11, BooksStay
<1>6. ASSUME NEW i \in DOMAIN CampaignsOf[b],
             LET c == CampaignsOf[b][i] IN
               \E p \in 1..MaxCPM[c] :
                  /\ Eligible(c, BidRequest[r])
                  /\ [camp |-> c, price |-> p, unseen |-> Unseen(c)] \in AnyBid
                  /\ reply' = [reply EXCEPT ![r][b] =
                        [camp |-> c, price |-> p, unseen |-> Unseen(c)]]
                  /\ Submit(c)
      PROVE  Books'
  <2> DEFINE c == CampaignsOf[b][i]
  <2>1. PICK p \in 1..MaxCPM[c] :
           /\ [camp |-> c, price |-> p, unseen |-> Unseen(c)] \in AnyBid
           /\ reply' = [reply EXCEPT ![r][b] =
                 [camp |-> c, price |-> p, unseen |-> Unseen(c)]]
           /\ Submit(c)
    BY <1>6
  <2>2. [camp |-> c, price |-> p, unseen |-> Unseen(c)].camp = c
    OBVIOUS
  <2> QED
    BY <1>5, <2>1, <2>2
<1> QED
  BY <1>0, <1>4, <1>6, HandleBidEffect

LEMMA BreakBooks ==
  ASSUME Facts, Facts', Books, NEW r \in Requests, NEW b \in Buyers, Break(r, b)
  PROVE  Books'
<1>0. TypeOK
  BY DEF Facts
<1>1. /\ reply[r][b] = None /\ reply' = [reply EXCEPT ![r][b] = Broken]
      /\ UNCHANGED <<books, notice, winner, restarts>>
  BY DEF Break
<1>2. /\ reply'[r][b] = Broken
      /\ \A q \in Requests, d \in Buyers :
            <<q, d>> # <<r, b>> => reply'[q][d] = reply[q][d]
  <2>1. Broken \in AnyReply
    BY DEF AnyReply, NotBids
  <2> QED
    BY <1>0, <1>1, <2>1, ReplyType
<1>3. ~IsBid(r, b) /\ ~IsBid(r, b)'
  BY <1>1, <1>2 DEF IsBid, NotBids
<1>4. \A q \in Requests : notice[q] = "delivered" =>
         winner'[q] = winner[q] /\ reply'[q][winner[q]] = reply[q][winner[q]]
  <2> SUFFICES ASSUME NEW q \in Requests, notice[q] = "delivered"
               PROVE  reply'[q][winner[q]] = reply[q][winner[q]]
    BY <1>1
  <2>1. winner[q] \in Buyers /\ IsBid(q, winner[q])
    BY SaleType
  <2> QED
    BY <1>2, <1>3, <2>1
<1>5. \A c \in Camps : BidsOf(c)' = BidsOf(c)
  <2>1. \A q \in Requests, d \in Buyers : IsBid(q, d)' <=> IsBid(q, d)
    BY <1>2, <1>3 DEF IsBid
  <2> QED
    BY <1>2, <1>3, <2>1 DEF BidsOf
<1> QED
  BY <1>1, <1>4, <1>5, BooksStay DEF books, Books

LEMMA AllocateBooks ==
  ASSUME Facts, Facts', Books, NEW r \in Requests, Allocate(r)
  PROVE  Books'
<1>0. TypeOK
  BY DEF Facts
<1>1. /\ winner[r] = None
      /\ UNCHANGED <<books, reply, restarts>>
      /\ \E w \in 0..K : winner' = [winner EXCEPT ![r] = w]
      /\ notice' = notice \/ notice' = [notice EXCEPT ![r] = "sent"]
  <2>1. Buyers \subseteq 0..K /\ 0 \in 0..K
    BY BuyersAssumption DEF Buyers
  <2> QED
    BY <1>0, <2>1, AllocateEffect
<1>2. notice[r] # "delivered"
  BY <1>1, NoneAssumption DEF Facts, Winners, Buyers
<1>3. \A q \in Requests : notice'[q] = "delivered" <=> notice[q] = "delivered"
  BY <1>0, <1>1, <1>2 DEF TypeOK
<1>4. \A q \in Requests : notice[q] = "delivered" =>
         winner'[q] = winner[q] /\ reply'[q][winner[q]] = reply[q][winner[q]]
  BY <1>0, <1>1, <1>2 DEF TypeOK
<1>5. \A c \in Camps : BidsOf(c)' = BidsOf(c)
  BY <1>1 DEF BidsOf, IsBid
<1> QED
  BY <1>1, <1>3, <1>4, <1>5, BooksStay DEF books, Books

\* The notice of r joins what the buyer knows: one win, one price, one of the user.
LEMMA DeliverBooks ==
  ASSUME Facts, Facts', Books, NEW r \in Requests, Deliver(r)
  PROVE  Books'
<1>0. TypeOK
  BY DEF Facts
<1>1. /\ notice[r] = "sent" /\ notice' = [notice EXCEPT ![r] = "delivered"]
      /\ NotifyWin(reply[r][winner[r]].camp, UserOf[r], Price(r, winner[r]))
      /\ UNCHANGED <<called, reply, out, ctx, winner, restarts>>
  BY DEF Deliver
<1>2. PICK e \in Camps, p \in Nat : e = reply[r][winner[r]].camp /\ p = Price(r, winner[r])
  BY <1>1, SaleType
<1>3. /\ bidsSubmitted' = bidsSubmitted
      /\ winsNotified'[e] = winsNotified[e] + 1
      /\ spend'[e] = spend[e] + p
      /\ \A v \in Users : freq'[e][v] = IF v = UserOf[r] THEN freq[e][v] + 1 ELSE freq[e][v]
      /\ \A d \in Camps \ {e} : /\ winsNotified'[d] = winsNotified[d]
                                /\ spend'[d] = spend[d]
                                /\ freq'[d] = freq[d]
  <2>1. UserOf[r] \in Users \cup {Anonymous}
    BY RequestsAssumption
  <2>2. NotifyWin(e, UserOf[r], p)
    BY <1>1, <1>2
  <2> QED
    BY <1>0, <1>2, <2>1, <2>2, NotifyWinType
<1>4. /\ \A c \in Camps : KnownSales(c) = Delivered(c)
      /\ \A c \in Camps : KnownSales(c)' = Delivered(c)'
  BY KnownIs, KnownIsNext
<1>5. \A q \in Requests \ {r} : notice'[q] = notice[q]
  BY <1>0, <1>1 DEF TypeOK
<1>6. notice'[r] = "delivered"
  BY <1>0, <1>1 DEF TypeOK
<1>7. /\ KnownSales(e)' = KnownSales(e) \cup {r} /\ r \notin KnownSales(e)
      /\ \A d \in Camps \ {e} : KnownSales(d)' = KnownSales(d)
  <2>1. /\ Delivered(e)' = Delivered(e) \cup {r} /\ r \notin Delivered(e)
        /\ \A d \in Camps \ {e} : Delivered(d)' = Delivered(d)
    BY <1>1, <1>2, <1>5, <1>6 DEF Delivered
  <2> QED
    BY <1>4, <2>1
<1>8. \A q \in Requests : PriceOf(q)' = PriceOf(q)
  BY <1>1 DEF PriceOf, Price
<1>9. \A d \in Camps : Value(KnownSales(d))' = Value(KnownSales(d)')
  <2> SUFFICES ASSUME NEW d \in Camps PROVE Value(KnownSales(d))' = Value(KnownSales(d)')
    OBVIOUS
  <2>1. KnownSales(d)' \subseteq Requests
    BY DEF KnownSales, SalesOf
  <2> QED
    BY <1>8, <2>1 DEF Value
<1>10. \A c \in Camps : BidsOf(c)' = BidsOf(c)
  BY <1>1 DEF BidsOf, IsBid
<1>11. /\ KnownSales(e) \in SUBSET Requests /\ IsFiniteSet(KnownSales(e))
       /\ \A q \in KnownSales(e) : PriceOf(q) \in Nat
  BY <1>2, KnownPrices
<1> SUFFICES ASSUME NEW c \in Camps
             PROVE  /\ winsNotified'[c] = Cardinality(KnownSales(c)')
                    /\ spend'[c] = Value(KnownSales(c))'
                    /\ \A u \in Users :
                          freq'[c][u] = Cardinality({q \in KnownSales(c)' : UserOf[q] = u})
                    /\ restarts' = 0 => bidsSubmitted'[c] = Cardinality(BidsOf(c)')
  BY DEF Books
<1>12. CASE c # e
  <2>1. Value(KnownSales(c))' = Value(KnownSales(c))
    BY <1>7, <1>9, <1>12
  <2> QED
    BY <1>1, <1>3, <1>7, <1>10, <1>12, <2>1 DEF Books
<1>13. CASE c = e
  <2>1. winsNotified'[c] = Cardinality(KnownSales(c)')
    BY <1>3, <1>7, <1>11, <1>13, OneMore DEF Books
  <2>2. spend'[c] = Value(KnownSales(c))'
    <3>1. PriceOf(r) = p
      BY <1>2 DEF PriceOf
    <3>2. Value(KnownSales(c) \cup {r}) = Value(KnownSales(c)) + p
      BY <1>2, <1>7, <1>11, <1>13, <3>1, ValueAdd
    <3>3. Value(KnownSales(c))' = Value(KnownSales(c)) + p
      BY <1>7, <1>9, <1>13, <3>2
    <3> QED
      BY <1>3, <1>13, <3>3 DEF Books
  <2>3. ASSUME NEW u \in Users
        PROVE  freq'[c][u] = Cardinality({q \in KnownSales(c)' : UserOf[q] = u})
    <3> DEFINE S == {q \in KnownSales(c) : UserOf[q] = u}
    <3>1. freq[c][u] = Cardinality(S) /\ IsFiniteSet(S) /\ r \notin S
      BY <1>7, <1>11, <1>13, FS_Subset DEF Books
    <3>2. CASE UserOf[r] = u
      <4>1. {q \in KnownSales(c)' : UserOf[q] = u} = S \cup {r}
        BY <1>7, <1>13, <3>2
      <4>2. Cardinality(S \cup {r}) = Cardinality(S) + 1
        <5> HIDE DEF S
        <5> QED
          BY <3>1, OneMore
      <4> QED
        BY <1>3, <1>13, <3>1, <3>2, <4>1, <4>2
    <3>3. CASE UserOf[r] # u
      <4>1. {q \in KnownSales(c)' : UserOf[q] = u} = S
        BY <1>7, <1>13, <3>3
      <4> QED
        BY <1>3, <1>13, <3>1, <3>3, <4>1
    <3> QED
      BY <3>2, <3>3
  <2> QED
    BY <1>1, <1>3, <1>10, <2>1, <2>2, <2>3 DEF Books
<1> QED
  BY <1>12, <1>13

\* A buyer that starts again knows of no sale, and every sale it forgets was its own.
LEMMA RestartBooks ==
  ASSUME Facts, Facts', Books, NEW b \in Buyers, Restart(b)
  PROVE  Books'
<1>0. TypeOK
  BY DEF Facts
<1>1. /\ Forget(b)
      /\ notice' = [q \in Requests |->
            IF winner[q] = b /\ notice[q] = "delivered" THEN "forgotten" ELSE notice[q]]
      /\ UNCHANGED <<called, reply, out, ctx, winner>>
      /\ restarts' = restarts + 1 /\ restarts \in Nat
  BY <1>0, BoundsAssumption DEF Restart, TypeOK
<1>2. restarts' # 0
  BY <1>1
<1>3. /\ \A c \in Camps \cap Mine(b) :
            /\ spend'[c] = 0 /\ winsNotified'[c] = 0
            /\ \A u \in Users : freq'[c][u] = 0
      /\ \A c \in Camps \ Mine(b) :
            /\ spend'[c] = spend[c] /\ winsNotified'[c] = winsNotified[c]
            /\ freq'[c] = freq[c]
  BY <1>0, <1>1, ForgetType
<1>4. /\ \A c \in Camps : KnownSales(c) = Delivered(c)
      /\ \A c \in Camps : KnownSales(c)' = Delivered(c)'
  BY KnownIs, KnownIsNext
<1>5. \A q \in Requests : notice[q] = "delivered" =>
         (winner[q] = b <=> reply[q][winner[q]].camp \in Mine(b))
  <2> SUFFICES ASSUME NEW q \in Requests, notice[q] = "delivered"
               PROVE  winner[q] = b <=> reply[q][winner[q]].camp \in Mine(b)
    OBVIOUS
  <2>1. winner[q] \in Buyers /\ IsBid(q, winner[q])
    BY SaleType
  <2>2. PICK i \in DOMAIN CampaignsOf[winner[q]] :
           reply[q][winner[q]].camp = CampaignsOf[winner[q]][i]
    BY <2>1 DEF Facts, Bids
  <2> QED
    BY <2>1, <2>2, OwnerAssumption DEF Mine
<1> SUFFICES ASSUME NEW c \in Camps
             PROVE  /\ winsNotified'[c] = Cardinality(KnownSales(c)')
                    /\ spend'[c] = Value(KnownSales(c))'
                    /\ \A u \in Users :
                          freq'[c][u] = Cardinality({q \in KnownSales(c)' : UserOf[q] = u})
  BY <1>2 DEF Books
<1>6. CASE c \in Mine(b)
  <2>1. KnownSales(c)' = {}
    BY <1>1, <1>4, <1>5, <1>6 DEF Delivered
  <2>2. Value(KnownSales(c))' = 0
    <3>1. Value(KnownSales(c))' = Cardinality(UNION {{q} \X (1..PriceOf(q)') : q \in {}})
      BY <2>1 DEF Value
    <3>2. UNION {{q} \X (1..PriceOf(q)') : q \in {}} = {}
      OBVIOUS
    <3> QED
      BY <3>1, <3>2, FS_EmptySet
  <2>3. /\ Cardinality({}) = 0
        /\ \A u \in Users : {q \in KnownSales(c)' : UserOf[q] = u} = {}
    BY <2>1, FS_EmptySet
  <2> QED
    BY <1>3, <1>6, <2>1, <2>2, <2>3
<1>7. CASE c \notin Mine(b)
  <2>1. \A q \in Requests : reply[q][winner[q]].camp = c =>
           (notice'[q] = "delivered" <=> notice[q] = "delivered")
    BY <1>1, <1>5, <1>7
  <2>2. Delivered(c)' = Delivered(c)
    BY <1>1, <2>1 DEF Delivered
  <2>3. KnownSales(c)' = KnownSales(c)
    BY <1>4, <2>2
  <2>4. Value(KnownSales(c))' = Value(KnownSales(c))
    <3>1. \A q \in Requests : PriceOf(q)' = PriceOf(q)
      BY <1>1 DEF PriceOf, Price
    <3>2. KnownSales(c) \subseteq Requests
      BY DEF KnownSales, SalesOf
    <3> QED
      BY <2>3, <3>1, <3>2 DEF Value
  <2> QED
    BY <1>3, <1>7, <2>3, <2>4 DEF Books
<1> QED
  BY <1>6, <1>7

\* The other steps change neither the books nor what is delivered.
Quiet ==
    /\ UNCHANGED <<books, reply, winner, restarts>>
    /\ \A q \in Requests : notice'[q] = "delivered" <=> notice[q] = "delivered"

LEMMA QuietBooks ==
  ASSUME Facts, Facts', Books, Quiet
  PROVE  Books'
<1>1. \A c \in Camps : BidsOf(c)' = BidsOf(c)
  BY DEF Quiet, BidsOf, IsBid
<1>2. \A q \in Requests : notice[q] = "delivered" =>
         winner'[q] = winner[q] /\ reply'[q][winner[q]] = reply[q][winner[q]]
  BY DEF Quiet
<1>3. \A c \in Camps : restarts' = 0 => bidsSubmitted'[c] = Cardinality(BidsOf(c)')
  BY <1>1 DEF Quiet, books, Books
<1> QED
  BY <1>2, <1>3, BooksStay DEF Quiet, books

LEMMA QuietSteps ==
  ASSUME TypeOK, NEW r \in Requests
  PROVE  /\ Call(r) => Quiet
         /\ Expire(r) \/ Disconnect(r) => Quiet
         /\ \A b \in Buyers :
               ConnectionFails(r, b) \/ Respond(r, b) \/ Decode(r, b) \/ Tear(r, b) => Quiet
         /\ Lose(r) => Quiet
<1>1. Lose(r) => Quiet
  BY DEF TypeOK, Lose, Quiet
<1> QED
  BY <1>1 DEF Call, Expire, Disconnect, ConnectionFails, Respond, Decode, Tear, Conclude,
              Quiet

LEMMA InitBooks == Init => Books
<1> SUFFICES ASSUME Init, NEW c \in Camps
             PROVE  /\ winsNotified[c] = Cardinality(KnownSales(c))
                    /\ spend[c] = Value(KnownSales(c))
                    /\ \A u \in Users :
                          freq[c][u] = Cardinality({q \in KnownSales(c) : UserOf[q] = u})
                    /\ bidsSubmitted[c] = Cardinality(BidsOf(c))
  BY DEF Books
<1>1. KnownSales(c) = {}
  BY DEF Init, KnownSales, SalesOf
<1>2. BidsOf(c) = {}
  BY DEF Init, BidsOf, IsBid
<1>3. Value({}) = 0 /\ Cardinality({}) = 0
  <2>1. UNION {{q} \X (1..PriceOf(q)) : q \in {}} = {}
    OBVIOUS
  <2> QED
    BY <2>1, FS_EmptySet DEF Value
<1>4. \A u \in Users : {q \in KnownSales(c) : UserOf[q] = u} = {}
  BY <1>1
<1> QED
  BY <1>1, <1>2, <1>3, <1>4 DEF Init, NewBidder

LEMMA NextBooks == Facts /\ Facts' /\ Books /\ [Next]_vars => Books'
<1> SUFFICES ASSUME Facts, Facts', Books, [Next]_vars PROVE Books'
  OBVIOUS
<1>0. TypeOK
  BY DEF Facts
<1>1. CASE UNCHANGED vars
  BY <1>1, QuietBooks DEF vars, Quiet
<1>2. ASSUME NEW r \in Requests,
             Call(r) \/ Disconnect(r) \/ ServerSteps(r) \/ Deliver(r) \/ Lose(r)
      PROVE  Books'
  <2>1. CASE ServerSteps(r)
    BY <1>0, <2>1, QuietSteps, QuietBooks, AllocateBooks DEF ServerSteps
  <2> QED
    BY <1>0, <1>2, <2>1, QuietSteps, QuietBooks, DeliverBooks
<1>3. ASSUME NEW r \in Requests, NEW b \in Buyers, Tear(r, b) PROVE Books'
  BY <1>0, <1>3, QuietSteps, QuietBooks
<1> QED
  BY <1>1, <1>2, <1>3, HandleBidBooks, BreakBooks, RestartBooks DEF Next

\* What was bid and not notified is exactly what the books say it is: a bid that is
\* neither open, nor lost, nor too late, nor sold without the buyer's knowing, is a
\* sale the buyer knows.
LEMMA BooksExplain == Facts /\ Books => BooksReconcile
<1> SUFFICES ASSUME Facts, Books, NEW c \in Camps
             PROVE  /\ winsNotified[c] = Cardinality(KnownSales(c))
                    /\ spend[c] = Value(KnownSales(c))
                    /\ restarts = 0 =>
                         bidsSubmitted[c] - winsNotified[c] =
                           Cardinality({x \in BidsOf(c) :
                             \/ Undecided(x[1])
                             \/ out[x[1]][x[2]] = "bid" /\ winner[x[1]] # x[2]
                             \/ out[x[1]][x[2]] \in {"timeout", "error", "malformed"}
                             \/ winner[x[1]] = x[2] /\ notice[x[1]] # "delivered"})
  BY DEF BooksReconcile, KnownSales
<1> DEFINE Unnotified == {x \in BidsOf(c) :
                             \/ Undecided(x[1])
                             \/ out[x[1]][x[2]] = "bid" /\ winner[x[1]] # x[2]
                             \/ out[x[1]][x[2]] \in {"timeout", "error", "malformed"}
                             \/ winner[x[1]] = x[2] /\ notice[x[1]] # "delivered"}
           Notified == {<<q, winner[q]>> : q \in KnownSales(c)}
           f == [q \in KnownSales(c) |-> <<q, winner[q]>>]
<1>1. \A q \in KnownSales(c) : /\ q \in Requests /\ notice[q] = "delivered"
                               /\ winner[q] \in Buyers /\ IsBid(q, winner[q])
                               /\ reply[q][winner[q]].camp = c
                               /\ out[q][winner[q]] = "bid" /\ ~Undecided(q)
  <2> SUFFICES ASSUME NEW q \in KnownSales(c)
               PROVE  /\ q \in Requests /\ notice[q] = "delivered"
                      /\ winner[q] \in Buyers /\ IsBid(q, winner[q])
                      /\ reply[q][winner[q]].camp = c
                      /\ out[q][winner[q]] = "bid" /\ ~Undecided(q)
    OBVIOUS
  <2>1. q \in Requests /\ notice[q] = "delivered" /\ Sold(q, c)
    BY DEF KnownSales, SalesOf
  <2>2. winner[q] \in Buyers /\ IsBid(q, winner[q]) /\ reply[q][winner[q]].camp = c
    BY <2>1 DEF Sold
  <2>3. out[q][winner[q]] = "bid"
    BY <2>1, <2>2 DEF Facts, Winners
  <2>4. ~Undecided(q)
    BY <2>2, NoneAssumption DEF Undecided, Buyers
  <2> QED
    BY <2>1, <2>2, <2>3, <2>4
<1>2. ASSUME NEW q \in Requests, NEW b \in Buyers, <<q, b>> \in BidsOf(c),
             <<q, b>> \notin Unnotified
      PROVE  q \in KnownSales(c) /\ winner[q] = b
  <2>1. IsBid(q, b) /\ reply[q][b].camp = c
    BY <1>2 DEF BidsOf
  <2>2. /\ ~Undecided(q)
        /\ out[q][b] = "bid" => winner[q] = b
        /\ out[q][b] \notin {"timeout", "error", "malformed"}
        /\ winner[q] = b => notice[q] = "delivered"
    BY <1>2
  <2>3. out[q][b] \notin {"waiting", "decoding"}
    BY <2>2 DEF Facts, Winners
  <2>4. out[q][b] # "uncalled"
    BY <2>1 DEF Facts, Answers, IsBid
  <2>5. out[q][b] # "no_bid"
    BY <2>1 DEF Facts, OutcomesTruthful, IsBid, NotBids
  <2>6. out[q][b] \in {"uncalled", "waiting", "decoding", "bid", "no_bid", "timeout",
                       "error", "malformed"}
    BY DEF Facts, TypeOK
  <2>7. winner[q] = b /\ notice[q] = "delivered"
    BY <2>2, <2>3, <2>4, <2>5, <2>6
  <2> QED
    BY <2>1, <2>7 DEF KnownSales, SalesOf, Sold
<1>3. BidsOf(c) = Unnotified \cup Notified
  <2>1. Notified \subseteq BidsOf(c)
    BY <1>1 DEF BidsOf
  <2>2. \A x \in BidsOf(c) : x \in Unnotified \/ x \in Notified
    <3> SUFFICES ASSUME NEW x \in BidsOf(c), x \notin Unnotified PROVE x \in Notified
      OBVIOUS
    <3>1. x[1] \in Requests /\ x[2] \in Buyers /\ x = <<x[1], x[2]>>
      BY DEF BidsOf
    <3>2. x[1] \in KnownSales(c) /\ winner[x[1]] = x[2]
      <4> HIDE DEF Unnotified
      <4> QED
        BY <1>2, <3>1
    <3> QED
      BY <3>1, <3>2
  <2> QED
    BY <2>1, <2>2
<1>4. Unnotified \cap Notified = {}
  BY <1>1
<1>5. IsFiniteSet(KnownSales(c)) /\ Cardinality(KnownSales(c)) \in Nat
  BY KnownPrices, FS_CardinalityType
<1>6. IsFiniteSet(Notified) /\ Cardinality(Notified) = Cardinality(KnownSales(c))
  <2>1. f \in Injection(KnownSales(c), Notified)
    <3>1. f \in [KnownSales(c) -> Notified]
      OBVIOUS
    <3>2. \A q, d \in KnownSales(c) : f[q] = f[d] => q = d
      OBVIOUS
    <3> HIDE DEF f, Notified
    <3> QED
      BY <3>1, <3>2 DEF Injection, IsInjective
  <2>2. f \in Surjection(KnownSales(c), Notified)
    BY DEF Surjection
  <2>3. ExistsBijection(KnownSales(c), Notified)
    BY <2>1, <2>2 DEF ExistsBijection, Bijection
  <2> QED
    BY <1>5, <2>3, FS_Bijection
<1>7. IsFiniteSet(Unnotified)
  <2>1. IsFiniteSet(BidsOf(c))
    BY BidsFinite
  <2> QED
    BY <2>1, FS_Subset
<1> HIDE DEF Unnotified, Notified
<1>8. /\ Cardinality(BidsOf(c)) = Cardinality(Unnotified) + Cardinality(Notified) - 0
      /\ Cardinality(Unnotified) \in Nat
  BY <1>3, <1>4, <1>6, <1>7, FS_Union, FS_EmptySet, FS_CardinalityType
<1>9. winsNotified[c] = Cardinality(KnownSales(c)) /\ spend[c] = Value(KnownSales(c))
  BY DEF Books
<1>10. restarts = 0 => bidsSubmitted[c] = Cardinality(BidsOf(c))
  BY DEF Books
<1> QED
  BY <1>5, <1>6, <1>8, <1>9, <1>10 DEF Unnotified

\* What the buyers have counted is what the seller has recorded, less what was lost:
\* for any buyers, requests, failures and restarts.
THEOREM BooksAreReconciled == Spec => []BooksReconcile
<1>1. Init => Books
  BY InitBooks
<1>2. Facts /\ Facts' /\ Books /\ [Next]_vars => Books'
  BY NextBooks
<1>3. Facts /\ Books => BooksReconcile
  BY BooksExplain
<1> QED
  BY <1>1, <1>2, <1>3, FactsHold, PTL DEF Spec

------------------------------------------------------------------------------
\* CAPS AND BUDGETS OF THE BUYERS

LEMMA InformedFinite ==
  ASSUME NEW c \in Camps, NEW u
  PROVE  IsFiniteSet(InformedFor(c, u)) /\ IsFiniteSet(InformedUnits(c))
<1>1. IsFiniteSet(InformedFor(c, u))
  <2>1. InformedFor(c, u) \in SUBSET Requests
    BY DEF InformedFor, RequestsOf
  <2> QED
    BY <2>1, RequestsAssumption, FS_Subset
<1>2. IsFiniteSet(InformedUnits(c))
  <2>1. IsFiniteSet(1..MaxCPM[c])
    BY CampaignAssumption, FS_Interval
  <2>2. IsFiniteSet(Requests \X (1..MaxCPM[c]))
    BY <2>1, RequestsAssumption, FS_Product
  <2>3. InformedUnits(c) \in SUBSET (Requests \X (1..MaxCPM[c]))
    BY DEF InformedUnits
  <2> QED
    BY <2>2, <2>3, FS_Subset
<1> QED
  BY <1>1, <1>2

\* What holds of one campaign, and why it still holds where nothing new is on offer.
InReach(c) ==
    /\ FreqCapPerUser[c] > 0 =>
          \A u \in Users : Cardinality(InformedFor(c, u)) <= FreqCapPerUser[c]
    /\ DailyBudget[c] > 0 =>
          Cardinality(InformedUnits(c)) < DailyBudget[c] + MaxCPM[c]

NoNewOffer(c) ==
    \A q \in Requests, b \in Buyers :
       OnOffer(q, b, c)' => OnOffer(q, b, c) /\ reply'[q][b] = reply[q][b]

LEMMA Smaller ==
  ASSUME NEW S, NEW T, IsFiniteSet(S), T \subseteq S
  PROVE  /\ Cardinality(T) \in Nat /\ Cardinality(S) \in Nat
         /\ Cardinality(T) <= Cardinality(S)
BY FS_Subset, FS_CardinalityType

LEMMA ReachShrinks ==
  ASSUME NEW c \in Camps, InReach(c), NoNewOffer(c)
  PROVE  InReach(c)'
<1>1. ASSUME NEW u \in Users, FreqCapPerUser[c] > 0
      PROVE  Cardinality(InformedFor(c, u)') <= FreqCapPerUser[c]
  <2>1. InformedFor(c, u)' \subseteq InformedFor(c, u)
    BY DEF NoNewOffer, InformedFor, RequestsOf
  <2>2. Cardinality(InformedFor(c, u)) <= FreqCapPerUser[c]
    BY <1>1 DEF InReach
  <2>3. FreqCapPerUser[c] \in Nat
    BY CampaignAssumption
  <2> QED
    BY <2>1, <2>2, <2>3, InformedFinite, Smaller
<1>2. ASSUME DailyBudget[c] > 0
      PROVE  Cardinality(InformedUnits(c)') < DailyBudget[c] + MaxCPM[c]
  <2>1. InformedUnits(c)' \subseteq InformedUnits(c)
    <3> SUFFICES ASSUME NEW x \in InformedUnits(c)' PROVE x \in InformedUnits(c)
      OBVIOUS
    <3>1. x \in Requests \X (1..MaxCPM[c]) /\ x[1] \in Requests
      BY DEF InformedUnits
    <3>2. PICK b \in Buyers : /\ OnOffer(x[1], b, c)'
                              /\ reply'[x[1]][b].unseen = {}
                              /\ x[2] \in 1..reply'[x[1]][b].price
      BY DEF InformedUnits
    <3>3. OnOffer(x[1], b, c) /\ reply'[x[1]][b] = reply[x[1]][b]
      BY <3>1, <3>2 DEF NoNewOffer
    <3> QED
      BY <3>1, <3>2, <3>3 DEF InformedUnits
  <2>2. Cardinality(InformedUnits(c)) < DailyBudget[c] + MaxCPM[c]
    BY <1>2 DEF InReach
  <2>3. DailyBudget[c] \in Nat /\ MaxCPM[c] \in Nat
    BY CampaignAssumption
  <2>4. /\ Cardinality(InformedUnits(c)') \in Nat /\ Cardinality(InformedUnits(c)) \in Nat
        /\ Cardinality(InformedUnits(c)') <= Cardinality(InformedUnits(c))
    BY <2>1, InformedFinite, Smaller
  <2> QED
    BY <2>2, <2>3, <2>4
<1> QED
  BY <1>1, <1>2 DEF InReach

\* Steps that touch neither answers nor winners offer nothing new, nor does deciding
\* a request, declining it, or breaking an answer.
LEMMA QuietOffers ==
  ASSUME UNCHANGED <<reply, winner>>
  PROVE  \A c \in Camps : NoNewOffer(c)
BY DEF NoNewOffer, OnOffer, IsBid, Undecided

LEMMA AllocateOffers ==
  ASSUME TypeOK, NEW r \in Requests, Allocate(r)
  PROVE  \A c \in Camps : NoNewOffer(c)
<1>1. /\ winner[r] = None
      /\ UNCHANGED reply
      /\ \E w \in 0..K : winner' = [winner EXCEPT ![r] = w]
  <2>1. Buyers \subseteq 0..K /\ 0 \in 0..K
    BY BuyersAssumption DEF Buyers
  <2> QED
    BY <2>1, AllocateEffect
<1>2. \A q \in Requests : winner[q] = None \/ winner'[q] = winner[q]
  BY <1>1 DEF TypeOK
<1> QED
  BY <1>1, <1>2, NoneAssumption DEF NoNewOffer, OnOffer, IsBid, Undecided, Buyers

LEMMA NoBidOffers ==
  ASSUME TypeOK, NEW r \in Requests, NEW b \in Buyers, NEW x \in NotBids,
         reply' = [reply EXCEPT ![r][b] = x], winner' = winner
  PROVE  \A c \in Camps : NoNewOffer(c)
<1>1. x \in AnyReply
  BY DEF AnyReply
<1>2. /\ reply'[r][b] = x
      /\ \A q \in Requests, d \in Buyers :
            <<q, d>> # <<r, b>> => reply'[q][d] = reply[q][d]
  BY <1>1, ReplyType
<1>3. ~IsBid(r, b)'
  BY <1>2 DEF IsBid
<1> QED
  BY <1>2, <1>3 DEF NoNewOffer, OnOffer, IsBid, Undecided

------------------------------------------------------------------------------
\* A new bid of campaign e, made for request r: what it is made in knowledge of is
\* what the books of the buyer say.
NewBid(r, b, e, p) ==
    /\ reply[r][b] = None /\ winner' = winner
    /\ reply'[r][b] = [camp |-> e, price |-> p, unseen |-> Unseen(e)]
    /\ \A q \in Requests, d \in Buyers :
          <<q, d>> # <<r, b>> => reply'[q][d] = reply[q][d]

\* Every offer but the new one was there before; and one the buyer knows of is sold.
LEMMA OldOffer ==
  ASSUME NEW r \in Requests, NEW b \in Buyers, NEW e \in Camps, NEW p,
         NewBid(r, b, e, p), NEW q \in Requests, NEW d \in Buyers, NEW c \in Camps,
         OnOffer(q, d, c)', <<q, d>> # <<r, b>> \/ c # e
  PROVE  /\ OnOffer(q, d, c) /\ reply'[q][d] = reply[q][d]
         /\ q \notin Unseen(c) => q \in KnownSales(c) /\ winner[q] = d
<1>1. <<q, d>> # <<r, b>>
  BY DEF NewBid, OnOffer
<1>2. OnOffer(q, d, c) /\ reply'[q][d] = reply[q][d]
  BY <1>1 DEF NewBid, OnOffer, IsBid, Undecided
<1>3. ASSUME q \notin Unseen(c) PROVE q \in KnownSales(c) /\ winner[q] = d
  <2>1. ~Live(q, d, c) /\ (Sold(q, c) => notice[q] = "delivered")
    BY <1>3 DEF Unseen
  <2>2. winner[q] = d /\ Sold(q, c)
    BY <1>2, <2>1 DEF OnOffer, Live, Sold
  <2> QED
    BY <2>1, <2>2 DEF KnownSales, SalesOf
<1> QED
  BY <1>2, <1>3

LEMMA NewBidCap ==
  ASSUME Facts, Books, NEW r \in Requests, NEW b \in Buyers, NEW e \in Camps, NEW p,
         NewBid(r, b, e, p), UnderCap(e, UserOf[r]), InReach(e),
         NEW u \in Users, FreqCapPerUser[e] > 0
  PROVE  Cardinality(InformedFor(e, u)') <= FreqCapPerUser[e]
<1>1. FreqCapPerUser[e] \in Nat
  BY CampaignAssumption
<1>2. CASE UserOf[r] # u \/ RequestsOf(u) \cap Unseen(e) # {}
  <2>1. InformedFor(e, u)' \subseteq InformedFor(e, u)
    <3> SUFFICES ASSUME NEW q \in InformedFor(e, u)' PROVE q \in InformedFor(e, u)
      OBVIOUS
    <3>1. q \in RequestsOf(u) /\ q \in Requests
      BY DEF InformedFor, RequestsOf
    <3>2. PICK d \in Buyers : /\ OnOffer(q, d, e)'
                              /\ RequestsOf(u) \cap reply'[q][d].unseen = {}
      BY DEF InformedFor, RequestsOf
    <3>3. <<q, d>> # <<r, b>>
      BY <1>2, <3>1, <3>2 DEF NewBid, RequestsOf
    <3>4. OnOffer(q, d, e) /\ reply'[q][d] = reply[q][d]
      BY <3>1, <3>2, <3>3, OldOffer
    <3> QED
      BY <3>1, <3>2, <3>4 DEF InformedFor
  <2>2. Cardinality(InformedFor(e, u)) <= FreqCapPerUser[e]
    BY DEF InReach
  <2> QED
    BY <1>1, <2>1, <2>2, InformedFinite, Smaller
<1>3. CASE UserOf[r] = u /\ RequestsOf(u) \cap Unseen(e) = {}
  <2> DEFINE S == {q \in KnownSales(e) : UserOf[q] = u}
  <2>1. InformedFor(e, u)' \subseteq S \cup {r}
    <3> SUFFICES ASSUME NEW q \in InformedFor(e, u)', q # r PROVE q \in S
      OBVIOUS
    <3>1. q \in RequestsOf(u) /\ q \in Requests /\ UserOf[q] = u
      BY DEF InformedFor, RequestsOf
    <3>2. PICK d \in Buyers : OnOffer(q, d, e)'
      BY DEF InformedFor, RequestsOf
    <3>3. q \notin Unseen(e)
      BY <1>3, <3>1
    <3>4. q \in KnownSales(e)
      BY <3>1, <3>2, <3>3, OldOffer
    <3> QED
      BY <3>1, <3>4
  <2>2. IsFiniteSet(S)
    BY KnownPrices, FS_Subset
  <2>3. freq[e][u] = Cardinality(S)
    BY DEF Books
  <2>4. freq[e][u] < FreqCapPerUser[e]
    BY <1>3, AnonymousAssumption DEF UnderCap
  <2> HIDE DEF S
  <2>5. /\ IsFiniteSet(S \cup {r}) /\ Cardinality(S) \in Nat
        /\ Cardinality(S \cup {r}) <= Cardinality(S) + 1
    <3>1. CASE r \in S
      <4>1. S \cup {r} = S
        BY <3>1
      <4>2. Cardinality(S) \in Nat
        BY <2>2, FS_CardinalityType
      <4>3. Cardinality(S \cup {r}) = Cardinality(S) /\ IsFiniteSet(S \cup {r})
        BY <2>2, <4>1, Zenon
      <4> QED
        BY <4>2, <4>3
    <3>2. CASE r \notin S
      BY <2>2, <3>2, OneMore
    <3> QED
      BY <3>1, <3>2
  <2>6. /\ Cardinality(InformedFor(e, u)') \in Nat /\ Cardinality(S \cup {r}) \in Nat
        /\ Cardinality(InformedFor(e, u)') <= Cardinality(S \cup {r})
    BY <2>1, <2>5, Smaller
  <2> QED
    BY <1>1, <2>3, <2>4, <2>5, <2>6
<1> QED
  BY <1>2, <1>3

LEMMA NewBidBudget ==
  ASSUME Facts, Books, NEW r \in Requests, NEW b \in Buyers, NEW e \in Camps,
         NEW p \in 1..MaxCPM[e],
         NewBid(r, b, e, p), WithinBudget(e), InReach(e), DailyBudget[e] > 0
  PROVE  Cardinality(InformedUnits(e)') < DailyBudget[e] + MaxCPM[e]
<1>1. DailyBudget[e] \in Nat /\ MaxCPM[e] \in Nat /\ p \in Nat /\ p <= MaxCPM[e]
  BY CampaignAssumption
<1>2. CASE Unseen(e) # {}
  <2>1. InformedUnits(e)' \subseteq InformedUnits(e)
    <3> SUFFICES ASSUME NEW x \in InformedUnits(e)' PROVE x \in InformedUnits(e)
      OBVIOUS
    <3>1. x \in Requests \X (1..MaxCPM[e]) /\ x[1] \in Requests
      BY DEF InformedUnits
    <3>2. PICK d \in Buyers : /\ OnOffer(x[1], d, e)'
                              /\ reply'[x[1]][d].unseen = {}
                              /\ x[2] \in 1..reply'[x[1]][d].price
      BY DEF InformedUnits
    <3>3. <<x[1], d>> # <<r, b>>
      BY <1>2, <3>2 DEF NewBid
    <3>4. OnOffer(x[1], d, e) /\ reply'[x[1]][d] = reply[x[1]][d]
      BY <3>1, <3>2, <3>3, OldOffer
    <3> QED
      BY <3>1, <3>2, <3>4 DEF InformedUnits
  <2>2. Cardinality(InformedUnits(e)) < DailyBudget[e] + MaxCPM[e]
    BY DEF InReach
  <2> QED
    BY <1>1, <2>1, <2>2, InformedFinite, Smaller
<1>3. CASE Unseen(e) = {}
  <2> DEFINE A == UNION {{q} \X (1..PriceOf(q)) : q \in KnownSales(e)}
             B == {r} \X (1..p)
  <2>1. InformedUnits(e)' \subseteq A \cup B
    <3> SUFFICES ASSUME NEW x \in InformedUnits(e)' PROVE x \in A \cup B
      OBVIOUS
    <3>1. x \in Requests \X (1..MaxCPM[e]) /\ x[1] \in Requests
      BY DEF InformedUnits
    <3>2. PICK d \in Buyers : /\ OnOffer(x[1], d, e)'
                              /\ reply'[x[1]][d].unseen = {}
                              /\ x[2] \in 1..reply'[x[1]][d].price
      BY DEF InformedUnits
    <3>3. x = <<x[1], x[2]>>
      BY <3>1
    <3>4. CASE <<x[1], d>> = <<r, b>>
      <4>1. x[1] = r /\ reply'[x[1]][d].price = p
        BY <3>4 DEF NewBid
      <4> QED
        BY <3>2, <3>3, <4>1
    <3>5. CASE <<x[1], d>> # <<r, b>>
      <4>1. /\ reply'[x[1]][d] = reply[x[1]][d]
            /\ x[1] \in KnownSales(e) /\ winner[x[1]] = d
        BY <1>3, <3>1, <3>2, <3>5, OldOffer
      <4>2. x[2] \in 1..PriceOf(x[1])
        BY <3>2, <4>1 DEF PriceOf, Price
      <4>3. x \in {x[1]} \X (1..PriceOf(x[1]))
        BY <3>3, <4>2
      <4> QED
        BY <4>1, <4>3
    <3> QED
      BY <3>4, <3>5
  <2>2. IsFiniteSet(A)
    BY KnownPrices, ValueType
  <2>3. Cardinality(A) = spend[e]
    BY DEF Books, Value
  <2>4. spend[e] < DailyBudget[e]
    BY DEF WithinBudget
  <2>5. IsFiniteSet(B) /\ Cardinality(B) = p
    BY <1>1, UnitsOfOne
  <2> HIDE DEF A, B
  <2>6. /\ IsFiniteSet(A \cup B)
        /\ Cardinality(A \cup B) = Cardinality(A) + Cardinality(B) - Cardinality(A \cap B)
    BY <2>2, <2>5, FS_Union
  <2>7. Cardinality(A) \in Nat /\ Cardinality(A \cap B) \in Nat
    <3>1. IsFiniteSet(A \cap B)
      BY <2>2, FS_Subset
    <3> QED
      BY <2>2, <3>1, FS_CardinalityType
  <2>8. /\ Cardinality(InformedUnits(e)') \in Nat
        /\ Cardinality(InformedUnits(e)') <= Cardinality(A \cup B)
    BY <2>1, <2>6, Smaller
  <2> QED
    BY <1>1, <2>3, <2>4, <2>5, <2>6, <2>7, <2>8
<1> QED
  BY <1>2, <1>3

LEMMA HandleBidReach ==
  ASSUME Facts, Books, WithinReach, NEW r \in Requests, NEW b \in Buyers, HandleBid(r, b)
  PROVE  WithinReach'
<1>0. TypeOK /\ reply[r][b] = None /\ UNCHANGED winner
  BY DEF Facts, HandleBid
<1>1. CASE reply' = [reply EXCEPT ![r][b] = NoBid] /\ UNCHANGED books
  <2>1. \A c \in Camps : NoNewOffer(c)
    BY <1>0, <1>1, NoBidOffers DEF NotBids
  <2> QED
    BY <2>1, ReachShrinks DEF WithinReach, InReach
<1>2. ASSUME NEW e \in Camps, NEW p \in 1..MaxCPM[e], Eligible(e, BidRequest[r]),
             [camp |-> e, price |-> p, unseen |-> Unseen(e)] \in AnyBid,
             reply' = [reply EXCEPT ![r][b] =
                [camp |-> e, price |-> p, unseen |-> Unseen(e)]]
      PROVE  WithinReach'
  <2>1. NewBid(r, b, e, p)
    <3>1. [camp |-> e, price |-> p, unseen |-> Unseen(e)] \in AnyReply
      BY <1>2 DEF AnyReply
    <3> DEFINE x == [camp |-> e, price |-> p, unseen |-> Unseen(e)]
    <3>2. /\ reply'[r][b] = x
          /\ \A q \in Requests, d \in Buyers :
                <<q, d>> # <<r, b>> => reply'[q][d] = reply[q][d]
      <4>1. reply' = [reply EXCEPT ![r][b] = x] /\ x \in AnyReply
        BY <1>2, <3>1
      <4> HIDE DEF x
      <4> QED
        BY <1>0, <4>1, ReplyType
    <3> QED
      BY <1>0, <3>2 DEF NewBid
  <2>2. WithinBudget(e) /\ UnderCap(e, UserOf[r])
    <3>1. BidRequest[r].user = UserOf[r]
      BY DEF BidRequest
    <3> QED
      BY <1>2, <3>1 DEF Eligible
  <2>3. ASSUME NEW c \in Camps PROVE InReach(c)'
    <3>1. InReach(c)
      BY DEF WithinReach, InReach
    <3>2. CASE c # e
      <4>1. NoNewOffer(c)
        BY <2>1, <3>2, OldOffer DEF NoNewOffer
      <4> QED
        BY <3>1, <4>1, ReachShrinks
    <3>3. CASE c = e
      BY <2>1, <2>2, <3>1, <3>3, NewBidCap, NewBidBudget DEF InReach
    <3> QED
      BY <3>2, <3>3
  <2> QED
    BY <2>3 DEF WithinReach, InReach
<1>3. ASSUME NEW i \in DOMAIN CampaignsOf[b],
             LET c == CampaignsOf[b][i] IN
               \E p \in 1..MaxCPM[c] :
                  /\ Eligible(c, BidRequest[r])
                  /\ [camp |-> c, price |-> p, unseen |-> Unseen(c)] \in AnyBid
                  /\ reply' = [reply EXCEPT ![r][b] =
                        [camp |-> c, price |-> p, unseen |-> Unseen(c)]]
                  /\ Submit(c)
      PROVE  WithinReach'
  BY <1>2, <1>3, CampaignType
<1> QED
  BY <1>0, <1>1, <1>3, HandleBidEffect

LEMMA InitReach == Init => WithinReach
<1> SUFFICES ASSUME Init, NEW c \in Camps PROVE InReach(c)
  BY DEF WithinReach, InReach
<1>1. \A q \in Requests, b \in Buyers : ~OnOffer(q, b, c)
  BY DEF Init, OnOffer, IsBid
<1>2. InformedUnits(c) = {} /\ \A u \in Users : InformedFor(c, u) = {}
  <2>1. \A u \in Users : InformedFor(c, u) = {}
    BY <1>1 DEF InformedFor, RequestsOf
  <2>2. InformedUnits(c) = {}
    BY <1>1 DEF InformedUnits
  <2> QED
    BY <2>1, <2>2
<1>3. /\ Cardinality({}) = 0
      /\ FreqCapPerUser[c] \in Nat /\ DailyBudget[c] \in Nat /\ MaxCPM[c] \in Nat
  BY FS_EmptySet, CampaignAssumption
<1> QED
  BY <1>2, <1>3 DEF InReach

LEMMA NextReach == Facts /\ Books /\ WithinReach /\ [Next]_vars => WithinReach'
<1> SUFFICES ASSUME Facts, Books, WithinReach, [Next]_vars PROVE WithinReach'
  OBVIOUS
<1>0. TypeOK
  BY DEF Facts
<1>1. ASSUME \A c \in Camps : NoNewOffer(c) PROVE WithinReach'
  BY <1>1, ReachShrinks DEF WithinReach, InReach
<1>2. ASSUME UNCHANGED <<reply, winner>> PROVE WithinReach'
  BY <1>1, <1>2, QuietOffers
<1>3. ASSUME NEW r \in Requests,
             Call(r) \/ Disconnect(r) \/ ServerSteps(r) \/ Deliver(r) \/ Lose(r)
      PROVE  WithinReach'
  <2>1. CASE Allocate(r)
    BY <1>0, <1>1, <2>1, AllocateOffers
  <2>2. CASE Call(r) \/ Disconnect(r) \/ Deliver(r) \/ Lose(r) \/ Expire(r)
    BY <1>2, <2>2 DEF Call, Disconnect, Deliver, Lose, Expire
  <2>3. CASE \E b \in Buyers : ConnectionFails(r, b) \/ Respond(r, b) \/ Decode(r, b)
    BY <1>2, <2>3 DEF ConnectionFails, Respond, Decode, Conclude
  <2> QED
    BY <1>3, <2>1, <2>2, <2>3 DEF ServerSteps
<1>4. ASSUME NEW r \in Requests, NEW b \in Buyers, Break(r, b) PROVE WithinReach'
  BY <1>0, <1>1, <1>4, NoBidOffers DEF Break, NotBids
<1>5. /\ \A r \in Requests, b \in Buyers : Tear(r, b) => WithinReach'
      /\ \A b \in Buyers : Restart(b) => WithinReach'
  BY <1>2 DEF Tear, Restart
<1>6. CASE UNCHANGED vars
  BY <1>2, <1>6 DEF vars
<1> QED
  BY <1>3, <1>4, <1>5, <1>6, HandleBidReach DEF Next

\* What is sold in full knowledge is on offer in full knowledge.
LEMMA ReachExplains == Facts /\ WithinReach => OverdeliveryExplained
<1> SUFFICES ASSUME Facts, NEW c \in Camps, InReach(c)
             PROVE  /\ FreqCapPerUser[c] > 0 =>
                          \A u \in Users :
                             Cardinality({q \in SalesOf(c) :
                                 /\ UserOf[q] = u
                                 /\ {p \in Requests : UserOf[p] = u} \subseteq KnownOf(q)})
                             <= FreqCapPerUser[c]
                    /\ DailyBudget[c] > 0 =>
                          Value({q \in SalesOf(c) : KnownOf(q) = Requests})
                          < DailyBudget[c] + MaxCPM[c]
  BY DEF OverdeliveryExplained, WithinReach, InReach
<1>0. FreqCapPerUser[c] \in Nat /\ DailyBudget[c] \in Nat /\ MaxCPM[c] \in Nat
  BY CampaignAssumption
<1>1. \A q \in SalesOf(c) :
         /\ q \in Requests /\ winner[q] \in Buyers /\ OnOffer(q, winner[q], c)
         /\ reply[q][winner[q]].unseen \in SUBSET Requests
         /\ PriceOf(q) \in 1..MaxCPM[c]
  <2> SUFFICES ASSUME NEW q \in SalesOf(c)
               PROVE  /\ q \in Requests /\ winner[q] \in Buyers /\ OnOffer(q, winner[q], c)
                      /\ reply[q][winner[q]].unseen \in SUBSET Requests
                      /\ PriceOf(q) \in 1..MaxCPM[c]
    OBVIOUS
  <2>1. q \in Requests /\ winner[q] \in Buyers /\ IsBid(q, winner[q])
        /\ reply[q][winner[q]].camp = c
    BY DEF SalesOf, Sold
  <2>2. reply[q][winner[q]].unseen \in SUBSET Requests
    BY <2>1, BidType DEF Facts
  <2>3. PriceOf(q) \in 1..MaxCPM[c]
    BY <2>1 DEF Facts, Bids, PriceOf, Price
  <2> QED
    BY <2>1, <2>2, <2>3 DEF OnOffer
<1>2. ASSUME NEW u \in Users, FreqCapPerUser[c] > 0
      PROVE  Cardinality({q \in SalesOf(c) :
                /\ UserOf[q] = u
                /\ {p \in Requests : UserOf[p] = u} \subseteq KnownOf(q)})
             <= FreqCapPerUser[c]
  <2> DEFINE S == {q \in SalesOf(c) : /\ UserOf[q] = u
                                      /\ {p \in Requests : UserOf[p] = u} \subseteq KnownOf(q)}
  <2>1. S \subseteq InformedFor(c, u)
    BY <1>1 DEF InformedFor, RequestsOf, KnownOf
  <2>2. Cardinality(InformedFor(c, u)) <= FreqCapPerUser[c]
    BY <1>2 DEF InReach
  <2> HIDE DEF S
  <2>3. Cardinality(S) <= FreqCapPerUser[c]
    BY <1>0, <2>1, <2>2, InformedFinite, Smaller
  <2> QED
    BY <2>3 DEF S
<1>3. ASSUME DailyBudget[c] > 0
      PROVE  Value({q \in SalesOf(c) : KnownOf(q) = Requests}) < DailyBudget[c] + MaxCPM[c]
  <2> DEFINE S == {q \in SalesOf(c) : KnownOf(q) = Requests}
             A == UNION {{q} \X (1..PriceOf(q)) : q \in S}
  <2>1. A \subseteq InformedUnits(c)
    <3> SUFFICES ASSUME NEW q \in S, NEW n \in 1..PriceOf(q)
                 PROVE  <<q, n>> \in InformedUnits(c)
      OBVIOUS
    <3>1. q \in SalesOf(c) /\ KnownOf(q) = Requests
      OBVIOUS
    <3>2. reply[q][winner[q]].unseen = {}
      BY <1>1, <3>1 DEF KnownOf
    <3>3. n \in 1..MaxCPM[c] /\ n \in 1..reply[q][winner[q]].price
      BY <1>0, <1>1, <3>1 DEF PriceOf, Price
    <3> QED
      BY <1>1, <3>1, <3>2, <3>3 DEF InformedUnits
  <2>2. Cardinality(InformedUnits(c)) < DailyBudget[c] + MaxCPM[c]
    BY <1>3 DEF InReach
  <2>3. Value(S) = Cardinality(A)
    BY DEF Value
  <2> HIDE DEF A
  <2>4. Cardinality(A) < DailyBudget[c] + MaxCPM[c]
    BY <1>0, <2>1, <2>2, InformedFinite, Smaller
  <2> QED
    BY <2>3, <2>4
<1> QED
  BY <1>2, <1>3

\* A buyer exceeds its cap and its budget only for what it could not know, for any
\* buyers, requests, prices, failures and restarts.
THEOREM OverdeliveryIsExplained == Spec => []OverdeliveryExplained
<1>1. Init => Books /\ WithinReach
  BY InitBooks, InitReach
<1>2. Facts /\ Facts' /\ Books /\ WithinReach /\ [Next]_vars => (Books /\ WithinReach)'
  BY NextBooks, NextReach
<1>3. Facts /\ WithinReach => OverdeliveryExplained
  BY ReachExplains
<1> QED
  BY <1>1, <1>2, <1>3, FactsHold, PTL DEF Spec
==============================================================================
