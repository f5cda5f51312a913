-------------------------- MODULE AdDecisionProofs --------------------------
(***************************************************************************)
(* For any number of line items and buyers and any prices: guaranteed      *)
(* demand is never put up for auction, the auction sells to the highest    *)
(* bid and only above the line item Decide selected, and trace and auction *)
(* record tell what happened.                                              *)
(*                                                                         *)
(* None of these is inductive.  They speak of a finished decision; what    *)
(* they need from the steps before is that Decide returns the line item    *)
(* nothing outranks (SelectedIsBest), that bids are only collected when it *)
(* is not guaranteed, that none is announced before the end, and that the  *)
(* ones in competition are at the floor (BidsInOrder).                     *)
(***************************************************************************)
EXTENDS AdDecision, FiniteSetTheorems, WellFoundedInduction, TLAPS

SelectedIsBest ==
    selected # None =>
        /\ Len(reasons) = N
        /\ selected = 0 => Eligible = {}
        /\ selected # 0 => /\ selected \in Eligible
                           /\ \A i \in Eligible : ~Outranks(i, selected)

BidsInOrder ==
    /\ allocation # None => selected # None
    /\ bids # <<>> => selected # None /\ ~Guaranteed(selected)
    /\ allocation = None => With({"won", "lost"}) = {}
    /\ \A b \in With({"bid", "won", "lost"}) : bids[b].cpm >= floor

IInv ==
    TypeOK /\ SelectedIsBest /\ BidsInOrder /\ GuaranteeHonoured /\ SoldToHighest



USE SizesAssumption, MoneyAssumption, NoneAssumption

------------------------------------------------------------------------------
\* Rounding to whole cents keeps a price a price.
LEMMA Round2Type ==
  ASSUME NEW price \in Nat
  PROVE  Round2(price) \in Nat
BY DEF Round2

\* What a line item bids with.
LEMMA DemandType ==
  ASSUME TypeOK, NEW i \in LineItems
  PROVE  demand[i].priority \in Int /\ demand[i].ecpm \in Nat
<1>1. demand \in [LineItems -> [priority : Priorities, ecpm : Values]]
  BY DEF TypeOK
<1>2. demand[i] \in [priority : Priorities, ecpm : Values]
  BY <1>1
<1>3. demand[i].priority \in Priorities /\ demand[i].ecpm \in Values
  BY <1>2
<1>4. QED
  BY <1>3

\* What is paid for the line item Decide selected is a price.
LEMMA ECPMType ==
  ASSUME TypeOK, NEW i \in 0..N
  PROVE  ECPM(i) \in Nat
<1>1. CASE i = 0
  BY <1>1 DEF ECPM
<1>2. CASE i \in LineItems
  BY <1>2, DemandType DEF ECPM, LineItems
<1>3. QED
  BY <1>1, <1>2 DEF LineItems

\* A buyer's answer is one more entry of the record.
Entry == [status : Statuses, cpm : Nat, markup : BOOLEAN]

LEMMA EntryType ==
  ASSUME TypeOK
  PROVE  /\ bids \in Seq(Entry)
         /\ Len(bids) \in Nat
         /\ \A b \in 1..Len(bids) :
               /\ bids[b].status \in Statuses
               /\ bids[b].cpm \in Nat
               /\ bids[b].markup \in BOOLEAN
<1>1. bids \in Seq(Entry) /\ Len(bids) \in Nat
  BY DEF TypeOK, Entry
<1>2. \A b \in 1..Len(bids) : bids[b] \in Entry
  BY <1>1
<1>3. QED
  BY <1>1, <1>2 DEF Entry

LEMMA TallyType ==
  ASSUME TypeOK
  PROVE  /\ tally \in [received : Nat, timedOut : Nat, belowFloor : Nat]
         /\ tally.received \in Nat /\ tally.timedOut \in Nat /\ tally.belowFloor \in Nat
BY DEF TypeOK

LEMMA NoBidType ==
  ASSUME TypeOK, NEW status \in {"not_eligible", "timeout", "no_bid"}, NoBid(status)
  PROVE  /\ bids' \in Seq(Entry)
         /\ tally' \in [received : Nat, timedOut : Nat, belowFloor : Nat]
<1>1. [status |-> status, cpm |-> 0, markup |-> FALSE] \in Entry
  BY DEF Entry, Statuses
<1>2. bids' \in Seq(Entry)
  BY <1>1, EntryType DEF NoBid
<1>3. tally' \in [received : Nat, timedOut : Nat, belowFloor : Nat]
  BY TallyType DEF NoBid
<1>4. QED
  BY <1>2, <1>3

LEMMA BidType ==
  ASSUME TypeOK, NEW price \in Nat, NEW markup \in BOOLEAN, Bid(price, markup)
  PROVE  /\ bids' \in Seq(Entry)
         /\ tally' \in [received : Nat, timedOut : Nat, belowFloor : Nat]
<1> DEFINE low == Round2(price) < floor
<1> DEFINE entry == [status |-> IF low THEN "below_floor" ELSE "bid",
                     cpm |-> Round2(price), markup |-> markup]
<1>1. entry \in Entry
  BY Round2Type DEF Entry, Statuses
<1>2. bids' = Append(bids, entry)
  BY DEF Bid
<1>3. bids' \in Seq(Entry)
  BY <1>1, <1>2, EntryType
<1>4. tally' \in [received : Nat, timedOut : Nat, belowFloor : Nat]
  <2> HIDE DEF low
  <2>1. tally' = [tally EXCEPT !.received = @ + 1, !.belowFloor = IF low THEN @ + 1 ELSE @]
    BY DEF Bid, low
  <2>2. (IF low THEN tally.belowFloor + 1 ELSE tally.belowFloor) \in Nat
    BY TallyType
  <2>3. tally' = [received |-> tally.received + 1, timedOut |-> tally.timedOut,
                  belowFloor |-> IF low THEN tally.belowFloor + 1 ELSE tally.belowFloor]
    BY <2>1, TallyType
  <2>4. QED
    BY <2>2, <2>3, TallyType
<1>5. QED
  BY <1>3, <1>4

\* Announcing the result changes statuses only.
LEMMA AnnounceType ==
  ASSUME TypeOK, NEW b \in Buyers, Announce(b)
  PROVE  /\ bids' \in Seq(Entry)
         /\ Len(bids') = Len(bids)
         /\ \A d \in 1..Len(bids) :
               /\ bids'[d].cpm = bids[d].cpm
               /\ bids'[d].status =
                     IF bids[d].status # "bid" THEN bids[d].status
                     ELSE IF d = b THEN "won" ELSE "lost"
<1>1. bids \in Seq(Entry) /\ Len(bids) \in Nat
  BY EntryType
<1>2. \A d \in 1..Len(bids) : bids[d] \in Entry
  BY <1>1
<1>3. \A d \in 1..Len(bids) :
        /\ bids'[d] \in Entry
        /\ bids'[d].cpm = bids[d].cpm
        /\ bids'[d].status = IF bids[d].status # "bid" THEN bids[d].status
                             ELSE IF d = b THEN "won" ELSE "lost"
  BY <1>2 DEF Announce, Entry, Statuses
<1>4. bids' \in [1..Len(bids) -> Entry]
  BY <1>3 DEF Announce
<1>5. bids' \in Seq(Entry) /\ Len(bids') = Len(bids)
  BY <1>1, <1>4
<1>6. QED
  BY <1>3, <1>5

\* Type correctness of a decision, whatever the line items and the answers of
\* the buyers.
THEOREM TypeCorrect == Spec => []TypeOK
<1>1. Init => TypeOK
  BY DEF Init, TypeOK
<1>2. TypeOK /\ [Next]_vars => TypeOK'
  <2> SUFFICES ASSUME TypeOK, [Next]_vars
               PROVE  TypeOK'
    OBVIOUS
  <2>1. ASSUME NEW reason \in Objections \cup {"eligible"}, Consider(reason)
        PROVE  TypeOK'
    BY <2>1 DEF TypeOK, Consider, Reasons, Objections
  <2>2. CASE Decide
    <3>1. CASE SelectNothing
      BY <2>2, <3>1 DEF TypeOK, Decide, SelectNothing, Rules
    <3>2. ASSUME NEW w \in LineItems, SelectLineItem(w)
          PROVE  TypeOK'
      <4>1. reasons \in Seq(Reasons) /\ Len(reasons) = N
        BY <2>2 DEF TypeOK, Decide
      <4>2. reasons' \in [1..N -> Reasons]
        BY <3>2, <4>1 DEF SelectLineItem, LineItems, Reasons
      <4>3. reasons' \in Seq(Reasons)
        BY <4>2
      <4>4. selected' \in 0..N /\ rule' \in Rules
        BY <3>2 DEF SelectLineItem, LineItems, Rule, Rules
      <4>5. QED
        BY <2>2, <4>3, <4>4 DEF TypeOK, Decide
    <3>3. QED
      BY <2>2, <3>1, <3>2 DEF Decide
  <2>3. CASE AllocateGuaranteed
    <3>1. selected \in 0..N
      BY <2>3 DEF TypeOK, AllocateGuaranteed
    <3>2. QED
      BY <2>3, <3>1, ECPMType DEF TypeOK, AllocateGuaranteed, Allocations
  <2>4. CASE NetworkBid
    BY <2>4, NoBidType, BidType DEF TypeOK, NetworkBid, Entry
  <2>5. CASE LocalBid
    BY <2>5, NoBidType, BidType DEF TypeOK, LocalBid, Entry
  <2>6. CASE CloseAuction
    <3>1. selected \in 0..N /\ ECPM(selected) \in Nat
      BY <2>6, ECPMType DEF TypeOK, CloseAuction, InAuction
    <3>2. RemnantOrNothing \in Allocations
      BY <3>1 DEF RemnantOrNothing, Allocations
    <3>3. CASE allocation' = RemnantOrNothing /\ UNCHANGED bids
      BY <2>6, <3>2, <3>3 DEF TypeOK, CloseAuction
    <3>4. ASSUME NEW b \in Buyers, Announce(b), allocation' = Compete(b)
          PROVE  TypeOK'
      <4>1. bids[b].cpm \in Nat
        BY <2>6, EntryType DEF CloseAuction, Buyers
      <4>2. Compete(b) \in Allocations
        BY <3>2, <4>1 DEF Compete, ToBuyer, Allocations, Buyers
      <4>3. QED
        BY <2>6, <3>4, <4>2, AnnounceType DEF TypeOK, CloseAuction, Entry
    <3>5. QED
      BY <2>6, <3>3, <3>4 DEF CloseAuction
  <2>7. CASE Answer
    <3>1. HasMarkup(allocation) \in BOOLEAN
      BY <2>7 DEF TypeOK, Answer, HasMarkup
    <3>2. QED
      BY <2>7, <3>1 DEF TypeOK, Answer
  <2>8. CASE UNCHANGED vars
    BY <2>8 DEF TypeOK, vars
  <2>9. QED
    BY <2>1, <2>2, <2>3, <2>4, <2>5, <2>6, <2>7, <2>8 DEF Next
<1>3. QED
  BY <1>1, <1>2, PTL DEF Spec

------------------------------------------------------------------------------
\* The line item sorted first outranks, or ties with, every other.
LEMMA FirstIsBest ==
  ASSUME TypeOK, NEW w \in LineItems, NEW S \in SUBSET LineItems, SortedFirst(w, S),
         NEW i \in S
  PROVE  /\ ~Outranks(i, w)
         /\ demand[i].priority <= demand[w].priority
         /\ demand[i].priority = demand[w].priority => demand[i].ecpm <= demand[w].ecpm
BY DemandType DEF SortedFirst, Outranks

\* Naming a winner leaves the same line items eligible.
LEMMA SelectKeepsEligible ==
  ASSUME NEW w \in LineItems, SelectLineItem(w)
  PROVE  Eligible' = Eligible
BY DEF SelectLineItem, Eligible, Objections

LEMMA DecideEligible ==
  ASSUME Decide
  PROVE  Eligible' = Eligible
BY SelectKeepsEligible DEF Decide, SelectNothing, Eligible

\* Which of the bids are in competition or announced, after another answer.
LEMMA WithNoBid ==
  ASSUME TypeOK, NEW status \in {"not_eligible", "timeout", "no_bid"}, NoBid(status),
         NEW S
  PROVE  /\ With(S)' = IF status \in S THEN With(S) \cup {Len(bids) + 1} ELSE With(S)
         /\ \A b \in 1..Len(bids) : bids'[b] = bids[b]
         /\ bids' # <<>>
<1> DEFINE entry == [status |-> status, cpm |-> 0, markup |-> FALSE]
<1>1. bids \in Seq(Entry) /\ Len(bids) \in Nat
  BY EntryType
<1>2. entry \in Entry /\ entry.status = status
  BY DEF Entry, Statuses
<1>3. bids' = Append(bids, entry)
  BY DEF NoBid
<1> HIDE DEF entry
<1>4. /\ Len(bids') = Len(bids) + 1
      /\ bids'[Len(bids) + 1] = entry
      /\ \A b \in 1..Len(bids) : bids'[b] = bids[b]
  BY <1>1, <1>2, <1>3
<1>5. With(S)' = IF status \in S THEN With(S) \cup {Len(bids) + 1} ELSE With(S)
  BY <1>1, <1>2, <1>4 DEF With
<1>6. QED
  BY <1>1, <1>4, <1>5

LEMMA WithBid ==
  ASSUME TypeOK, NEW price \in Nat, NEW markup \in BOOLEAN, Bid(price, markup), NEW S
  PROVE  /\ With(S)' = IF (IF Round2(price) < floor THEN "below_floor" ELSE "bid") \in S
                       THEN With(S) \cup {Len(bids) + 1} ELSE With(S)
         /\ \A b \in 1..Len(bids) : bids'[b] = bids[b]
         /\ bids'[Len(bids) + 1].cpm = Round2(price)
         /\ bids' # <<>>
<1> DEFINE entry == [status |-> IF Round2(price) < floor THEN "below_floor" ELSE "bid",
                     cpm |-> Round2(price), markup |-> markup]
<1>1. bids \in Seq(Entry) /\ Len(bids) \in Nat
  BY EntryType
<1>2. /\ entry \in Entry
      /\ entry.status = IF Round2(price) < floor THEN "below_floor" ELSE "bid"
      /\ entry.cpm = Round2(price)
  BY Round2Type DEF Entry, Statuses
<1>3. bids' = Append(bids, entry)
  BY DEF Bid
<1> HIDE DEF entry
<1>4. /\ Len(bids') = Len(bids) + 1
      /\ bids'[Len(bids) + 1] = entry
      /\ \A b \in 1..Len(bids) : bids'[b] = bids[b]
  BY <1>1, <1>2, <1>3
<1>5. With(S)' = IF entry.status \in S THEN With(S) \cup {Len(bids) + 1} ELSE With(S)
  BY <1>1, <1>4 DEF With
<1>6. QED
  BY <1>1, <1>2, <1>4, <1>5

\* Announcing turns the bids in competition into one won and the rest lost.
LEMMA WithAnnounce ==
  ASSUME TypeOK, With({"won", "lost"}) = {}, NEW b \in Buyers, Highest(b), Announce(b)
  PROVE  /\ With({"won"})' = {b}
         /\ With({"won", "lost"})' = With({"bid"})
         /\ With({"bid", "won", "lost"})' = With({"bid"})
         /\ With({"bid", "won", "lost", "below_floor"})' =
               With({"bid", "won", "lost", "below_floor"})
         /\ With({"timeout"})' = With({"timeout"})
         /\ With({"below_floor"})' = With({"below_floor"})
<1>1. /\ Len(bids') = Len(bids)
      /\ \A d \in 1..Len(bids) :
            bids'[d].status = IF bids[d].status # "bid" THEN bids[d].status
                              ELSE IF d = b THEN "won" ELSE "lost"
  BY AnnounceType
<1>2. b \in 1..Len(bids) /\ bids[b].status = "bid"
  BY DEF Highest, With
<1>3. \A d \in 1..Len(bids) : bids[d].status \notin {"won", "lost"}
  BY DEF With
<1>4. QED
  BY <1>1, <1>2, <1>3 DEF With


------------------------------------------------------------------------------
\* Nothing is announced before line items and bids are compared.
LEMMA InitIInv == Init => IInv
<1> SUFFICES ASSUME Init
             PROVE  IInv
  OBVIOUS
<1>1. TypeOK
  BY DEF Init, TypeOK
<1>2. selected = None /\ allocation = None /\ bids = <<>> /\ Len(bids) = 0
  BY DEF Init
<1>3. \A S : With(S) = {}
  BY <1>2 DEF With
<1>4. QED
  BY <1>1, <1>2, <1>3
     DEF IInv, SelectedIsBest, BidsInOrder, GuaranteeHonoured, SoldToHighest

LEMMA ConsiderIInv ==
  ASSUME IInv, TypeOK', NEW reason \in Objections \cup {"eligible"}, Consider(reason)
  PROVE  IInv'
<1>1. selected = None /\ allocation = None /\ bids = <<>>
  BY DEF IInv, Consider, SelectedIsBest, BidsInOrder
<1>2. /\ selected' = None /\ allocation' = None /\ bids' = bids
      /\ floor' = floor /\ demand' = demand
  BY <1>1 DEF Consider
<1>3. \A S : With(S)' = With(S)
  BY <1>2 DEF With
<1>4. QED
  BY <1>1, <1>2, <1>3
     DEF IInv, SelectedIsBest, BidsInOrder, GuaranteeHonoured, SoldToHighest

LEMMA DecideIInv ==
  ASSUME IInv, TypeOK', Decide
  PROVE  IInv'
<1>1. selected = None /\ allocation = None /\ bids = <<>>
  BY DEF IInv, Decide, BidsInOrder
<1>2. /\ allocation' = None /\ bids' = bids /\ floor' = floor /\ demand' = demand
      /\ Eligible' = Eligible
  BY <1>1, DecideEligible DEF Decide
<1>3. \A S : With(S)' = With(S)
  BY <1>2 DEF With
<1>4. SelectedIsBest'
  <2>1. CASE SelectNothing
    BY <1>2, <2>1 DEF Decide, SelectNothing, SelectedIsBest, LineItems
  <2>2. ASSUME NEW w \in LineItems, SelectLineItem(w)
        PROVE  SelectedIsBest'
    <3>1. selected' = w /\ w # 0 /\ w \in Eligible
      BY <2>2 DEF SelectLineItem, SortedFirst, LineItems
    <3>2. Len(reasons') = N
      BY <2>2 DEF SelectLineItem, LineItems
    <3>3. \A i \in Eligible : ~Outranks(i, w)
      BY <2>2, FirstIsBest DEF SelectLineItem, Eligible, IInv
    <3>4. \A i \in Eligible : ~Outranks(i, w)'
      BY <1>2, <3>3 DEF Outranks
    <3>5. QED
      BY <1>2, <3>1, <3>2, <3>4 DEF SelectedIsBest
  <2>3. QED
    BY <2>1, <2>2 DEF Decide
<1>5. QED
  BY <1>1, <1>2, <1>3, <1>4 DEF IInv, BidsInOrder, GuaranteeHonoured, SoldToHighest

\* Of what is eligible when a line item is selected, none has a higher priority.
LEMMA SelectedHasTopPriority ==
  ASSUME IInv, selected # None, NEW i \in Eligible
  PROVE  /\ selected \in LineItems
         /\ demand[i].priority <= demand[selected].priority
<1>1. selected \in 0..N /\ selected # 0
  BY DEF IInv, TypeOK, SelectedIsBest
<1>2. selected \in LineItems /\ i \in LineItems
  BY <1>1 DEF LineItems, Eligible
<1>3. ~Outranks(i, selected)
  BY <1>1 DEF IInv, SelectedIsBest
<1>4. QED
  BY <1>2, <1>3, DemandType DEF IInv, Outranks

LEMMA AllocateGuaranteedIInv ==
  ASSUME IInv, TypeOK', AllocateGuaranteed
  PROVE  IInv'
<1>1. bids = <<>> /\ selected # None
  BY DEF IInv, AllocateGuaranteed, BidsInOrder
<1>2. UNCHANGED <<demand, floor, reasons, selected, bids>>
  BY DEF AllocateGuaranteed
<1>3. /\ Eligible' = Eligible
      /\ \A S : With(S)' = With(S)
      /\ \A S : With(S) = {}
  BY <1>1, <1>2 DEF Eligible, With
<1>4. /\ selected \in LineItems
      /\ selected \in Eligible
      /\ demand[selected].priority >= GuaranteedPriority
  BY <1>1 DEF IInv, TypeOK, AllocateGuaranteed, Guaranteed, SelectedIsBest, LineItems
<1>5. \A i \in Eligible : demand[i].priority <= demand[selected].priority
  BY <1>1, SelectedHasTopPriority
<1>6. GuaranteeHonoured'
  BY <1>1, <1>2, <1>3, <1>4, <1>5 DEF AllocateGuaranteed, GuaranteeHonoured
<1>7. SoldToHighest'
  BY <1>3 DEF AllocateGuaranteed, SoldToHighest
<1>8. SelectedIsBest' /\ BidsInOrder'
  BY <1>1, <1>2, <1>3 DEF IInv, SelectedIsBest, BidsInOrder, Outranks
<1>9. QED
  BY <1>6, <1>7, <1>8 DEF IInv

\* A buyer's answer, over the network or in the process.
LEMMA AnotherBidIInv ==
  ASSUME IInv, TypeOK', InAuction,
         UNCHANGED <<demand, floor, reasons, selected, rule, allocation, answer>>,
         \/ \E status \in {"not_eligible", "timeout", "no_bid"} : NoBid(status)
         \/ \E price \in Nat, markup \in BOOLEAN : Bid(price, markup)
  PROVE  IInv'
<1>1. /\ Eligible' = Eligible
      /\ \A i : Guaranteed(i)' = Guaranteed(i)
      /\ allocation = None /\ allocation' = None
      /\ selected # None /\ ~Guaranteed(selected)
  BY DEF Eligible, Guaranteed, InAuction
<1>2. SelectedIsBest' /\ GuaranteeHonoured' /\ SoldToHighest'
  BY <1>1 DEF IInv, SelectedIsBest, Outranks, GuaranteeHonoured, SoldToHighest
<1>3. \A b \in With({"bid", "won", "lost"}) : b \in 1..Len(bids) /\ bids[b].cpm >= floor
  BY DEF IInv, BidsInOrder, With
<1>4. /\ With({"won", "lost"})' = {}
      /\ \A b \in With({"bid", "won", "lost"})' : bids'[b].cpm >= floor
      /\ bids' # <<>>
  <2>1. ASSUME NEW status \in {"not_eligible", "timeout", "no_bid"}, NoBid(status)
        PROVE  /\ With({"won", "lost"})' = {}
               /\ \A b \in With({"bid", "won", "lost"})' : bids'[b].cpm >= floor
               /\ bids' # <<>>
    <3>1. With({"won", "lost"})' = With({"won", "lost"})
      BY <2>1, WithNoBid DEF IInv
    <3>2. With({"bid", "won", "lost"})' = With({"bid", "won", "lost"})
      BY <2>1, WithNoBid DEF IInv
    <3>3. QED
      BY <1>1, <1>3, <2>1, <3>1, <3>2, WithNoBid DEF IInv, BidsInOrder
  <2>2. ASSUME NEW price \in Nat, NEW markup \in BOOLEAN, Bid(price, markup)
        PROVE  /\ With({"won", "lost"})' = {}
               /\ \A b \in With({"bid", "won", "lost"})' : bids'[b].cpm >= floor
               /\ bids' # <<>>
    <3>1. With({"won", "lost"})' = With({"won", "lost"})
      BY <2>2, WithBid DEF IInv
    <3>2. With({"bid", "won", "lost"})' =
             IF Round2(price) < floor THEN With({"bid", "won", "lost"})
             ELSE With({"bid", "won", "lost"}) \cup {Len(bids) + 1}
      BY <2>2, WithBid DEF IInv
    <3>3. floor \in Nat /\ Round2(price) \in Nat
      BY Round2Type DEF IInv, TypeOK
    <3>4. QED
      BY <1>1, <1>3, <2>2, <3>1, <3>2, <3>3, WithBid DEF IInv, BidsInOrder
  <2>3. QED
    BY <2>1, <2>2
<1>5. QED
  BY <1>1, <1>2, <1>4 DEF IInv, BidsInOrder

\* The comparison at the end: what was bid and what Decide selected.
LEMMA CloseAuctionIInv ==
  ASSUME IInv, TypeOK', CloseAuction
  PROVE  IInv'
<1>1. /\ UNCHANGED <<demand, floor, reasons, selected>>
      /\ selected \in 0..N /\ selected # None /\ ~Guaranteed(selected)
      /\ Eligible' = Eligible
      /\ ECPM(selected) \in Nat /\ ECPM(selected)' = ECPM(selected)
      /\ Guaranteed(selected)' = Guaranteed(selected)
  BY ECPMType DEF IInv, TypeOK, CloseAuction, InAuction, Eligible, ECPM, Guaranteed
<1>2. With({"won", "lost"}) = {}
  BY DEF IInv, BidsInOrder, CloseAuction, InAuction
<1>3. \A i \in Eligible : ~(demand[i].priority >= GuaranteedPriority)
  <2> SUFFICES ASSUME NEW i \in Eligible
               PROVE  ~(demand[i].priority >= GuaranteedPriority)
    OBVIOUS
  <2>1. /\ selected \in LineItems
        /\ demand[i].priority <= demand[selected].priority
    BY <1>1, SelectedHasTopPriority
  <2>2. demand[i].priority \in Int /\ demand[selected].priority \in Int
    BY <2>1, DemandType DEF IInv, Eligible
  <2>3. demand[selected].priority < GuaranteedPriority
    BY <1>1, <2>1, <2>2 DEF Guaranteed, GuaranteedPriority, LineItems
  <2>4. QED
    BY <2>1, <2>2, <2>3 DEF GuaranteedPriority
<1>4. SelectedIsBest'
  BY <1>1 DEF IInv, SelectedIsBest, Outranks
<1>5. RemnantOrNothing.source # "guaranteed" /\ RemnantOrNothing.source # "auction"
  BY DEF RemnantOrNothing
<1>6. CASE With({"bid"}) = {} /\ allocation' = RemnantOrNothing /\ UNCHANGED bids
  <2>1. \A S : With(S)' = With(S)
    BY <1>6 DEF With
  <2>2. allocation'.source # "guaranteed" /\ allocation'.source # "auction"
    BY <1>5, <1>6
  <2>3. BidsInOrder'
    BY <1>1, <1>2, <1>6, <2>1 DEF IInv, BidsInOrder
  <2>4. GuaranteeHonoured'
    BY <1>1, <1>3, <2>2 DEF GuaranteeHonoured, GuaranteedPriority
  <2>5. SoldToHighest'
    BY <1>2, <2>1, <2>2 DEF SoldToHighest
  <2>6. QED
    BY <1>4, <2>3, <2>4, <2>5 DEF IInv
<1>7. ASSUME NEW b \in Buyers, Highest(b), Announce(b), allocation' = Compete(b)
      PROVE  IInv'
  <2>1. /\ With({"won", "lost"})' = With({"bid"})
        /\ With({"bid", "won", "lost"})' = With({"bid"})
    BY <1>2, <1>7, WithAnnounce DEF IInv
  <2>2. /\ With({"bid"}) \subseteq 1..Len(bids)
        /\ b \in With({"bid"})
        /\ \A d \in With({"bid"}) : bids[d].cpm \in Nat /\ bids'[d].cpm = bids[d].cpm
    BY <1>7, EntryType, AnnounceType DEF IInv, With, Highest
  <2>3. \A d \in With({"bid"}) : bids[d].cpm <= bids[b].cpm
    BY <1>7, <2>2 DEF Highest
  <2>4. \A d \in With({"bid"}) : bids[d].cpm >= floor
    BY DEF IInv, BidsInOrder, With
  <2>5. bids # <<>> /\ bids' # <<>>
    BY <2>2, <1>7, EntryType, AnnounceType DEF IInv
  <2>6. allocation' # None
    <3>1. ToBuyer(b) \in Allocations
      BY <2>2 DEF ToBuyer, Allocations, Buyers
    <3>2. RemnantOrNothing \in Allocations
      BY <1>1 DEF RemnantOrNothing, Allocations
    <3>3. QED
      BY <1>7, <3>1, <3>2 DEF Compete
  <2>7. BidsInOrder'
    BY <1>1, <2>1, <2>2, <2>4, <2>6 DEF BidsInOrder
  <2>8. CASE bids[b].cpm > ECPM(selected)
    <3>1. allocation' = [source |-> "auction", item |-> 0, buyer |-> b,
                         price |-> bids[b].cpm]
      BY <1>7, <2>8 DEF Compete, ToBuyer
    <3>2. GuaranteeHonoured'
      BY <1>1, <1>3, <3>1 DEF GuaranteeHonoured, GuaranteedPriority
    <3>3. SoldToHighest'
      BY <1>1, <2>1, <2>2, <2>3, <2>4, <2>8, <3>1 DEF SoldToHighest
    <3>4. QED
      BY <1>4, <2>7, <3>2, <3>3 DEF IInv
  <2>9. CASE ~(bids[b].cpm > ECPM(selected))
    <3>1. allocation' = RemnantOrNothing
      BY <1>7, <2>9 DEF Compete
    <3>2. /\ allocation'.source # "guaranteed" /\ allocation'.source # "auction"
          /\ allocation'.price = ECPM(selected)
      BY <1>5, <3>1 DEF RemnantOrNothing
    <3>3. GuaranteeHonoured'
      BY <1>1, <1>3, <3>2 DEF GuaranteeHonoured, GuaranteedPriority
    <3>4. SoldToHighest'
      BY <1>1, <2>1, <2>2, <2>3, <2>9, <3>2 DEF SoldToHighest
    <3>5. QED
      BY <1>4, <2>7, <3>3, <3>4 DEF IInv
  <2>10. QED
    BY <2>8, <2>9
<1>8. QED
  BY <1>6, <1>7 DEF CloseAuction

\* Answering, and doing nothing, leave the decision alone.
LEMMA SameDecisionIInv ==
  ASSUME IInv, TypeOK',
         UNCHANGED <<demand, floor, reasons, selected, rule, bids, tally, allocation>>
  PROVE  IInv'
<1>1. /\ Eligible' = Eligible
      /\ \A S : With(S)' = With(S)
      /\ ECPM(selected)' = ECPM(selected)
      /\ Guaranteed(selected)' = Guaranteed(selected)
  BY DEF Eligible, With, ECPM, Guaranteed
<1>2. SelectedIsBest' /\ BidsInOrder'
  BY <1>1 DEF IInv, SelectedIsBest, BidsInOrder, Outranks
<1>3. GuaranteeHonoured' /\ SoldToHighest'
  BY <1>1 DEF IInv, GuaranteeHonoured, SoldToHighest
<1>4. QED
  BY <1>2, <1>3 DEF IInv

\* The strengthening holds throughout.
THEOREM Invariant == Spec => []IInv
<1>1. Init => IInv
  BY InitIInv
<1>2. IInv /\ TypeOK' /\ [Next]_vars => IInv'
  <2> SUFFICES ASSUME IInv, TypeOK', [Next]_vars
               PROVE  IInv'
    OBVIOUS
  <2>1. ASSUME NEW reason \in Objections \cup {"eligible"}, Consider(reason)
        PROVE  IInv'
    BY <2>1, ConsiderIInv
  <2>2. CASE Decide
    BY <2>2, DecideIInv
  <2>3. CASE AllocateGuaranteed
    BY <2>3, AllocateGuaranteedIInv
  <2>4. CASE NetworkBid
    BY <2>4, AnotherBidIInv DEF NetworkBid
  <2>5. CASE LocalBid
    BY <2>5, AnotherBidIInv DEF LocalBid
  <2>6. CASE CloseAuction
    BY <2>6, CloseAuctionIInv
  <2>7. CASE Answer
    BY <2>7, SameDecisionIInv DEF Answer
  <2>8. CASE UNCHANGED vars
    BY <2>8, SameDecisionIInv DEF vars
  <2>9. QED
    BY <2>1, <2>2, <2>3, <2>4, <2>5, <2>6, <2>7, <2>8 DEF Next
<1>3. QED
  BY <1>1, <1>2, TypeCorrect, PTL DEF Spec

\* Guaranteed demand is served whenever any is eligible, and never put up for
\* auction.
THEOREM GuaranteeIsHonoured == Spec => []GuaranteeHonoured
<1>1. IInv => GuaranteeHonoured
  BY DEF IInv
<1>2. QED
  BY <1>1, Invariant, PTL

\* The auction sells to the highest bid, at or above the floor and above the
\* line item it displaces, and never passes over a higher one.
THEOREM AuctionSellsToHighest == Spec => []SoldToHighest
<1>1. IInv => SoldToHighest
  BY DEF IInv
<1>2. QED
  BY <1>1, Invariant, PTL

------------------------------------------------------------------------------
\* What is sorted before what, ties in the order of the line items.
Beats(j, i) == Outranks(j, i) \/ (j < i /\ ~Outranks(i, j))

LEMMA BeatsIsOrder ==
  ASSUME TypeOK, NEW i \in LineItems, NEW j \in LineItems, NEW k \in LineItems
  PROVE  /\ ~Beats(i, i)
         /\ i # j => Beats(i, j) \/ Beats(j, i)
         /\ Beats(i, j) /\ Beats(j, k) => Beats(i, k)
<1>1. /\ demand[i].priority \in Int /\ demand[i].ecpm \in Nat /\ i \in Int
      /\ demand[j].priority \in Int /\ demand[j].ecpm \in Nat /\ j \in Int
      /\ demand[k].priority \in Int /\ demand[k].ecpm \in Nat /\ k \in Int
  BY DemandType DEF LineItems
<1>2. QED
  BY <1>1 DEF Beats, Outranks

\* Some line item of any set is sorted first: the one the fewest others beat.
LEMMA FirstExists ==
  ASSUME TypeOK, NEW S \in SUBSET LineItems, S # {}
  PROVE  \E r \in S : SortedFirst(r, S)
<1> DEFINE Above(i) == {j \in S : Beats(j, i)}
<1> DEFINE Counts == {Cardinality(Above(i)) : i \in S}
<1>1. \A i \in S : IsFiniteSet(Above(i)) /\ Cardinality(Above(i)) \in Nat
  <2>1. IsFiniteSet(LineItems)
    BY FS_Interval DEF LineItems
  <2>2. \A i \in S : Above(i) \in SUBSET LineItems
    OBVIOUS
  <2>3. QED
    BY <2>1, <2>2, FS_Subset, FS_CardinalityType
<1>2. PICK n \in Counts : \A m \in Counts : ~(m < n)
  <2>1. Counts \subseteq Nat /\ Counts # {}
    BY <1>1
  <2> HIDE DEF Counts
  <2>2. \E n \in Counts : \A m \in Counts : ~(<<m, n>> \in OpToRel(<, Nat))
    BY <2>1, NatLessThanWellFounded, WFMin
  <2>3. QED
    BY <2>1, <2>2 DEF OpToRel
<1>3. PICK r \in S : n = Cardinality(Above(r))
  BY <1>2
<1>4. \A j \in S : ~Beats(j, r)
  <2> SUFFICES ASSUME NEW j \in S, Beats(j, r)
               PROVE  FALSE
    OBVIOUS
  <2>1. Above(j) \subseteq Above(r) /\ j \in Above(r) /\ j \notin Above(j)
    BY BeatsIsOrder
  <2>2. /\ Cardinality(Above(j)) <= Cardinality(Above(r))
        /\ Cardinality(Above(j)) # Cardinality(Above(r))
    BY <1>1, <2>1, FS_Subset
  <2>3. Cardinality(Above(j)) < n
    BY <1>1, <1>3, <2>2
  <2>4. QED
    BY <1>2, <2>3
<1>5. \A j \in S \ {r} : Beats(r, j)
  BY <1>4, BeatsIsOrder
<1>6. QED
  BY <1>3, <1>5 DEF SortedFirst, Beats

\* "highest_priority" is the rule when nothing else has the winner's priority.
LEMMA RuleIsTrue ==
  ASSUME TypeOK, NEW w \in Eligible, SortedFirst(w, Eligible)
  PROVE  Rule(w) = "highest_priority" <=>
           /\ Eligible # {w}
           /\ \A i \in Eligible \ {w} : demand[i].priority < demand[w].priority
<1>1. Eligible \subseteq LineItems /\ w \in LineItems
  BY DEF Eligible
<1>2. ASSUME Rule(w) = "highest_priority", NEW i \in Eligible \ {w}
      PROVE  demand[i].priority < demand[w].priority
  <2>1. PICK r \in Eligible : /\ SortedFirst(r, Eligible \ {w})
                              /\ demand[r].priority < demand[w].priority
    BY <1>2 DEF Rule
  <2>2. demand[i].priority <= demand[r].priority
    BY <1>1, <2>1, FirstIsBest
  <2>3. QED
    BY <1>1, <2>1, <2>2, DemandType
<1>3. ASSUME Eligible # {w},
             \A i \in Eligible \ {w} : demand[i].priority < demand[w].priority
      PROVE  Rule(w) = "highest_priority"
  <2>1. PICK r \in Eligible \ {w} : SortedFirst(r, Eligible \ {w})
    BY <1>1, <1>3, FirstExists
  <2>2. QED
    BY <1>3, <2>1 DEF Rule
<1>4. QED
  BY <1>2, <1>3 DEF Rule

\* The trace tells every eligible line item that lost why, and names the rule
\* that decided.
THEOREM TraceIsTruthful == Spec => []TraceTruthful
<1>1. Init => TraceTruthful
  BY DEF Init, TraceTruthful, LineItems
<1>2. IInv /\ TraceTruthful /\ [Next]_vars => TraceTruthful'
  <2> SUFFICES ASSUME IInv, TraceTruthful, [Next]_vars
               PROVE  TraceTruthful'
    OBVIOUS
  <2>1. ASSUME NEW reason \in Objections \cup {"eligible"}, Consider(reason)
        PROVE  TraceTruthful'
    BY <2>1 DEF IInv, SelectedIsBest, Consider, TraceTruthful, LineItems
  <2>2. CASE Decide
    <3>1. CASE SelectNothing
      BY <2>2, <3>1 DEF Decide, SelectNothing, TraceTruthful, LineItems
    <3>2. ASSUME NEW w \in LineItems, SelectLineItem(w)
          PROVE  TraceTruthful'
      <4>1. /\ Eligible' = Eligible /\ demand' = demand /\ selected' = w
            /\ SortedFirst(w, Eligible) /\ w \in Eligible /\ TypeOK
            /\ Eligible \subseteq LineItems
        BY <2>2, <3>2, SelectKeepsEligible
           DEF Decide, SelectLineItem, SortedFirst, IInv, Eligible
      <4>2. ASSUME NEW i \in Eligible \ {w}
            PROVE  \/ /\ reasons'[i] = "lost_on_priority"
                      /\ demand[i].priority < demand[w].priority
                   \/ /\ reasons'[i] = "lost_on_value"
                      /\ demand[i].priority = demand[w].priority
                      /\ demand[i].ecpm <= demand[w].ecpm
        <5>1. /\ demand[i].priority <= demand[w].priority
              /\ demand[i].priority = demand[w].priority => demand[i].ecpm <= demand[w].ecpm
              /\ demand[i].priority \in Int /\ demand[w].priority \in Int
          BY <4>1, FirstIsBest, DemandType
        <5>2. reasons'[i] = IF demand[i].priority < demand[w].priority
                            THEN "lost_on_priority" ELSE "lost_on_value"
          BY <3>2, <4>1 DEF SelectLineItem
        <5>3. QED
          BY <5>1, <5>2
      <4>3. rule' = "highest_priority" <=>
              /\ Eligible # {w}
              /\ \A i \in Eligible \ {w} : demand[i].priority < demand[w].priority
        BY <3>2, <4>1, RuleIsTrue DEF SelectLineItem
      <4>4. QED
        BY <4>1, <4>2, <4>3 DEF TraceTruthful
    <3>3. QED
      BY <2>2, <3>1, <3>2 DEF Decide
  <2>3. CASE UNCHANGED <<demand, reasons, selected, rule>>
    BY <2>3 DEF TraceTruthful, Eligible
  <2>4. QED
    BY <2>1, <2>2, <2>3
       DEF Next, AllocateGuaranteed, NetworkBid, LocalBid, CloseAuction, Answer, vars
<1>3. QED
  BY <1>1, <1>2, Invariant, PTL DEF Spec

------------------------------------------------------------------------------
\* There are finitely many bids of any kind, and none of them has a number yet
\* to be given.
LEMMA WithFinite ==
  ASSUME TypeOK, NEW S
  PROVE  /\ IsFiniteSet(With(S))
         /\ Cardinality(With(S)) \in Nat
         /\ Len(bids) + 1 \notin With(S)
         /\ Cardinality(With(S) \cup {Len(bids) + 1}) = Cardinality(With(S)) + 1
<1>1. Len(bids) \in Nat
  BY EntryType
<1>2. IsFiniteSet(1..Len(bids)) /\ With(S) \in SUBSET (1..Len(bids))
  BY <1>1, FS_Interval DEF With
<1>3. IsFiniteSet(With(S)) /\ Cardinality(With(S)) \in Nat
  BY <1>2, FS_Subset, FS_CardinalityType
<1>4. Len(bids) + 1 \notin With(S)
  BY <1>1 DEF With
<1>5. QED
  BY <1>3, <1>4, FS_AddElement

\* Every outcome is counted once.
LEMMA NoBidAddsUp ==
  ASSUME TypeOK, RecordAddsUp, NEW status \in {"not_eligible", "timeout", "no_bid"},
         NoBid(status)
  PROVE  RecordAddsUp'
<1>1. /\ With({"bid", "won", "lost", "below_floor"})' =
            With({"bid", "won", "lost", "below_floor"})
      /\ With({"below_floor"})' = With({"below_floor"})
      /\ With({"won"})' = With({"won"}) /\ With({"lost"})' = With({"lost"})
      /\ With({"timeout"})' = IF status = "timeout"
                              THEN With({"timeout"}) \cup {Len(bids) + 1}
                              ELSE With({"timeout"})
  BY WithNoBid
<1>2. Cardinality(With({"timeout"})') = IF status = "timeout"
                                        THEN Cardinality(With({"timeout"})) + 1
                                        ELSE Cardinality(With({"timeout"}))
  BY <1>1, WithFinite
<1>3. /\ tally'.received = tally.received /\ tally'.belowFloor = tally.belowFloor
      /\ tally'.timedOut = IF status = "timeout" THEN tally.timedOut + 1 ELSE tally.timedOut
  BY TallyType DEF NoBid
<1>4. QED
  BY <1>1, <1>2, <1>3 DEF RecordAddsUp

LEMMA BidAddsUp ==
  ASSUME TypeOK, RecordAddsUp, NEW price \in Nat, NEW markup \in BOOLEAN, Bid(price, markup)
  PROVE  RecordAddsUp'
<1> DEFINE low == Round2(price) < floor
<1>1. /\ With({"bid", "won", "lost", "below_floor"})' =
            With({"bid", "won", "lost", "below_floor"}) \cup {Len(bids) + 1}
      /\ With({"below_floor"})' = IF low THEN With({"below_floor"}) \cup {Len(bids) + 1}
                                  ELSE With({"below_floor"})
      /\ With({"won"})' = With({"won"}) /\ With({"lost"})' = With({"lost"})
      /\ With({"timeout"})' = With({"timeout"})
  BY WithBid
<1>2. /\ tally' = [tally EXCEPT !.received = @ + 1, !.belowFloor = IF low THEN @ + 1 ELSE @]
  BY DEF Bid
<1> HIDE DEF low
<1>3. /\ tally'.received = tally.received + 1 /\ tally'.timedOut = tally.timedOut
      /\ tally'.belowFloor = IF low THEN tally.belowFloor + 1 ELSE tally.belowFloor
  BY <1>2, TallyType
<1>4. Cardinality(With({"bid", "won", "lost", "below_floor"})') =
        Cardinality(With({"bid", "won", "lost", "below_floor"})) + 1
  BY <1>1, WithFinite
<1>5. Cardinality(With({"below_floor"})') = IF low THEN Cardinality(With({"below_floor"})) + 1
                                            ELSE Cardinality(With({"below_floor"}))
  BY <1>1, WithFinite
<1>6. QED
  BY <1>1, <1>3, <1>4, <1>5 DEF RecordAddsUp

\* The counts on the ad_request event agree with the outcomes recorded, and an
\* auction with a loser has exactly one winner.
THEOREM RecordIsSound == Spec => []RecordAddsUp
<1>1. Init => RecordAddsUp
  <2> SUFFICES ASSUME Init
               PROVE  RecordAddsUp
    OBVIOUS
  <2>1. \A S : With(S) = {}
    BY DEF Init, With
  <2>2. QED
    BY <2>1, FS_EmptySet DEF Init, RecordAddsUp
<1>2. IInv /\ RecordAddsUp /\ [Next]_vars => RecordAddsUp'
  <2> SUFFICES ASSUME IInv, RecordAddsUp, [Next]_vars
               PROVE  RecordAddsUp'
    OBVIOUS
  <2>1. TypeOK
    BY DEF IInv
  <2>2. CASE UNCHANGED <<bids, tally>>
    BY <2>2 DEF RecordAddsUp, With
  <2>3. CASE NetworkBid
    BY <2>1, <2>3, NoBidAddsUp, BidAddsUp DEF NetworkBid
  <2>4. CASE LocalBid
    BY <2>1, <2>4, NoBidAddsUp, BidAddsUp DEF LocalBid
  <2>5. CASE CloseAuction
    <3>1. ASSUME NEW b \in Buyers, Highest(b), Announce(b)
          PROVE  RecordAddsUp'
      <4>1. With({"won", "lost"}) = {}
        BY <2>5 DEF IInv, BidsInOrder, CloseAuction, InAuction
      <4>2. /\ With({"won"})' = {b}
            /\ With({"bid", "won", "lost", "below_floor"})' =
                  With({"bid", "won", "lost", "below_floor"})
            /\ With({"timeout"})' = With({"timeout"})
            /\ With({"below_floor"})' = With({"below_floor"})
        BY <2>1, <3>1, <4>1, WithAnnounce
      <4>3. Cardinality({b}) = 1
        BY FS_Singleton
      <4>4. tally' = tally
        BY <2>5 DEF CloseAuction
      <4>5. QED
        BY <4>2, <4>3, <4>4 DEF RecordAddsUp
    <3>2. QED
      BY <2>2, <2>5, <3>1 DEF CloseAuction
  <2>6. QED
    BY <2>2, <2>3, <2>4, <2>5
       DEF Next, Consider, Decide, AllocateGuaranteed, Answer, vars
<1>3. QED
  BY <1>1, <1>2, Invariant, PTL DEF Spec
=============================================================================
