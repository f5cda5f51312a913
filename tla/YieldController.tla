---------------------------- MODULE YieldController ----------------------------
(***************************************************************************)
(* The cold-path controller (tools/yieldctl): it reads what the arms of an  *)
(* experiment earned, takes those that breach a guardrail down to the       *)
(* minimum, shares the rest out within bounds on how far an arm may move,   *)
(* and lays the shares out as ranges of buckets again.                      *)
(*                                                                         *)
(* A share is the number of buckets it is rounded to; what an arm's sampled *)
(* revenue comes to decides nothing but the proportions, so any division of *)
(* the room that keeps to the bounds may come out.  What `propose --out`    *)
(* writes is the file as it was read, for applyProposal changes a copy: a   *)
(* proposal takes effect when a person enters what was printed.             *)
(***************************************************************************)
EXTENDS Experiments, FiniteSetsExt

CONSTANTS
    Arms,           \* variants of the experiment, in the order of their names
    Names,          \* names of arms that a log may have, in their order
    ControlID,      \* its control
    FirstEnd,       \* FirstEnd[i]: where the range of arm i ends at first
    MinArmShare,    \* no arm is starved below this, in buckets
    MaxMovePerRun,  \* no arm moves by more than this in one run, in buckets
    MinDays,        \* days of shadow a promotion needs
    Rates,          \* bound: what a request of an arm may earn on a day
    MaxUnlike,      \* bound: proposals entered for a log whose arms are not the file's
    Nothing         \* no proposal

ArmIDs == Range(Arms)

\* Allocate goes by the order of the names.
Position(a) == CHOOSE k \in DOMAIN Names : Names[k] = a

ASSUME ArmsAssumption ==
    /\ Arms \in Seq(STRING) /\ Arms # <<>> /\ ControlID = Arms[1]
    /\ \A i, j \in DOMAIN Arms : i # j => Arms[i] # Arms[j]
ASSUME NamesAssumption ==
    /\ Names \in Seq(STRING) /\ ArmIDs \subseteq Range(Names)
    /\ \A k, l \in DOMAIN Names : k # l => Names[k] # Names[l]
    /\ \A i, j \in DOMAIN Arms : i < j => Position(Arms[i]) < Position(Arms[j])
ASSUME SharesAssumption ==
    /\ MinArmShare \in 1..BucketCount /\ MaxMovePerRun \in MinArmShare..BucketCount
    /\ 20 * MinArmShare >= BucketCount /\ BucketCount % 20 = 0
    /\ 2 * MinArmShare > Len(Arms)
ASSUME FirstEndAssumption ==
    /\ FirstEnd \in [DOMAIN Arms -> MinArmShare..BucketCount]
    /\ \A i, j \in DOMAIN Arms : i < j => FirstEnd[i] + MinArmShare <= FirstEnd[j]
    /\ FirstEnd[Len(Arms)] = BucketCount
ASSUME UnlikeAssumption == MaxUnlike \in Nat
ASSUME ShadowAssumption == MinDays \in Nat \ {0} /\ Rates \in SUBSET Nat

VARIABLES
    file,       \* the range of each arm in the control plane file, as it is served
    printed,    \* the proposal of the last run, or Nothing
    unlike,         \* history: proposals entered for a log whose arms are not the file's
    drained     \* history: one was entered in which the control was breached

yieldVars == <<file, printed, unlike, drained>>

End(i) == IF i = 0 THEN 0 ELSE FirstEnd[i]

\* The place of an arm in the file.
Place(a) == CHOOSE i \in DOMAIN Arms : Arms[i] = a

FirstFile == [a \in ArmIDs |-> [start |-> End(Place(a) - 1), end |-> End(Place(a))]]

YieldInit ==
    /\ file = FirstFile
    /\ printed = Nothing
    /\ unlike = 0
    /\ drained = FALSE

Share(a) == file[a].end - file[a].start

Larger(m, n) == IF m >= n THEN m ELSE n
Smaller(m, n) == IF m <= n THEN m ELSE n

\* The sum of f over S, as the number of its units.
Total(f, S) == Cardinality(UNION {{a} \X (1..f[a]) : a \in S})

\* Served: the experiment as Assign and Validate see it.
Served == Experiment("experiment", TRUE, "session", ControlID,
             [i \in DOMAIN Arms |-> Variant(Arms[i], file[Arms[i]].start, file[Arms[i]].end, "")])

------------------------------------------------------------------------------

\* What load, report and Breaches make of the events: which arms had any, and
\* whether an arm breaches a guardrail, earned nothing, or something.  An event may name
\* an arm that the file does not have: the control Assign falls back on, or an arm that
\* was renamed or taken out since.
Logs == UNION {[S -> {"breached", "nothing", "earning"}] : S \in SUBSET Range(Names) \ {{}}}

Having(log, what) == {a \in DOMAIN log : log[a] = what}

\* The bounds of an arm: its floor, which for the control is the share it has, and
\* the limit on how far it moves; a breached arm goes to the minimum at once, and one
\* that is not in the file has no share to move from.
floorAnyArm(a) == MinArmShare

floor(a) == IF a = ControlID THEN Larger(MinArmShare, Share(a)) ELSE MinArmShare

lo(log) == [a \in DOMAIN log |->
    IF log[a] = "breached" \/ a \notin ArmIDs THEN MinArmShare
    ELSE Larger(floor(a), Share(a) - MaxMovePerRun)]

hiUnclamped(log) == [a \in DOMAIN log |->
    IF log[a] = "breached" THEN MinArmShare ELSE Larger(BucketCount, lo(log)[a])]

hi(log) == [a \in DOMAIN log |->
    IF log[a] = "breached" THEN MinArmShare
    ELSE IF a \notin ArmIDs THEN BucketCount
    ELSE Larger(Smaller(BucketCount, Share(a) + MaxMovePerRun), lo(log)[a])]

\* The room above the lower bounds, and the arms it is for: those that earn, or else
\* the control, as long as they may move.
room(log) == Larger(0, BucketCount - Total(lo(log), DOMAIN log))
headroom(log) == [a \in DOMAIN log |-> hi(log)[a] - lo(log)[a]]
wanted(log) == IF Having(log, "earning") # {} THEN Having(log, "earning") ELSE {ControlID}
takers(log) == {a \in wanted(log) \cap DOMAIN log : headroom(log)[a] > 0}

\* Shares are what they are rounded to, half a bucket up: n buckets in parts that are
\* at most those of most come to more or less than n, by half a bucket for each part
\* that was rounded.
Rounded(n, most) ==
    {m \in [DOMAIN most -> 0..n] :
        /\ \A a \in DOMAIN most : m[a] <= most[a]
        /\ LET over == Total(m, DOMAIN most) - n IN
           /\ over > 0 => 2 * over <= Cardinality({a \in DOMAIN m : m[a] > 0})
           /\ over < 0 => -2 * over < Cardinality({a \in DOMAIN m : m[a] < most[a]})}

\* waterFill, when those that want it can take all of the room: in proportion to what
\* they earn.
Proportional(log) ==
    Rounded(room(log), [a \in takers(log) |-> headroom(log)[a]])

\* And when they cannot: what is left is for the other arms that may move, the control
\* first, and then each an equal part, the control counted once more.
Remainder(log) ==
    LET left == room(log) - Total(headroom(log), takers(log))
        movable == {a \in DOMAIN log \ wanted(log) : headroom(log)[a] > 0}
        first == IF ControlID \in movable THEN Smaller(left, headroom(log)[ControlID]) ELSE 0
        n == Cardinality(movable)
        each == IF n = 0 THEN 0 ELSE (2 * (left - first) + n) \div (2 * n) IN
    [a \in takers(log) \cup movable |->
        IF a \in takers(log) THEN headroom(log)[a]
        ELSE IF a = ControlID THEN first ELSE Smaller(each, headroom(log)[a])]

Shares(log, more) ==
    [a \in DOMAIN log |-> lo(log)[a] + (IF a \in DOMAIN more THEN more[a] ELSE 0)]

waterFill(log) ==
    {Shares(log, more) : more \in IF room(log) < Total(headroom(log), takers(log))
                                  THEN Proportional(log) ELSE {Remainder(log)}}

\* The arms of t up to a in the order of the names, and where they end.
UpTo(t, a) == {b \in DOMAIN t : Position(b) <= Position(a)}
EndOf(t, S) == Smaller(BucketCount, Total(t, S))

LayoutByShare(t) ==
    [a \in DOMAIN t |-> [start |-> EndOf(t, UpTo(t, a) \ {a}), end |-> EndOf(t, UpTo(t, a))]]

\* The shares one after the other; the last arm has whatever is left.
Layout(t) ==
    [a \in DOMAIN t |->
        [start |-> EndOf(t, UpTo(t, a) \ {a}),
         end |-> IF UpTo(t, a) = DOMAIN t THEN BucketCount ELSE EndOf(t, UpTo(t, a))]]

\* Allocate over one log, and main, which prints what comes out of it.
Propose(log) ==
    /\ printed = Nothing
    /\ DOMAIN log = ArmIDs \/ unlike < MaxUnlike
    /\ \E t \in waterFill(log) :
          printed' = [breached |-> Having(log, "breached"), to |-> t, ranges |-> Layout(t)]
    /\ UNCHANGED <<file, unlike, drained>>

Observed == DOMAIN printed.ranges

\* A person enters the ranges, as applyProposal does in its copy: an arm that was
\* not in the log keeps its own, and the range of one not in the file is left out.
Enter ==
    /\ printed # Nothing
    /\ file' = [a \in ArmIDs |-> IF a \in Observed THEN printed.ranges[a] ELSE file[a]]
    /\ printed' = Nothing
    /\ unlike' = unlike + (IF Observed = ArmIDs THEN 0 ELSE 1)
    /\ drained' = (drained \/ ControlID \in printed.breached)

\* A dry run, or a shadow: nothing is applied.
Discard ==
    /\ printed # Nothing
    /\ printed' = Nothing
    /\ UNCHANGED <<file, unlike, drained>>

YieldNext == (\E log \in Logs : Propose(log)) \/ Enter \/ Discard

YieldSpec == YieldInit /\ [][YieldNext]_yieldVars

------------------------------------------------------------------------------

\* Shadow mode: Evaluate over records of what a day's allocation is estimated to
\* have earned and the proposed one would have, and the Verdict on the controller.
\* A record is a run; nothing asks whether two are of one day.
estimate(shares, rates) == MapThenSumSet(LAMBDA a : shares[a] * rates[a], DOMAIN shares)

Evaluate(records) ==
    FoldLeft(LAMBDA e, r :
                [days |-> e.days + 1,
                 actual |-> e.actual + r.actual,
                 proposed |-> e.proposed + r.proposed,
                 worse |-> e.worse + (IF 0 < r.actual /\ r.proposed < r.actual THEN 1 ELSE 0),
                 damage |-> e.damage \/ (0 < r.actual /\ 10 * (r.proposed - r.actual) < -r.actual)],
             [days |-> 0, actual |-> 0, proposed |-> 0, worse |-> 0, damage |-> FALSE], records)

VerdictOnAverage(e) ==
    IF e.days < MinDays THEN "HOLD"
    ELSE IF e.actual = 0 \/ e.proposed <= e.actual THEN "DO NOT PROMOTE" ELSE "PROMOTE"

Verdict(e) ==
    IF e.days < MinDays THEN "HOLD"
    ELSE IF e.actual = 0 \/ e.proposed <= e.actual THEN "DO NOT PROMOTE"
    ELSE IF e.damage THEN "DO NOT PROMOTE"
    ELSE IF 10 * e.worse > 4 * e.days THEN "HOLD" ELSE "PROMOTE"

------------------------------------------------------------------------------

\* Whatever was entered, as long as every log had the arms of the file, no fewer and no
\* others, the file is one that Validate would take.
StaysSound == unlike = 0 => Problems(Served) = {}

\* "A fixed slice of traffic always runs the control, even when the controller is
\* certain" (experiment.go): the control never loses a bucket that it had at first,
\* run after run, unless it breached a guardrail itself or a log had other arms than the
\* file.
HoldoutKept ==
    ~drained /\ unlike = 0 =>
        \A b \in Buckets : b < FirstEnd[1] => AssignBucket(Served, b, "unit").holdout

\* While nothing is breached and the room is used up, a session changes arms only if its
\* bucket is near to where one range ended and another began: within the limit for two
\* or three arms, but for the rounding, and not "at most 10% of buckets move in one run"
\* (alloc.go), for each boundary may.
Owner(ranges, b) == {a \in ArmIDs : ranges[a].start <= b /\ b < ranges[a].end}
Moved == {b \in Buckets : Owner(file, b) # Owner(printed.ranges, b)}

BoundaryBucketsMove ==
    LET half == Len(Arms) \div 2
        reach == (MaxMovePerRun + 1) * half IN
    printed # Nothing /\ Observed = ArmIDs /\ unlike = 0 /\ printed.breached = {}
      /\ Total(printed.to, ArmIDs) - BucketCount \in -half..half =>
        \A b \in Moved : \E a \in ArmIDs : b - file[a].end \in -reach..(reach - 1)

\* "a split with a gap in its bucket ranges, must never reach the serving path"
\* (loadControlPlane): Validate takes an experiment exactly if every bucket is
\* owned by one variant, none is empty or out of bounds, and the control is there.
IsSplit(x) ==
    /\ \A b \in Buckets : Cardinality({i \in DOMAIN x.variants : Owns(x.variants[i], b)}) = 1
    /\ \A v \in VariantsOf(x) : 0 <= v.start /\ v.start < v.end /\ v.end <= BucketCount
    /\ Cardinality({v.id : v \in VariantsOf(x)}) = Len(x.variants)
    /\ ControlID \in {v.id : v \in VariantsOf(x)}
    /\ \A v \in VariantsOf(x) : v.id = ControlID => 20 * (v.end - v.start) >= BucketCount

ValidateIsExact == printed = Nothing => (Problems(Served) = {} <=> IsSplit(Served))

\* "promotion is a measurement rather than a mood" (shadow.go): a controller whose
\* proposal stands unapplied is promoted if it would have earned more in all, lost
\* a tenth on no day that earned anything, and been worse on few.  What an arm that was
\* not logged earns counts for nothing.
Shadowed(rates) ==
    [d \in DOMAIN rates |->
        [actual |-> estimate([a \in ArmIDs \cap Observed |-> Share(a)], rates[d]),
         proposed |-> estimate(printed.to, rates[d])]]

PromotionEarned ==
    printed # Nothing /\ file = FirstFile =>
        \A n \in {MinDays - 1, MinDays} : \A rates \in [1..n -> [Observed -> Rates]] :
            LET records == Shadowed(rates)
                days == DOMAIN records
                lost(d) == records[d].actual - records[d].proposed IN
            Verdict(Evaluate(records)) = "PROMOTE" =>
                /\ n >= MinDays
                /\ MapThenSumSet(lost, days) < 0
                /\ \A d \in days : 10 * lost(d) <= records[d].actual
                /\ 10 * Cardinality({d \in days : lost(d) > 0}) <= 4 * n
==============================================================================
