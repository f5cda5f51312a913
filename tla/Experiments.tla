------------------------------ MODULE Experiments ------------------------------
(***************************************************************************)
(* Experiments as the ad server runs them (experiment.go, bidrequest.go):   *)
(* an assignment unit hashes into one of BucketCount buckets, variants own  *)
(* ranges of buckets, and Validate says what is wrong with a set of them.   *)
(* Pure functions: the hot path learns nothing.                             *)
(*                                                                         *)
(* Validate guards the fixtures only.  Ranges that come through DynamoDB    *)
(* reach Assign as they are: with gaps, overlaps or no control.             *)
(***************************************************************************)
EXTENDS Integers, Sequences, FiniteSets, SequencesExt

CONSTANTS
    BucketCount,    \* buckets of an experiment
    OptionalFields, \* bid request fields an experiment may leave out
    bucketOf        \* bucketOf[key, unit]: the hash, external

Buckets == 0..(BucketCount - 1)

ASSUME BucketAssumption == BucketCount \in Nat \ {0}

\* A variant owns [start, end) of the buckets; params is its one parameter.
Variant(id, start, end, params) == [id |-> id, start |-> start, end |-> end, params |-> params]

Experiment(key, active, unit, control, variants) ==
    [key |-> key, active |-> active, unit |-> unit, control |-> control, variants |-> variants]

VariantsOf(x) == {x.variants[i] : i \in DOMAIN x.variants}

namedControl(x) == {v \in VariantsOf(x) : v.id = x.control}

\* control: the first variant of that name, or the first.
control(x) == IF namedControl(x) = {} THEN x.variants[1]
              ELSE x.variants[SelectInSeq(x.variants, LAMBDA v : v.id = x.control)]

\* unitID: a session experiment without a session falls back to the request.
unitID(unit, req) ==
    CASE unit = "request" -> req.id
      [] unit = "placement" -> req.placement
      [] OTHER -> IF req.session # "" THEN req.session ELSE req.id

Owns(v, b) == v.start <= b /\ b < v.end

Assignment(v, unit, holdout) == [variant |-> v, unit |-> unit, holdout |-> holdout]

\* What Assign does once it has found the experiment: the first variant that owns
\* the bucket, and the control, not marked as holdout, if none does.
AssignBucket(x, b, unit) ==
    IF \E v \in VariantsOf(x) : Owns(v, b)
    THEN LET v == x.variants[SelectInSeq(x.variants, LAMBDA w : Owns(w, b))]
         IN  Assignment(v, unit, v.id = x.control)
    ELSE Assignment(control(x), unit, FALSE)

\* Assign, over a set of experiments as a sequence: the first of that key counts.
NoVariant == Variant("control", 0, 0, "")

Assign(set, key, req) ==
    LET i == SelectInSeq(set, LAMBDA y : y.key = key) IN
    IF i = 0 \/ set[i].variants = <<>> THEN Assignment(NoVariant, "none", FALSE)
    ELSE LET x == set[i]
             unit == unitID(x.unit, req) IN
         IF ~x.active THEN Assignment(control(x), "none", FALSE)
         ELSE AssignBucket(x, bucketOf[key, unit], unit)

\* ResolveFields: a field goes along unless the variant assigned says "omit".
has(set, key) == \E i \in DOMAIN set : set[i].key = key

FloorPrice == [kind |-> "knob", name |-> "floor_price"]
FieldExpKey(f) == [kind |-> "field", name |-> f]

ResolveFields(set, req) ==
    {f \in OptionalFields :
        has(set, FieldExpKey(f)) => Assign(set, FieldExpKey(f), req).variant.params # "omit"}

------------------------------------------------------------------------------

\* Validate goes through the variants by bucket_start, equal ones in their order, with
\* a cursor: a range that is empty is reported and does not move it.
Ahead(vs, i, j) ==
    vs[i].start < vs[j].start \/ (vs[i].start = vs[j].start /\ i < j)

NonEmpty(vs) == {i \in DOMAIN vs : vs[i].start < vs[i].end}

Passed(vs, i) == {j \in NonEmpty(vs) : Ahead(vs, j, i)}

Cursor(vs, S) ==
    IF S = {} THEN 0 ELSE vs[CHOOSE i \in S : \A j \in S \ {i} : Ahead(vs, j, i)].end

Repeated(vs) == \E i, j \in DOMAIN vs : i # j /\ vs[i].id = vs[j].id

EmptyOnes(vs) == IF NonEmpty(vs) # DOMAIN vs THEN {"empty"} ELSE {}

Uncovered(vs) == IF Cursor(vs, NonEmpty(vs)) # BucketCount THEN {"uncovered"} ELSE {}

ProblemsOfCoverage(x) ==
    IF x.variants = <<>> THEN {"no variants"}
    ELSE EmptyOnes(x.variants) \cup Uncovered(x.variants)

GapsOrOverlaps(vs) ==
    IF \E i \in NonEmpty(vs) : vs[i].start # Cursor(vs, Passed(vs, i))
    THEN {"gap or overlap"} ELSE {}

Problems(x) ==
    IF x.variants = <<>> THEN {"no variants"}
    ELSE EmptyOnes(x.variants) \cup GapsOrOverlaps(x.variants) \cup Uncovered(x.variants)
         \cup (IF namedControl(x) = {} THEN {"control not found"} ELSE {})
         \cup (IF Repeated(x.variants) THEN {"duplicate variant"} ELSE {})
         \cup (IF namedControl(x) # {} /\ control(x).end - control(x).start < BucketCount \div 20
               THEN {"holdout"} ELSE {})

\* ValidateFieldExperiments: a key that names a protected field, or none we send.
FieldProblems(set) ==
    {i \in DOMAIN set : set[i].key.kind = "field" /\ set[i].key.name \notin OptionalFields}

Validate(set) ==
    /\ \A i \in DOMAIN set : Problems(set[i]) = {}
    /\ \A i, j \in DOMAIN set : i # j => set[i].key # set[j].key
    /\ FieldProblems(set) = {}
==============================================================================
