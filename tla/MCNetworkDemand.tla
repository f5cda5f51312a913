---------------------------- MODULE MCNetworkDemand ----------------------------
\* Two buyers: the first has a campaign with a cap of one per user and one with a
\* budget for one impression, the second nothing to sell. Two requests of one
\* user are decided by two servers, at once or one after the other.
EXTENDS NetworkDemand

MCCampaignsOf == <<<<"capped", "budgeted">>, <<>>>>
MCMaxCPM == [c \in Camps |-> 1]
MCDailyBudget == [budgeted |-> 1, capped |-> 0]
MCFreqCap == [budgeted |-> 0, capped |-> 1]
MCTargets == [c \in Camps |-> {"banner"}]
MCServerOf == [r1 |-> 1, r2 |-> 2]
MCUserOf == [r1 |-> "u", r2 |-> "u"]
MCKindOf == [r1 |-> "banner", r2 |-> "banner"]

\* One request runs the control of an experiment with the floor field, the other
\* the arm that leaves it out; both are of the arm with the higher floor.
MCRunning ==
    <<Experiment(FloorPrice, TRUE, "session", "ctrl",
          <<Variant("ctrl", 0, 1, ""), Variant("f100", 1, 2, "")>>),
      Experiment(FieldExpKey("imp_bidfloor"), TRUE, "request", "send",
          <<Variant("send", 0, 1, ""), Variant("strip", 1, 2, "omit")>>)>>
MCFloorOf == [ctrl |-> 0, f100 |-> 1]
MCBucketOf ==
    [x \in {<<FloorPrice, "u">>, <<FieldExpKey("imp_bidfloor"), "r1">>,
            <<FieldExpKey("imp_bidfloor"), "r2">>} |-> IF x[2] = "r1" THEN 0 ELSE 1]
==============================================================================
