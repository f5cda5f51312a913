CONSTANTS
    Alarms = {"requests", "impressions", "events", "spend"}
    KindOf <- MCKindOf
    MaxDeliveries <- MCMaxDeliveries
    MaxAttempts = 2
    MaxResets = 1
    Concurrency = 20
SPECIFICATION FuseSpec
INVARIANT StatusTruthful
PROPERTY AlarmActedOn
CHECK_DEADLOCK FALSE
