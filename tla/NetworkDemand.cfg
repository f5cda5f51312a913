CONSTANTS
    K = 2
    Camps = {"budgeted", "capped"}
    CampaignsOf <- MCCampaignsOf
    MaxCPM <- MCMaxCPM
    DailyBudget <- MCDailyBudget
    FreqCapPerUser <- MCFreqCap
    Targets <- MCTargets
    Users = {"u"}
    Anonymous = Anonymous
    Requests = {"r1", "r2"}
    Servers = {1, 2}
    ServerOf <- MCServerOf
    UserOf <- MCUserOf
    KindOf <- MCKindOf
    Running <- MCRunning
    FloorOf <- MCFloorOf
    BucketCount = 2
    OptionalFields = {"imp_bidfloor", "device_ua"}
    bucketOf <- MCBucketOf
    MaxRival = 1
    MaxFailures = 1
    MaxRestarts = 1
    NoBid = NoBid
    Broken = Broken
    None = None
SPECIFICATION Spec
INVARIANTS OutcomesTruthful OverdeliveryExplained BooksReconcile
PROPERTY AuctionGoesOn
CHECK_DEADLOCK FALSE
