CONSTANTS
    BucketCount = 20
    OptionalFields = {}
    bucketOf <- MCBucketOf
    Arms <- MCArms
    Names <- MCNames
    ControlID = "ctrl"
    FirstEnd <- MCFirstEnd
    MinArmShare = 2
    MaxMovePerRun = 2
    MinDays = 2
    Rates = {0, 1, 3}
    MaxUnlike = 1
    Nothing = Nothing
SPECIFICATION YieldSpec
INVARIANTS StaysSound HoldoutKept BoundaryBucketsMove ValidateIsExact PromotionEarned
