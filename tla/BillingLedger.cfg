\* One ad, its beacons sent twice, in two containers; everything may fail.
CONSTANTS
    Containers = {c1, c2}
    r1 = r1
    Requests = {r1}
    Pricing <- MCPricing
    Attempts = 2
    MaxBeacons = 2
    None = None
SPECIFICATION Spec
INVARIANTS NothingHeldAcross AcknowledgedIsRecorded RequestRecordedFirst SpendIsRecorded
SYMMETRY ContainerSymmetry
