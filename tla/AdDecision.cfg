\* Three line items, one buyer over the network and one in the process.
CONSTANTS
    N = 3
    Network = 1
    Local = 1
    Priorities <- MCPriorities
    Values <- MCValues
    Offers <- MCOffers
    Floors <- MCFloors
    None = None
SPECIFICATION Spec
INVARIANTS GuaranteeHonoured SoldToHighest RecordAddsUp TraceTruthful
\* A decision ends with its answer.
CHECK_DEADLOCK FALSE
