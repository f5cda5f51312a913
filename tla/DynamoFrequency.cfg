\* One key at full concurrency, with failures, retries and a replaced container.
\* The fleet may stop: every container capped, no replacement left to the bound.
CONSTANTS
    Containers = {c1, c2}
    Concurrency = 2
    k1 = k1
    Keys = {k1}
    None = None
    Cap <- MCOneCap
    Attempts = 2
    MaxLost = 1
    MaxRecycles = 1
SPECIFICATION Spec
INVARIANTS ContainerCap FleetCap NeverOverstates
PROPERTY ImplementsSessionCap
CHECK_DEADLOCK FALSE
