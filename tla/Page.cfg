CONSTANTS
    ViewTicks = 2
    Lag = 1
    MaxEvents = 3
    MaxTicks = 5
    MaxScrolls = 3
    MaxSwitches = 2
    MaxPlays = 1
    None = None
SPECIFICATION Spec
INVARIANTS ViewableIsContinuous NeverOverstated DwellReportsAgree NothingLeftBehind
\* A page may be left for good.
CHECK_DEADLOCK FALSE
