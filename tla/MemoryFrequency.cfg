CONSTANTS
    Handlers = {h1, h2, h3}
    k1 = k1
    k2 = k2
    Keys = {k1, k2}
    None = None
    Cap <- MCCap
SPECIFICATION Spec
INVARIANTS Accounting OvershootBounded NoEarlySuppression
PROPERTY ImplementsSessionCap
