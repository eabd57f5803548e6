CONSTANTS
    Kinds = {"signalr"}
    Tabs = {t1, t2}
    Failures = {"dial"}
    MaxConns = 3
    MaxLogins = 1
SPECIFICATION Spec
SYMMETRY TabSymmetry
INVARIANT NeverTwoConnections
CHECK_DEADLOCK FALSE
