CONSTANTS
    Convs = {a}
    Requests = {r1, r2}
    MaxMessages = 3
    MaxSends = 0
    MaxSteps = 3
    Page = 1
SPECIFICATION Spec
SYMMETRY ChatSymmetry
PROPERTY CatchUpPullsAll
CHECK_DEADLOCK FALSE
