CONSTANTS
    Convs = {a, b}
    Requests = {r1, r2}
    MaxMessages = 3
    MaxSends = 1
    MaxSteps = 3
    Page = 1
SPECIFICATION Spec
CONSTRAINT Unmixed
SYMMETRY ChatSymmetry
INVARIANTS TypeOK NothingForeign NoDuplicates
PROPERTIES CatchUpFills
CHECK_DEADLOCK FALSE
