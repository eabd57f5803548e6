CONSTANTS
    Clients = {c1}
    Requests = {r1, r2}
    Messages = {m1}
    NoRequest = NoRequest
    Buffer = 1
    MaxCopies = 1
SPECIFICATION Spec
SYMMETRY StreamSymmetry
INVARIANT TabKeepsItsStream
CHECK_DEADLOCK FALSE
