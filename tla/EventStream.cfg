CONSTANTS
    Clients = {c1, c2}
    Requests = {r1, r2}
    Messages = {m1}
    NoRequest = NoRequest
    Buffer = 1
    MaxCopies = 2
SPECIFICATION FairSpec
INVARIANTS TypeOK SubscribersAreOpen OnePushPerWindow
PROPERTIES SeenOrPushed TabsHear
CHECK_DEADLOCK FALSE
