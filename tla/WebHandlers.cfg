CONSTANTS
    Handlers = {h1, h2, h3}
    MaxAuths = 2
    MaxCodes = 3
    MaxLogins = 2
    Failures = {"post", "lost", "delete"}
    MaxAccounts = 2
    MaxChanges = 2
    MaxBoots = 2
    Faults = {"crash", "io", "net", "cut"}
    IPs = {"ip"}
    Phones = {"p1", "p2"}
    Listed = {"p1", "p2"}
    Limit <- MCLimit
    Window = 2
    MaxTime = 6
    MaxRequests = 3
    Views = {v1}
    Pids = {1, 2, 3}
    MaxSends = 2
    MaxOthers = 1
    OwnPhone = "+47"
    OwnUserId = "uid"
    Users = {"u"}
    Ids = {"a", "b"}
    Timestamps = {0, 2147483647}
    Indexes = {0, 14, 15, 30, 31}
    Reserveds = {0, 1, 2, 255, 256, 16383, 16384}
    Randoms <- MCRandoms
SPECIFICATION WebSpec
SYMMETRY HandlerSymmetry
CONSTRAINT Unmixed
INVARIANTS HandlersTypeOK NoGhostDevices AccountIsRegistered OneConfirmPerCode
    NtfyFollowsUser LimitHolds SpoolIsExact AnswerIsHonest HeardAsMeant FieldsReadBack
CHECK_DEADLOCK FALSE
