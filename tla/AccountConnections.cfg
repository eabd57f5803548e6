CONSTANTS
    Kinds = {"signalr", "fcm"}
    Tabs = {t1, t2}
    Failures = {"dial", "pns"}
    MaxConns = 3
    MaxLogins = 2
SPECIFICATION FairSpec
CONSTRAINT Undisowned
INVARIANTS TypeOK OneConnection FlagIsHonest LogoutStopsAll PnsIsCurrent
PROPERTIES IdleAccountIsPaused
CHECK_DEADLOCK FALSE
