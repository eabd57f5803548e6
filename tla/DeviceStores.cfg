CONSTANTS
    Handlers = {h1, h2}
    Endpoints = {e1, e2}
    Passkeys = {k1, k2}
    MaxLogins = 2
    MaxMaps = 3
    MaxCeremonies = 2
    Hazards = {"crash", "gone", "io"}
SPECIFICATION Spec
CONSTRAINT OneFault
SYMMETRY StoreSymmetry
INVARIANTS TypeOK AnsweredIsOnDisk QuietStoreIsExact PasskeysAccumulate CeremonyOnce
CHECK_DEADLOCK FALSE
