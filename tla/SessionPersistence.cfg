SPECIFICATION Spec
CONSTANTS
    Phones = {p1}
    SessionIDs = {s1, s2}
    Writers = {w1, w2}
    Boot = boot
    NoPhone = nobody
    SessionTTL = 1
    Hazards = {"crash", "outage", "io"}
    MaxGen = 2
    MaxDay = 2
SYMMETRY WriterSymmetry
INVARIANTS TypeOK SessionsHaveAccount LogoutIsFinal QuietFileIsCurrent
PROPERTY LoginsSurviveRestart
