SPECIFICATION Spec
CONSTANTS
    Phones = {p1}
    SessionIDs = {s1}
    Writers = {w1}
    Boot = boot
    NoPhone = nobody
    SessionTTL = 1
    Hazards = {"outage"}
    MaxGen = 3
    MaxDay = 0
PROPERTY LoginsSurviveOutage
