CONSTANTS
    Setters = {h1}
    MaxAccounts = 2
    MaxChanges = 2
    MaxBoots = 2
    Faults = {}
SPECIFICATION Spec
PROPERTY RestartKeepsEntry
CHECK_DEADLOCK FALSE
