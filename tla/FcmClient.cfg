CONSTANTS
    Listeners = {l1, l2}
    Clients = {c1, c2}
    m1 = m1
    m2 = m2
    Messages = {m1, m2, bad}
    Poison = {bad}
    MaxIds = 1
    MaxTokens = 2
    MaxFaults = 2
    Hazards = {"crash", "io", "logout"}
SPECIFICATION Spec
CONSTRAINT FewerMails
INVARIANTS TypeOK HandledOnce OneIdentity
PROPERTIES DeliversMail MessagesArrive
CHECK_DEADLOCK FALSE
