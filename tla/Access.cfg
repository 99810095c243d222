SPECIFICATION AnySpec
CHECK_DEADLOCK FALSE
CONSTANTS
    Chosen = {"team", "dashboard", "change", "check", "entrance"}
    Admins = {p, q}
    Callbacks = {c1, c2}
    MaxChanges = 2
    MaxAttempts = 2
    MaxEdits = 1
    MaxOthers = 1
    MaxChecks = 1
    People = {p, q}
    Individuals = {d}
    MaxTeamFaults = 1
    MaxTeamEdits = 1
    EntranceSources = {1, 2}
    EntranceLabel <- LabelOf
    EntranceRequests = {r1}
    EntranceLimit = 1
    EntranceFaults = 1
    EntranceRestarts = 1
    EntranceWindows = 1
    EntranceChanges = 1
    p = p
    q = q
    d = d
    c1 = c1
    c2 = c2
    r1 = r1
    mail = mail
    crm = crm
    None = None
INVARIANTS
    TeamIsSafe
    CredentialIsSafe
    EntranceIsSafe
PROPERTIES
    CheckKeepsEdits
