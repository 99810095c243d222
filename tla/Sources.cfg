SPECIFICATION AnySpec
CHECK_DEADLOCK FALSE
CONSTANTS
    Chosen = {"switch", "install", "edits", "queue", "oauth", "scopes"}
    MaxFaults = 3
    MaxEdits = 2
    InstallSources = {s1, s2}
    InstallRevision = 3
    InstallFaults = 2
    EditSources = {1, 2}
    EditTools = {toolA, toolB}
    EditChoices <- AllChoices
    EditLabels = {"old", "new"}
    EditRequests = {1, 2, 3}
    CheckLimit = 1
    EditRevision = 2
    EditFaults = 1
    MaxOutside = 1
    OauthSources = {t1, t2, t3}
    OauthKind <- KindOf
    OauthBrowsers = {b1, b2}
    Advertised <- ScopeSets
    MaxAttempts = 2
    OauthEdits = 1
    OauthDrifts = 1
    OauthRestarts = 1
    OauthArrivals = 2
    t1 = t1
    t2 = t2
    t3 = t3
    toolA = toolA
    toolB = toolB
    b1 = b1
    b2 = b2
    None = None
SYMMETRY Interchangeable
INVARIANTS
    SwitchIsSafe
    InstallIsSafe
    EditsAreSafe
    ConsentIsSafe
PROPERTIES
    SwitchSwapsRecords
