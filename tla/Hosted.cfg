SPECIFICATION AnySpec
CHECK_DEADLOCK FALSE
CONSTANTS
    Chosen = {"session", "rotation", "owner", "relay", "clocks", "rivals", "grant", "upload"}
    Gateways = {"g1", "g2"}
    Clients = {"u1", "u2", "i", "x"}
    CertificateOf <- Certificate
    KeyOf <- Key
    OperationOf <- Operation
    KindsOf <- KindsRemoved
    SkewOf <- Skew
    RequestTTL = 2
    ChallengeTTL = 2
    TicketTTL = 1
    RelayTTL = 1
    ClockSkew = 1
    MaxTime = 4
    MaxChallenges = 2
    MaxSessions = 2
    MaxAttempts = 2
    MaxPlans = 1
    SessionFaults = 1
    Permits = {p1}
    Plans = {plan1, plan2}
    Tabs = {t1, t2}
    MaxIssued = 2
    MaxVersions = 4
    OwnerFaults = 1
    MaxStarts = 2
    Accounts = {a1, a2}
    Home = a1
    PageSize = 1
    MaxPages = 2
    MaxZones = 3
    RevokeAttempts = 2
    MaxBuckets = 2
    UploadFaults = 3
    MaxOutside = 2
    None = None
INVARIANTS
    SessionIsSafe
    OwnerIsSafe
    RelayIsSafe
    GrantIsSafe
    UploadIsSafe
PROPERTIES
    StepsSpareOthers
