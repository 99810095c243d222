SPECIFICATION AnySpec
CHECK_DEADLOCK FALSE
CONSTANTS
    Chosen = {"lock", "reconciler", "edited", "canary", "adapter", "publication", "foreign"}
    Lockers = {k1, k2, k3}
    Recoverers = {c1, c2}
    NoLock = NoLock
    server1 = server1
    policy = policy
    record = record
    Resources = {server1, policy, record}
    Required = {policy, record}
    Named = {server1}
    Hashes = {h1, h2}
    NoHash = NoHash
    RootRank <- Ranks
    MaxRuns = 3
    MaxEdits = 2
    planA = planA
    planB = planB
    planC = planC
    core = core
    extra = extra
    b1 = b1
    b2 = b2
    b3 = b3
    w1 = w1
    w2 = w2
    w3 = w3
    w4 = w4
    l1 = l1
    m1 = m1
    NoFile = NoFile
SYMMETRY Interchangeable
INVARIANTS
    MutualExclusion
    LiveLockStands
    ReconcilerIsSafe
    CanaryIsSafe
    AdapterIsSafe
    PublicationIsSafe
PROPERTIES
    DeletionsAreApproved
    AdapterSparesOthers
