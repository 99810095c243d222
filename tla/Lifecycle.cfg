SPECIFICATION AnySpec
CHECK_DEADLOCK FALSE
CONSTANTS
    Chosen = {"update", "updates", "teardown", "meddled", "root", "cleanup", "plain", "replay"}
    r1 = r1
    r2 = r2
    None = None
    MaxRelease = 2
    MaxActions = 2
    MaxAttempts = 2
    MaxOutside = 1
    MaxFaults = 1
    RootAttempts = 2
    RootPasses = 2
    RootPauses = 1
    RootFaults = 1
    RootLags = 1
    GatewayOrder <- RemovalOrder
    GatewayOptional = {2}
    GatewayActions = 2
    GatewayAttempts = 2
    GatewayOutside = 1
    GatewayFaults = 2
    CleanupRequests = {r1, r2}
    CleanupExtras = 1
    CleanupFaults = 2
    CleanupHands = 1
SYMMETRY Interchangeable
INVARIANTS
    UpdateIsSafe
    TeardownIsSafe
    RootIsSafe
    CleanupIsSafe
PROPERTIES
    UploadsKeepFloor
