SPECIFICATION Spec
CHECK_DEADLOCK FALSE
CONSTANTS
    None = None
    Requests = {r1}
    NExtras = 1
    MaxFaults = 2
    MaxHands = 0
INVARIANT
    RepairHasCause
