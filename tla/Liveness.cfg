SPECIFICATION FairSpec
CHECK_DEADLOCK FALSE
CONSTANTS
    Chosen = {"switch", "edits", "team", "change", "update", "teardown", "root", "session", "canary", "publication"}
    toolA = toolA
    toolB = toolB
    person = person
    c1 = c1
    c2 = c2
    planA = planA
    core = core
    b1 = b1
    w1 = w1
    w2 = w2
    NoFile = NoFile
PROPERTIES
    EverythingEnds
