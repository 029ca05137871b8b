SPECIFICATION SupervisorSpec
CONSTANTS
    None = None
    v1 = v1
    v2 = v2
    Calls = {o1, o2}
    Versions = {v1, v2}
    Sessions = {s1, s2}
    Kinds <- PublishKinds
    DeclaresUI <- Declared
    MergesUI = FALSE
    MaxConcurrent = 1
    MaxCrashes = 0
    DrainTimesOut = FALSE
SYMMETRY Symmetry
PROPERTY PublishedStays
CHECK_DEADLOCK FALSE
