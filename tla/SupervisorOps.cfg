SPECIFICATION SupervisorSpec
CONSTANTS
    None = None
    v1 = v1
    v2 = v2
    Calls = {o1, o2}
    Versions = {v1, v2}
    Sessions = {s1, s2}
    Kinds <- OperationKinds
    DeclaresUI <- Declared
    MergesUI = TRUE
    MaxConcurrent = 2
    MaxCrashes = 1
    DrainTimesOut = FALSE
SYMMETRY Symmetry
CONSTRAINT OverlapBound
INVARIANTS SupervisorTypeOK ReportDeliveredOnce OutcomeHonest
    SessionMatchesStore OneScheduler StopLasts
PROPERTY PublishedStays
CHECK_DEADLOCK FALSE
