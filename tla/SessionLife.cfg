SPECIFICATION SessionSpec
CONSTANTS
    install = install
    serve = serve
    i1 = i1
    s1 = s1
    None = None
    Commands = {install, serve}
    Procedures = {i1, s1}
    CommandOf <- StopCommandOf
    Needs <- CrashNeeds
    Mode <- StopMode
    Calls <- LifeCalls
    MayFail = {}
    Requests = {r1, r2}
    Workers = {w1, w2}
    MaxPasses = 1
    Serve = serve
    RunCalls = {}
    MaxOperations = 2
    MaxCrashes = 1
    DrainTimesOut = FALSE
SYMMETRY CallSymmetry
INVARIANTS
    SessionTypeOK
    WakeupSurvives
    StoppedStays
PROPERTY OnceRunsOnce
CHECK_DEADLOCK FALSE
