SPECIFICATION SessionSpec
CONSTANTS
    install = install
    serve = serve
    i1 = i1
    s1 = s1
    None = None
    Commands = {install, serve}
    Procedures = {i1, s1}
    CommandOf <- StopCommandOf
    Needs <- StopNeeds
    Mode <- CrashMode
    Calls <- HydrateCalls
    MayFail = {}
    Requests = {r1}
    Workers = {w1, w2}
    MaxPasses = 1
    Serve = serve
    RunCalls = {}
    MaxOperations = 0
    MaxCrashes = 1
    DrainTimesOut = FALSE
PROPERTY OnceRunsOnce
CHECK_DEADLOCK FALSE
