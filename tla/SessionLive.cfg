SPECIFICATION FairSessionSpec
CONSTANTS
    install = install
    serve = serve
    i1 = i1
    s1 = s1
    None = None
    Commands = {install, serve}
    Procedures = {i1, s1}
    CommandOf <- StopCommandOf
    Needs <- StopNeeds
    Mode <- CrashMode
    Calls <- NoCalls
    MayFail = {install}
    Requests = {r1}
    Workers = {w1, w2}
    MaxPasses = 1
    Serve = serve
    RunCalls = {serve}
    MaxOperations = 0
    MaxCrashes = 1
    DrainTimesOut = FALSE
PROPERTIES
    HydratedSettles
    RunReturns
CHECK_DEADLOCK FALSE
