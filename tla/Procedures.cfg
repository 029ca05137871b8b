SPECIFICATION Spec
CONSTANTS
    serve = serve
    admin = admin
    k1 = k1
    k2 = k2
    NoProc = NoProc
    Commands = {serve, admin}
    Length <- MCLength
    Mode <- MCMode
    Kind <- MCKind
    Target <- MCTarget
    Ignored <- Coldstarter
    IdleStops <- Coldstarter
    Calls = {k1, k2}
    Runs = {k1, k2}
    MaxJobs = 2
    MaxFaults = 1
    Retention = 1
    MaxContainers = 3
    MaxDisturbed = 2
SYMMETRY CallSymmetry
INVARIANTS
    ProceduresTypeOK
    OneWorkload
    PortFollows
    InputReaches

    
CHECK_DEADLOCK FALSE
