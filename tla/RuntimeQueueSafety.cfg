SPECIFICATION Spec
CONSTANTS
    install = install
    backup = backup
    serve = serve
    loop = loop
    i1 = i1
    b1 = b1
    s1 = s1
    l1 = l1
    None = None
    Commands = {install, backup, serve}
    Procedures = {i1, b1, s1}
    CommandOf <- ScrollCommandOf
    Needs <- ScrollNeeds
    Mode <- ScrollMode
    Calls <- ScrollCalls
    MayFail = {install, backup}
    Requests = {r1, r2}
    Workers = {w1, w2}
    MaxPasses = 2
SYMMETRY CallSymmetry
INVARIANTS
    TypeOK
    SingleFlight
    NoLostWakeup
    WaiterHeld
    ClosedOnce
    NeedsCompleted
    StoreMatchesQueue
PROPERTY ImplementsLifecycle
CHECK_DEADLOCK FALSE
