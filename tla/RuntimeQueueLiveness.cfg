SPECIFICATION FairSpec
CONSTANTS
    install = install
    backup = backup
    serve = serve
    loop = loop
    i1 = i1
    b1 = b1
    s1 = s1
    l1 = l1
    None = None
    Commands = {install, backup, loop}
    Procedures = {i1, b1, l1}
    CommandOf <- LoopCommandOf
    Needs <- LoopNeeds
    Mode <- LoopMode
    Calls <- LoopCalls
    MayFail = {loop, install}
    Requests = {r1, r2}
    Workers = {w1, w2}
    MaxPasses = 1
PROPERTY WaiterReleased
CHECK_DEADLOCK FALSE
