SPECIFICATION Spec
CONSTANTS
    install = install
    backup = backup
    serve = serve
    loop = loop
    i1 = i1
    b1 = b1
    s1 = s1
    l1 = l1
    None = None
    Commands = {loop}
    Procedures = {l1}
    CommandOf <- WaitCommandOf
    Needs <- WaitNeeds
    Mode <- WaitMode
    Calls <- WaitCalls
    MayFail = {loop}
    Requests = {r1, r2}
    Workers = {w1, w2}
    MaxPasses = 2
INVARIANT ClosedOnce
CHECK_DEADLOCK FALSE
