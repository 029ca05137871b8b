SPECIFICATION ServicesSpec
CONSTANTS
    b1 = b1
    b2 = b2
    main = main
    query = query
    one = one
    two = two
    Builds <- MCBuilds
    Goroutines = {one, two}
    MaxSessions = 2
    MaxChanges = 3
    MaxTriggers = 1
    MaxCloseFaults = 1
    Callers = {one, two}
    Configs = {"a"}
    MaxCalls = 3
    Ports = {main, query}
    Handler <- MCHandler
    Protocol <- MCProtocol
    Peers = {one, two}
    Viewers = {one, two}
    Lines = 3
    HubCapacity = 1
    ClientCapacity = 1
    WriteCapacity = 1
    LogCapacity = 2
    Scopes = {"public", "private"}
    Writers = {one, two}
    MaxClock = 2
    MaxVersion = 4
    Artifacts = {"v1", "v2"}
    LayersOf <- MCLayersOf
    DataLayers = {"data1", "data2"}
    Size <- MCSize
    PathOf <- MCPathOf
    Tags = {"latest"}
    Clients = {one, two}
    MaxRetries = 1
    MaxFaults = 2
    MaxPushes = 2
    Files <- MCFiles
    FirstTree <- MCFirstTree
    Declarations <- MCDeclarations
    Links <- MCLinks
    LinkTarget <- MCLinkTarget
    MayBeEmpty <- MCMayBeEmpty
    Declared1 <- MCDeclared1
    Declared2 <- MCDeclared2
    ReservedPorts <- MCReservedPorts
    Procedures <- MCProcedureOrder
    FileRoutings <- MCFileRoutings
    Publishes <- MCPublishes
    FailedRetention = 1
    MaxRoutings = 3
    MaxAttempts = 3
SYMMETRY ServiceSymmetry
INVARIANTS
    ServicesTypeOK
    ChangeBuilt
    StatusOfChild
    WakeHandedOver
    OutputUndisturbed
    TransferExact
    UpdateExact
    RoutesHonoured
PROPERTIES
    RecordsKept
CHECK_DEADLOCK FALSE
