SPECIFICATION Spec
CONSTANTS
    svc1 = svc1
    svc2 = svc2
    alert1 = alert1
    alert2 = alert2
    n1 = n1
    finite = finite
    infinite = infinite
    j1 = j1
    j2 = j2
    res1 = res1
    unresolved = unresolved
    notFound = notFound
    Id <- MCId
    Incident <- Crowding
    Report <- MCReport
    Encodable <- MCEncodable
    Note <- MCNote
    Unresolved = unresolved
    NotFound = notFound
    Time <- MCTime
    TopK = 1
    LookbackLimit = 500
    EmptyString = EmptyString
    Backends <- BothBackends
    Capacity = 2
    TicksPerSecond = 2
    NoRow = NoRow
    Job <- TwoJobs
    Resolver <- OneResolver
    Sinks <- OneSink
    LiveAnswers <- Finite
    Pending = Pending
    MaxRuns = 3
    MaxResolves = 1
    MaxFaults = 1
SYMMETRY Handlers
CHECK_DEADLOCK FALSE
INVARIANTS
    TypeOK
    RecordIntegrity
    RecallIsHonest
    PastLinksOpen
    TableKeepsFix
PROPERTIES
    FiledBeforeEmitted
