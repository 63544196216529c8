SPECIFICATION Spec
CONSTANTS
    svc1 = svc1
    svc2 = svc2
    alert1 = alert1
    alert2 = alert2
    n1 = n1
    finite = finite
    infinite = infinite
    j1 = j1
    j2 = j2
    res1 = res1
    unresolved = unresolved
    notFound = notFound
    Id <- MCId
    Incident <- TwoSimilar
    Report <- MCReport
    Encodable <- MCEncodable
    Note <- MCNote
    Unresolved = unresolved
    NotFound = notFound
    Time <- MCTime
    TopK = 3
    LookbackLimit = 500
    EmptyString = EmptyString
    Backends <- Table
    Capacity = 3
    TicksPerSecond = 2
    NoRow = NoRow
    Job <- OneJob
    Resolver <- OneResolver
    Sinks <- OneSink
    LiveAnswers <- Finite
    Pending = Pending
    MaxRuns = 3
    MaxResolves = 1
    MaxFaults = 0
SYMMETRY Handlers
CHECK_DEADLOCK FALSE
INVARIANTS
    FixSurfaces
