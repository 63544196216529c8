SPECIFICATION Spec
CONSTANTS
    i1 = i1
    i2 = i2
    i3 = i3
    r1 = r1
    rInf = rInf
    n1 = n1
    unresolved = unresolved
    notFound = notFound
    Id <- MCId
    Incident <- MCIncident
    Report <- MCReport
    Encodable <- MCEncodable
    Note <- MCNote
    Unresolved = unresolved
    NotFound = notFound
    Time <- MCTime
    TicksPerSecond = 2
    NoRow = NoRow
INVARIANTS
    TypeOK
    ListsNewestToTheSecond
PROPERTIES
    MeetsContract
    ForgetsNothing
