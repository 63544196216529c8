SPECIFICATION Spec
CONSTANTS
    i1 = i1
    i2 = i2
    i3 = i3
    r1 = r1
    n1 = n1
    unresolved = unresolved
    notFound = notFound
    Id <- MCId
    Incident <- MCIncident
    Report <- MCReport
    Encodable <- MCReport
    Note <- MCNote
    Unresolved = unresolved
    NotFound = notFound
    Time <- MCTime
    Capacity = 3
INVARIANTS
    TypeOK
    IndexIsNewest
PROPERTIES
    KeepsLastSaves
    MeetsContract
