SPECIFICATION CallSpec
CONSTANTS
    a = a
    b = b
    c = c
    s1 = s1
    s2 = s2
    n1 = n1
    r1 = r1
    alert1 = alert1
    alert2 = alert2
    fixed = fixed
    report = report
    unresolved = unresolved
    notFound = notFound
    Id <- MCId
    Incident <- MCIncident
    Report <- MCReport
    Encodable <- MCReport
    Note <- MCNote
    Unresolved = unresolved
    NotFound = notFound
    Time <- MCTime
    TopK = 2
    LookbackLimit = 500
    EmptyString = EmptyString
    Listings <- MCListings
CHECK_DEADLOCK FALSE
INVARIANTS
    RecallsTheSimilar
    KeepsTheBest
    HintsAreShared
