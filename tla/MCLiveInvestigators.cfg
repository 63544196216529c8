SPECIFICATION Spec
CONSTANTS
    alert = alert
    svc = svc
    ns1 = ns1
    ns2 = ns2
    repo1 = repo1
    repo2 = repo2
    padded = padded
    blank = blank
    q1 = q1
    q2 = q2
    p1 = p1
    p2 = p2
    NoName = NoName
    NoTime = NoTime
    NoValue = NoValue
    UnknownPod = UnknownPod
    Malformed = Malformed
    Trim <- MCTrim
    TicksPerSecond = 2
    PerPage = 2
    Incidents <- MCIncidents
    DefaultRepos <- MCDefaultRepos
    DefaultNamespaces <- MCDefaultNamespaces
    Answers <- MCAnswers
    Now <- MCNow
CHECK_DEADLOCK FALSE
INVARIANTS
    NoMergeMissed
    EvidenceInWindow
    LoudestKept
PROPERTIES
    MeetsSweep
    Returns
