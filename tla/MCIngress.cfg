SPECIFICATION Spec
CONSTANTS
    alert = alert
    svc = svc
    words = words
    q = q
    t1 = t1
    t2 = t2
    idA = idA
    note = note
    blank = blank
    NoName = NoName
    NoTime = NoTime
    Malformed = Malformed
    Trim <- MCTrim
    Tokens <- MCTokens
    Requests <- MCRequests
    TicksPerSecond = 2
    MaxClock = 2
    MaxRequests = 2
CHECK_DEADLOCK FALSE
INVARIANTS
    SameEpisodeSameIncident
    GatedByHandler
