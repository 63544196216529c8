SPECIFICATION RankSpec
CONSTANTS
    svc = svc
    ns = ns
    repo = repo
    pod = pod
    NoName = NoName
    Inputs <- AllInputs
    TopN = 2
CHECK_DEADLOCK FALSE
INVARIANTS
    NothingLost
    BestFirst
    ScoresAreDeterministic
