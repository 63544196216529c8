SPECIFICATION FSpec
CONSTANTS
    N = 3
    Results <- MCResults
    Pending = Pending
    Bounded <- MCBounded
CHECK_DEADLOCK FALSE
INVARIANTS
    TypeOK
    ReturnsEverything
    ChronologicalWhoeverIsFirst
PROPERTIES
    ImplementsGather
    ReturnsOnceCancelled
    ReturnsOnceAnswered
