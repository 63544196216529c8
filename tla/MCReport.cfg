SPECIFICATION Spec
CONSTANTS
    grouped = grouped
    prose = prose
    InnerRankings <- MCRankings
    Text <- MCText
    TopN = 3
    Timeout = 0
CHECK_DEADLOCK FALSE
INVARIANTS
    OnlyProseChanges
    WithinBudget
    SlackTellsAll
PROPERTIES
    AlwaysReturns
