\* Two requests at a time, two tasks, two writes, the second of two pages, one
\* failed Redis command and one restart.
CONSTANTS
    old = old
    changed = changed
    p1 = p1
    p2 = p2
    First = old
    Torn = Torn
    None = None
    Ids <- MCTwoIds
    Values <- MCValues
    Lists <- MCSecondPage
    Requests <- MCTwoRequests
    MaxWrites = 2
    MaxErrors = 1
    MaxRestarts = 1
SPECIFICATION Spec
SYMMETRY MCSymmetry
INVARIANTS
    TypeOK
    StaleIsExplained
    NegativeIsExplained
