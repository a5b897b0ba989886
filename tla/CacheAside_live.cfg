\* Two requests at a time, one task, a page that is invalidated and one that is
\* not, one write, one failed Redis command and one restart.
CONSTANTS
    old = old
    changed = changed
    p1 = p1
    p2 = p2
    First = old
    Torn = Torn
    None = None
    Ids <- MCOneId
    Values <- MCValues
    Lists <- MCBothPages
    Requests <- MCTwoRequests
    MaxWrites = 1
    MaxErrors = 1
    MaxRestarts = 1
SPECIFICATION FairSpec
PROPERTY
    FreshInTheEnd
