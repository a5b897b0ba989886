\* A GET and a PATCH or DELETE of one task, no failures.
CONSTANTS
    old = old
    changed = changed
    p1 = p1
    p2 = p2
    First = old
    Torn = Torn
    None = None
    Ids <- MCOneId
    Values <- MCValues
    Lists <- MCNoPages
    Requests <- MCTwoRequests
    MaxWrites = 1
    MaxErrors = 0
    MaxRestarts = 0
SPECIFICATION Spec
INVARIANT
    ConsistentAtRest
