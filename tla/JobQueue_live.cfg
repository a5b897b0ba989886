\* Liveness: one job of each kind, two workers with a prefetch of one, a fault.
CONSTANTS
    good = good
    bad = bad
    w1 = w1
    w2 = w2
    NoCopy = NoCopy
    NoId = NoId
    Requests <- MCBoth
    FailJobs <- MCBad
    Workers <- MCTwoWorkers
    Tags <- MCFewTags
    MaxAttempts = 2
    Prefetch = 1
    MaxFaults = 1
    MaxForeign = 0
SPECIFICATION FairSpec
PROPERTY
    Settles
