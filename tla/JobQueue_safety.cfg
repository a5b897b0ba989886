\* Two workers with the default prefetch of one, one fault, one message
\* published by hand.
CONSTANTS
    good = good
    bad = bad
    w1 = w1
    w2 = w2
    NoCopy = NoCopy
    NoId = NoId
    Requests <- MCBoth
    FailJobs <- MCBad
    Workers <- MCTwoWorkers
    Tags <- MCTags
    MaxAttempts = 2
    Prefetch = 1
    MaxFaults = 1
    MaxForeign = 1
SYMMETRY MCSymmetry
SPECIFICATION Spec
INVARIANTS
    TypeOK
    NoJobLost
    AcksAreKnown
    OncePerProcess
    ExecutionBudget
    RefusedNeverRuns
    BuriedAfterMaxAttempts
PROPERTY
    LedgerSpec
