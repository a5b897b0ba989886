\* One job, one worker, one crash between MarkDone and the ack.
CONSTANTS
    good = good
    bad = bad
    w1 = w1
    w2 = w2
    NoCopy = NoCopy
    NoId = NoId
    Requests <- MCGood
    FailJobs <- MCNone
    Workers <- MCOneWorker
    Tags <- MCTags
    MaxAttempts = 3
    Prefetch = 1
    MaxFaults = 1
    MaxForeign = 0
SPECIFICATION Spec
INVARIANT
    ProcessedOnce
