\* Two POSTs, one restart of the API, one fault of the worker side, one stop
\* by a signal and one message that is not JSON.
CONSTANTS
    p1 = p1
    p2 = p2
    Bad = Bad
    NoEvent = NoEvent
    Requests <- MCRequests
    Prefetches <- MCPrefetches
    MaxLives = 1
    MaxFaults = 1
    MaxStops = 1
SPECIFICATION Spec
INVARIANTS
    TypeOK
    AcceptedIsKept
    RepliesAreExplained
    EventsNameTasks
    RepeatsNeedAFault
PROPERTY
    EveryEventIsLogged
CHECK_DEADLOCK FALSE
