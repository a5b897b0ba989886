\* One POST, one lost connection of the API; nothing else goes wrong.
CONSTANTS
    p1 = p1
    p2 = p2
    Bad = Bad
    NoEvent = NoEvent
    Requests <- MCOneRequest
    Prefetches <- MCPrefetches
    MaxLives = 0
    MaxFaults = 0
    MaxStops = 0
SPECIFICATION Spec
INVARIANT
    StrictMeansQueued
CHECK_DEADLOCK FALSE
