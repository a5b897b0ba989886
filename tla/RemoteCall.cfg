\* Two callers of each of the four pairs, one restart of the peer.
CONSTANTS
    r1 = r1
    r2 = r2
    kozlov = kozlov
    petrov = petrov
    NoEmail = NoEmail
    Callers <- MCCallers
    Emails <- MCEmails
    MaxRestarts = 1
SPECIFICATION Spec
INVARIANTS
    TypeOK
    RepliesAreExplained
    EmailsUnique
    CreatedIsFound
PROPERTY
    EveryCallEnds
CHECK_DEADLOCK FALSE
