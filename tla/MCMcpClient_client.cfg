SPECIFICATION MCSpec
CONSTANTS
    c1 = c1
    Owner = owner
    Caller = {c1}
    NoTask = NoTask
    MaxSpawns = 2
    MaxRequests = 4
    MaxMessages = 3
INVARIANTS
    TypeOK
    AnswersAreOwn
    NoProcessLeft
    TimeoutSpoilsTheRest
    CallsFollowHandshake
PROPERTIES
    CallsRemotely
    CallsEnd
CHECK_DEADLOCK FALSE
