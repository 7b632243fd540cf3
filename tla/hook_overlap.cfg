SPECIFICATION MCSpec
CONSTANTS
    j1 = j1
    c1 = c1
    r1 = r1
    r2 = r2
    Client = {c1}
    Job = {j1}
    clientId <- MCClientId
    Runner = {r1, r2}
    MaxAttempts = 3
    BatchSize = 1
    BackoffUnit = 1
    BackoffCap = 3
    MaxTime = 6
    MaxEdits = 1
    MaxFaults = 1
CHECK_DEADLOCK FALSE
INVARIANTS
    DeadMeansTried
    PostsAreCounted
PROPERTIES
    DeliveredMeansAccepted
    JobsResolve
    RetriesBackOff
