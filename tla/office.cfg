SPECIFICATION MCSpec
CONSTANTS
    Absent = Absent
    Request = {n1, n2}
    Url = {"u1", "u2"}
    MaxTrail = 2
    MaxPayments = 1
    MaxFaults = 1
    Token = {n1, n2}
    Cookie = {n1}
    Boot = {n1, n2}
    Password = {n1, n2}
    configured <- OwnPassword
    SessionTtl = 3
    MaxFailures = 1
    Window = 1
    MaxTime = 3
    Body = {n1, n2}
    ThrottleMs = 1
    BatchMax = 2
    QueueMax = 2
    Size = 2
    Limit = 1
    MaxRecords = 3
    LogTime = 2
    Billed = {n1}
    Needed = 2
    MaxDeposits = 3
    Fetch = {n1}
    PageFaults = 2
    Amount = {1, 2, 7}
    Fee = {1, 3}
    RateE6 = {7, 13, 20}
    UsdCop = {1, 5, 6, 9}
    Part = 4
    Gwei = {1, 2}
    Scale = 1
    FeeScale = 2
    E6 = 10
    Bps = 10
    MinUsd = 1
    MaxCostBps = 5
    CeilingGwei = {1}
    Funded = {n1}
    Call = {n1, n2}
    CacheTtl = 2
    Network = {n1, n2}
    Mainnet = {n2}
    MaxRetry = 3
    Pair = {2, 3, 4}
    address <- TwoTied
    AuditFaults = 2
    Auditor = {n1}
    Cap = 1
CHECK_DEADLOCK FALSE
INVARIANTS
    OfficeTypeOK
    TrailExplains
    RevokedStaysRevoked
    NothingUncounted
    AnswersAddUp
    SignedOutIsClean
    WorthMoving
    AgeIsHonest
PROPERTIES
    NetworksComeUp
    LossReported
    SettledIsShown
