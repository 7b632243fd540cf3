SPECIFICATION FairSpec
CONSTANTS
    token = token
    native = native
    k1 = k1
    k2 = k2
    Pairing = {token}
    via <- MCVia
    Ticker = {k1}
    MaxAttempts = 2
    MinRaw = 1
    Fee = 1
    DepositRaw = 2
    MaxDeposits = 2
    MaxSweeps = 3
    MaxTxs = 6
    MaxFaults = 1
    MaxReorgs = 0
    MaxDrops = 0
CHECK_DEADLOCK FALSE
INVARIANTS
    NeverOvercommitted
PROPERTIES
    SweepsResolve
