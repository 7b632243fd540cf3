SPECIFICATION Spec
CONSTANTS
    token = token
    native = native
    k1 = k1
    k2 = k2
    Pairing = {native}
    via <- MCVia
    Ticker = {k1}
    MaxAttempts = 2
    MinRaw = 1
    Fee = 1
    DepositRaw = 2
    MaxDeposits = 2
    MaxSweeps = 2
    MaxTxs = 3
    MaxFaults = 1
    MaxReorgs = 0
    MaxDrops = 0
CHECK_DEADLOCK FALSE
INVARIANTS
    NativeMovesOnce
