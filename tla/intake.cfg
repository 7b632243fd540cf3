SPECIFICATION MCSpec
CONSTANTS
    Absent = Absent
    Asset = {trx}
    Quoter = {w1, w2}
    RateTtl = 1
    FxTtl = 2
    Stale = 2
    HasFallback = TRUE
    PricingTime = 3
    SpreadBps = 100
    AmountCop = {1, 3}
    MarketE6 = {7, 99, 101}
    Scale = {1, 10}
    Payment = {trx}
    Refresher = {w1}
    Backfiller = {w2}
    BackfillBlocks = 2
    StartHeight = 2
    MaxHeight = 5
    Transfer = {t1, t2}
    Token = {usdt}
    Native = trx
    Ticker = {w1}
    Checker = {w2}
    asset <- AllInCoin
    sentTo <- ToOne
    txHash <- OwnTx
    logIndex <- FirstLog
    Cooldown = 1
    PageLimit = 1
    TronTime = 1
    Proc = {w1, w2}
    Call = {t1, t2}
    Seed = {s1, s2}
    Unbound = Unbound
    MaxIndex = 3
    MaxFaults = 1
CHECK_DEADLOCK FALSE
INVARIANTS
    MCTypeOK
    IssuedOnce
    OneTree
    QuoteFresh
    NeverShort
PROPERTIES
    CursorHonest
    TransfersFound
    ListedIsFound
