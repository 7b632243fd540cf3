SPECIFICATION Spec
CONSTANTS
    p1 = p1
    p2 = p2
    m1 = m1
    usdc = usdc
    usdt = usdt
    t1 = t1
    t2 = t2
    t3 = t3
    d1 = d1
    d2 = d2
    d3 = d3
    d4 = d4
    k1 = k1
    k2 = k2
    x1 = x1
    x2 = x2
    Merchant = {m1}
    Asset = {usdc, usdt}
    Payment = {p1, p2}
    Transfer = {t1, t2}
    LogIndex = {0}
    DepositId = {d1, d2, d3}
    Ticker = {k1, k2}
    Expirer = {x1}
    clientId <- MCClientId
    amountCop <- MCAmountCop
    asset <- MCAsset
    amountCryptoRaw <- MCAmountCryptoRaw
    sentTo <- ToTwo
    sentAsset <- Quoted
    sentRaw <- Whole
    DustBps = 50
    QuoteTtl = 1
    GraceTtl = 1
    Confirmations = 0
    BackfillBlocks = 3
    CreateBy = 0
    MaxTime = 2
    MaxFaults = 1
CHECK_DEADLOCK FALSE
SYMMETRY Symmetric
INVARIANTS
    BalanceIsLedger
PROPERTY CreditsAtomically
