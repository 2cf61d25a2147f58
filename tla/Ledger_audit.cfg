SPECIFICATION LedgerSpec
CONSTANTS
    Alice = Alice
    Bob = Bob
    Carol = Carol
    BTC = BTC
    USDT = USDT
    Users = {Alice, Bob, Carol}
    Assets = {BTC, USDT}
    RefIds = {r1, r2}
    TradeIds = {t1, t2}
    Seeded = {Alice, Bob}
    Amounts = {0, 1, 2}
    Funding <- MCFunding
    Settlements <- MCSettlements
CHECK_DEADLOCK FALSE
INVARIANTS
    BalancesFollowLedger
