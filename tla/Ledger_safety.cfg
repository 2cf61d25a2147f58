SPECIFICATION TxSpec
CONSTANTS
    Alice = Alice
    Bob = Bob
    Carol = Carol
    BTC = BTC
    USDT = USDT
    Users = {Alice, Bob, Carol}
    Assets = {BTC, USDT}
    RefIds = {r1, r2}
    TradeIds = {t1, t2}
    Seeded = {Alice, Bob}
    Amounts = {1}
    Funding <- MCFunding
    Settlements <- MCSettlements
    Txs = {c1, c2}
    MaxTxs = 4
    MaxAborts = 1
SYMMETRY Symmetry
CHECK_DEADLOCK FALSE
INVARIANTS
    TxInv
    
PROPERTIES
    SupplyNeverGrows
    MovesArePostedOnce
    ImplementsLedger
