SPECIFICATION PerpSpec
CONSTANTS
    Alice = Alice
    House = House
    USDT = USDT
    None = None
    Traders = {Alice}
    Deposits <- Tight
    Marks = {2, 3, 4}
    MaxLeverage = 4
    MaintDen = 4
    FundingDen = 4
    Reqs = {r1, r2}
    Payloads <- OverlapPayloads
    Scanners = {s1}
    Settlers = {f1}
    MaxInFlight = 2
    MaxFaults = 1
    MaxTicks = 1
    MaxRates = 1
CHECK_DEADLOCK FALSE
INVARIANTS
    PnLRealisedOnce
    PerpInv
PROPERTIES
    
    EveryRunEnds
