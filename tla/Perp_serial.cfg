SPECIFICATION PerpSpec
CONSTANTS
    Alice = Alice
    House = House
    USDT = USDT
    None = None
    Traders = {Alice}
    Deposits <- Ample
    Marks = {3, 4}
    MaxLeverage = 4
    MaintDen = 4
    FundingDen = 4
    Reqs = {r1, r2, r3}
    Payloads <- SerialPayloads
    Scanners = {s1}
    Settlers = {f1}
    MaxInFlight = 1
    MaxFaults = 0
    MaxTicks = 2
    MaxRates = 1
CHECK_DEADLOCK FALSE
INVARIANTS
    BalancesAddUp
PROPERTIES
    AddingKeepsPnL
    CloseRealisesItsShare
