SPECIFICATION FlowSpec
CONSTANTS
    Orders = {o1, o2, o3}
    Prices = {1, 2}
    Quantities = {1, 2}
    TradeCap = 1
    MaxClock = 0
    None = None
    Alice = Alice
    Bob = Bob
    Users = {Alice, Bob}
    Seeded = {Alice, Bob}
    Base = Base
    Quote = Quote
    Funding <- ScarceFunding
    Requests <- OverlapRequests
    MaxInFlight = 2
    MaxFaults = 1
SYMMETRY Symmetry
CHECK_DEADLOCK FALSE
INVARIANTS
    FlowTypeOK
    FilledIsSettledAndMatched
    TradeRowsAreSettled
