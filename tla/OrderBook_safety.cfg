SPECIFICATION BookAlone
CONSTANTS
    Orders = {o1, o2, o3, o4}
    Prices = {1, 2}
    Quantities = {1, 2}
    TradeCap = 1
    MaxClock = 1
    None = None
    Clients = {}
    Stallers = {}
    Levels = 1
    TradeLimit = 1
    MaxInFlight = 0
SYMMETRY Symmetry
CHECK_DEADLOCK FALSE
INVARIANTS
    BookTypeOK
    PriceTimeSorted
    Uncrossed
    OnBookExactlyWhileOpen
    QuantityConserved
    TradesWithinLimits
    ReadsShowTheBook
PROPERTIES
    PriceTimePriority
    CancelIsFinal
