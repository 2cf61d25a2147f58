SPECIFICATION MarketSpec
CONSTANTS
    Orders = {o1, o2}
    Prices = {1}
    Quantities = {1}
    TradeCap = 2
    MaxClock = 0
    None = None
    Clients = {c1}
    Stallers = {c1}
    Levels = 1
    TradeLimit = 1
    MaxInFlight = 2
CHECK_DEADLOCK FALSE

    
PROPERTIES
    EverySubmitReturns
    FeedMovesOn
