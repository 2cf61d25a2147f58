SPECIFICATION LifeSpec
CONSTANTS
    Orders = {o1, o2, o3, o4}
    Prices = {1, 2, 3}
    Quantities = {1, 2}
    TradeCap = 1
    MaxClock = 0
    None = None
    Alice = Alice
    Bob = Bob
    SeedUser = SeedUser
    Users = {Alice, Bob, SeedUser}
    Seeded = {Alice, Bob}
    Base = Base
    Quote = Quote
    Funding <- AmpleFunding
    Requests <- AtLimit
    MaxInFlight = 1
    MaxFaults = 0
    MaxRestarts = 1
    BidQuotes = {}
    AskQuotes = {}
    SeedBid = 1
    SeedAsk = 3
    SeedQty = 1
CHECK_DEADLOCK FALSE
SYMMETRY Symmetry
INVARIANTS
    CollateralCoversBook
    StoreAgreesWithLivingBook
    
    OpenOrdersHoldTheirCollateral
