SPECIFICATION LifeSpec
CONSTANTS
    Orders = {o1, o2, b1, a1, b2, a2}
    Prices = {1, 2, 3}
    Quantities = {1, 2}
    TradeCap = 1
    MaxClock = 0
    None = None
    Alice = Alice
    Bob = Bob
    SeedUser = SeedUser
    Users = {Alice, Bob, SeedUser}
    Seeded = {Alice, Bob}
    Base = Base
    Quote = Quote
    Funding <- AmpleFunding
    Requests <- AcrossTheSeed
    MaxInFlight = 2
    MaxFaults = 0
    MaxRestarts = 1
    BidQuotes = {b1, b2}
    AskQuotes = {a1, a2}
    SeedBid = 1
    SeedAsk = 3
    SeedQty = 1
CHECK_DEADLOCK FALSE
INVARIANTS
    LifeInv
PROPERTIES
    EveryRequestEnds
