SPECIFICATION AmmSpec
CONSTANTS
    Users = {u1, u2}
    Pair = Pair
    Zero = Zero
    Funding = 5
    MinLiquidity = 1
    FeeNum = 3
    FeeDen = 1000
    MaxReserve = 8
    Amounts = {1, 2, 4}
    Minimums = {0, 2}
SYMMETRY Symmetry
CHECK_DEADLOCK FALSE
INVARIANTS
    AmmInv
    RoundingIsRight
PROPERTIES
    ShareValueNeverFalls
