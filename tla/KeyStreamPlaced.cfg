SPECIFICATION StreamSpec
CONSTANTS
    Digit = 2
    Decimals = 1
    UintModulus = 32
    Order = 5
    ScalarSize = 2
    CoordSize = 1
    ZeroIsPoint = FALSE
    MaxStream = 4
    MaxLen = 2
INVARIANTS NumbersAlwaysPlaced
CHECK_DEADLOCK FALSE
