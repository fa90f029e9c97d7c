SPECIFICATION MCSpec
CONSTANTS
    Digit = 2
    Decimals = 1
    UintModulus = 32
    Order = 3
    ScalarSize = 2
    CoordSize = 2
    ZeroIsPoint = FALSE
    MaxStream = 4
    MaxLen = 2
    Halves = {0, 1, 4, 15}
    Slices <- SomeMessages
    PrivKeys = {}
    PubKeys = {}
    Forged = {}
    Digests = {0, 4}
    MaxHashes = 2
    MaxSigned = 1
    Drawn = {2}
    ByStrs <- SomeStrings
    MaxPairs = 1
    MaxIssued = 2
CONSTRAINT FewSignatures
INVARIANTS ReadsWhole OneEncoding KeysOrdered NumbersReadBack ConversionsAgree
INVARIANTS AbortsOnlyUnconverted IssuedVerifies RefusedNeverVerifies
PROPERTIES WritesLand
CHECK_DEADLOCK FALSE
