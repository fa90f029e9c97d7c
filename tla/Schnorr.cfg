SPECIFICATION FairSpec
CONSTANTS
    Order = 5
    Slices <- SomeSlices
    PrivKeys = {2}
    PubKeys = {0, 2}
    Forged <- SomeSignatures
    Digests = {0, 6}
    MaxHashes = 3
    MaxSigned = 1
INVARIANTS SchnorrTypeOK SignedVerifies
PROPERTIES SigningEnds
CHECK_DEADLOCK FALSE
