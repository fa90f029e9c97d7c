SPECIFICATION Spec
CONSTANTS
    owner = owner
    to = to
    arg = arg
    x = x
    sender = sender
    f = f
    CParams = {}
    TParams = {}
    PParams <- NoParams
    Locals = {}
    Implicit = {sender}
    Fields = {f}
    NumProcs = 0
    MaxUint = 3
    Supply = 3
    MaxGas = 3
    LitCosts = {1}
    ExprCosts = {1}
    MsgCost = 1
    MaxNesting = 0
    MaxBatch = 2
INVARIANTS Settled
CHECK_DEADLOCK FALSE
