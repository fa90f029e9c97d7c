SPECIFICATION Spec
CONSTANTS
    owner = owner
    to = to
    arg = arg
    x = x
    sender = sender
    f = f
    CParams = {owner}
    TParams = {owner}
    PParams <- OneParamEach
    Locals = {x}
    Implicit = {sender}
    Fields = {f}
    NumProcs = 1
    MaxUint = 0
    Supply = 0
    MaxGas = 2
    LitCosts = {1}
    ExprCosts = {1}
    MsgCost = 1
    MaxNesting = 1
    MaxBatch = 0
INVARIANTS LexicalScope
CHECK_DEADLOCK FALSE
