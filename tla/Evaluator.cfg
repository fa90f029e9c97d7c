SPECIFICATION FairSpec
CONSTANTS
    owner = owner
    to = to
    arg = arg
    x = x
    sender = sender
    f = f
    CParams = {owner}
    TParams = {to}
    PParams <- OneParamEach
    Locals = {x}
    Implicit = {sender}
    Fields = {f}
    NumProcs = 2
    MaxUint = 2
    Supply = 1
    MaxGas = 3
    LitCosts = {1, 2}
    ExprCosts = {1}
    MsgCost = 1
    MaxNesting = 1
    MaxBatch = 2
INVARIANTS TypeOK CallsDescend LexicalScope AcceptedOnce SettledIfOutput
PROPERTIES Answered GasOnlyFalls
CHECK_DEADLOCK FALSE
