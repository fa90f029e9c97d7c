SPECIFICATION RunnerFairSpec
CONSTANTS
    f = f
    CParams = {}
    TParams = {}
    PParams <- NoParams
    Locals = {}
    Implicit = {}
    Fields = {f}
    NumProcs = 0
    MaxUint = 2
    Supply = 2
    MaxGas = 3
    LitCosts = {1, 2}
    ExprCosts = {}
    MsgCost = 1
    MaxNesting = 0
    MaxBatch = 2
    FileSizes = {0, 1}
    InitCosts = {0, 1}
    Penalty = 2
    MaxGasUint = 7
    Programs = {"contract", "library"}
INVARIANTS RunnerTypeOK FundsConserved OutputGasWithinLimit
PROPERTIES AtomicMessages RunsEnd
