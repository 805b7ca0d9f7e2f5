SPECIFICATION FairSpec
CONSTANTS
    e1 = e1
    w1 = w1
    w2 = w2
    s1 = s1
    NoExecution = NoExecution
    Executions = {e1}
    Workers = {w1, w2}
    Schedulers = {s1}
    Operators = {}
    OperatorCalls = {}
    NumSteps = 1
    MaxAttempts = 2
    BrokenWorkflows = {}
    InvalidSteps <- MCInvalidSteps
    BatchSize = 1
    MaxFaults = 1
    MaxCalls = 0
    Stalls = TRUE
    CrashAfterPop = FALSE
INVARIANTS OneOwner
PROPERTIES Settles
