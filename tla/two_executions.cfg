SPECIFICATION Spec
CONSTANTS
    e1 = e1
    e2 = e2
    w1 = w1
    w2 = w2
    s1 = s1
    o1 = o1
    NoExecution = NoExecution
    Executions = {e1, e2}
    Workers = {w1, w2}
    Schedulers = {s1}
    Operators = {o1}
    OperatorCalls = {"retry", "cancel"}
    NumSteps = 1
    MaxAttempts = 2
    BrokenWorkflows = {e2}
    InvalidSteps <- MCInvalidSteps
    BatchSize = 2
    MaxFaults = 0
    MaxCalls = 1
    Stalls = FALSE
    CrashAfterPop = FALSE
SYMMETRY Symmetry
INVARIANTS TypeOK DeadLetterJustified NeverStranded
