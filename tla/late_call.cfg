SPECIFICATION Spec
CONSTANTS
    e1 = e1
    w1 = w1
    s1 = s1
    o1 = o1
    o2 = o2
    NoExecution = NoExecution
    Executions = {e1}
    Workers = {w1}
    Schedulers = {s1}
    Operators = {o1, o2}
    OperatorCalls = {"retry", "cancel"}
    NumSteps = 1
    MaxAttempts = 1
    BrokenWorkflows = {}
    InvalidSteps <- MCInvalidSteps
    BatchSize = 1
    MaxFaults = 0
    MaxCalls = 2
    Stalls = FALSE
    CrashAfterPop = FALSE
PROPERTIES SuccessIsFinal
