SPECIFICATION Spec
CONSTANTS
    e1 = e1
    w1 = w1
    s1 = s1
    s2 = s2
    o1 = o1
    NoExecution = NoExecution
    Executions = {e1}
    Workers = {w1}
    Schedulers = {s1, s2}
    Operators = {o1}
    OperatorCalls = {"cancel"}
    NumSteps = 1
    MaxAttempts = 3
    BrokenWorkflows = {}
    InvalidSteps <- MCInvalidSteps
    BatchSize = 1
    MaxFaults = 1
    MaxCalls = 1
    Stalls = FALSE
    CrashAfterPop = FALSE
SYMMETRY Symmetry
INVARIANTS NeverStranded
PROPERTIES ReapsOnlyExpired RetriesOnlyDue
