SPECIFICATION Spec
CONSTANTS
    e1 = e1
    w1 = w1
    w2 = w2
    s1 = s1
    o1 = o1
    NoExecution = NoExecution
    Executions = {e1}
    Workers = {w1, w2}
    Schedulers = {s1}
    Operators = {o1}
    OperatorCalls = {"retry"}
    NumSteps = 2
    MaxAttempts = 2
    BrokenWorkflows = {}
    InvalidSteps <- MCInvalidSteps
    BatchSize = 1
    MaxFaults = 1
    MaxCalls = 1
    Stalls = FALSE
    CrashAfterPop = FALSE
SYMMETRY Symmetry
INVARIANTS WriterHoldsLease StepsInOrder RowAgrees
PROPERTIES ImplementsLifecycle
