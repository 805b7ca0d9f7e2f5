SPECIFICATION Spec
CONSTANTS
    AuthEnabled = TRUE
    w1 = w1
    w2 = w2
    d1 = d1
    d2 = d2
    order17 = order17
    order7 = order7
    long = long
    longer = longer
    c1 = c1
    c2 = c2
    s1 = s1
    s2 = s2
    Workflows = {w1, w2}
    NameVersion <- MCNameVersions
    NameLength <- MCNameLength
    Clients = {c1, c2}
    Calls <- MCAdmissionCalls
    MaxAnswers = 2
    Schedules = {d1}
    Target <- MCTarget
    Interval <- MCInterval
    StartTimes = {1}
    Schedulers = {s1}
    BatchSize = 1
    MaxTime = 1
    MaxFaults = 0
SYMMETRY Symmetry
INVARIANTS AnswersAgree SignatureFirst NoServerError
PROPERTY ImplementsIdempotency
