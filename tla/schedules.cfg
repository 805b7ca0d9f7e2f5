SPECIFICATION FairSpec
CONSTANTS
    AuthEnabled = TRUE
    w1 = w1
    w2 = w2
    d1 = d1
    d2 = d2
    order17 = order17
    order7 = order7
    long = long
    longer = longer
    c1 = c1
    c2 = c2
    s1 = s1
    s2 = s2
    Workflows = {w1, w2}
    NameVersion <- MCNameVersion
    NameLength <- MCNameLength
    Clients = {c1}
    Calls <- MCScheduleCalls
    MaxAnswers = 1
    Schedules = {d1, d2}
    Target <- MCTarget
    Interval <- MCInterval
    StartTimes = {0, 1}
    Schedulers = {s1, s2}
    BatchSize = 1
    MaxTime = 2
    MaxFaults = 1
INVARIANTS TypeOK EveryIntervalOnce RolesFromToken
PROPERTIES SchedulesCatchUp AcceptedIsPublished
