\* One run with the default timeout of 60 s, in units of 250 ms: models that answer at once or
\* just in time, store calls that take no time or all of the margin.
CONSTANTS
    m1 = m1
    m2 = m2
    NoResult = NoResult
    Models = {m1, m2}
    Registered <- WithOthers
    ModelTimeout = 240
    CallTimes = {0, 239}
    StoreDelays = {0, 60}
    MaxRestarts = 1
    MaxRetries = 1
SPECIFICATION Spec
INVARIANTS
    TypeOK
    SelectedWorkflowRuns
    OnlyModelsFail
    DashboardIsOfItsRun
    ErrorsAreCurrent
    CauseIsTold
    DeadlineCoversAttempts
CHECK_DEADLOCK FALSE
