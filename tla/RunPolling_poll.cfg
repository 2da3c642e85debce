\* One run of two steps and one handler, with a poller, a stop or crash, a retry, and reads that fail.
CONSTANTS
    r1 = r1
    c1 = c1
    NoRun = NoRun
    Poller = Poller
    Runs = {r1}
    Watched = r1
    Clients = {c1}
    NumSteps = 2
    MaxTime = 0
    MaxAttempts <- TwoSteps
    Limits <- StopAndRetry
SPECIFICATION PollSpec
INVARIANTS
    ViewOK
    AnswersAreConsistent
    StopsOnTheTruth
CHECK_DEADLOCK FALSE
