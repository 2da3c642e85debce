\* Two runs that compete for the worker, two handlers, a stop and a retry.
CONSTANTS
    r1 = r1
    r2 = r2
    c1 = c1
    c2 = c2
    NoRun = NoRun
    Runs = {r1, r2}
    Clients = {c1, c2}
    NumSteps = 1
    MaxTime = 1
    MaxAttempts <- OnceOnly
    Limits <- StopAndRetry
SPECIFICATION Spec
SYMMETRY Symmetry
INVARIANTS
    RunningIsExecuted
    NoLostWakeUp
    CancelReachesWorker
    CancelHitsItsRun
