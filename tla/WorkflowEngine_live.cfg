\* Two runs under fairness, with a stop, a workflow deadline and a failing store call.
CONSTANTS
    r1 = r1
    r2 = r2
    c1 = c1
    NoRun = NoRun
    Runs = {r1, r2}
    Clients = {c1}
    NumSteps = 1
    MaxTime = 0
    MaxAttempts <- OnceOnly
    Limits <- StopTimeoutFault
SPECIFICATION FairSpec
PROPERTIES
    RunsSettle
    RestartSettles
