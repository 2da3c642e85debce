\* One run, everything that can disturb it once.
CONSTANTS
    r1 = r1
    c1 = c1
    c2 = c2
    NoRun = NoRun
    Runs = {r1}
    Clients = {c1, c2}
    NumSteps = 2
    MaxTime = 0
    MaxAttempts <- TwiceThenOnce
    Limits <- OneOfEach
SPECIFICATION Spec
INVARIANTS
    ResultsAreAPrefix
    FinalArtifactIsStored
    FailedRunIsSettled
    CancelledRunIsSettled
    StoreInv
PROPERTIES
    TerminalIsFrozen
    AttemptsAreSequential
    ServingFollowsTable
    RefinesLifecycle
