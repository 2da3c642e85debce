\* Threads of up to four messages; half of the fewest characters holds a header and a letter.
CONSTANTS
    MaxLen = 4
    Headers = {1, 3}
    Texts = {0, 1, 4}
    MostMessages = {1, 2, 3, 4}
    MostChars = {12, 13, 16}
    Threads <- AllThreads
    Bounds <- AllBounds
SPECIFICATION Spec
INVARIANTS
    ContextFits
    ParentRetained
    NothingLeftOut
    LatestAreSelected
    OnlyOldestIsCut
CHECK_DEADLOCK FALSE
