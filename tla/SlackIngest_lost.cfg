\* An analysis that fails.
CONSTANTS
    p = p
    q = q
    h1 = h1
    Deleted = Deleted
    NoEvent = NoEvent
    Messages = {p}
    Removable = {}
    Bare = {}
    Handlers = {h1}
    NumTexts <- Unedited
    Limits <- FaultOnly
SPECIFICATION Spec
INVARIANTS
    ChangesAreAnalysed
CHECK_DEADLOCK FALSE
