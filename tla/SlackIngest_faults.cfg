\* Two handlers, one message that is deleted; a crash, a fault, a slow handler and a call by hand.
CONSTANTS
    p = p
    q = q
    h1 = h1
    h2 = h2
    Deleted = Deleted
    NoEvent = NoEvent
    Messages = {p}
    Removable = {p}
    Bare = {p}
    Handlers = {h1, h2}
    NumTexts <- Unedited
    Limits <- Failures
SPECIFICATION Spec
SYMMETRY Symmetry
INVARIANTS
    TypeOK
    ClaimIsExclusive
PROPERTIES
    ImplementsThreadLog
CHECK_DEADLOCK FALSE
