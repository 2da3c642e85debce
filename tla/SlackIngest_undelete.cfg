\* A deletion while a thread is synchronized.
CONSTANTS
    p = p
    q = q
    h1 = h1
    h2 = h2
    Deleted = Deleted
    NoEvent = NoEvent
    Messages = {p}
    Removable = {p}
    Bare = {}
    Handlers = {h1, h2}
    NumTexts <- Unedited
    Limits <- Unfailing
SPECIFICATION Spec
SYMMETRY Symmetry
INVARIANTS
    DeletedStaysDeleted
CHECK_DEADLOCK FALSE
