\* Two handlers; the parent is edited, the reply deleted; no call fails.
CONSTANTS
    p = p
    q = q
    h1 = h1
    h2 = h2
    Deleted = Deleted
    NoEvent = NoEvent
    Messages = {p, q}
    Removable = {q}
    Bare = {q}
    Handlers = {h1, h2}
    NumTexts <- EditedParent
    Limits <- Unfailing
SPECIFICATION Spec
SYMMETRY Symmetry
INVARIANTS
    RequestsAreCurrent
    QuietThreadIsRequested
CHECK_DEADLOCK FALSE
