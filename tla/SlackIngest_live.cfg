\* One message under fairness, with a crash and a fault.
CONSTANTS
    p = p
    q = q
    h1 = h1
    Deleted = Deleted
    NoEvent = NoEvent
    Messages = {p}
    Removable = {p}
    Bare = {p}
    Handlers = {h1}
    NumTexts <- EditedParent
    Limits <- CrashAndFault
SPECIFICATION FairSpec
PROPERTIES
    EventsAreAcknowledged
CHECK_DEADLOCK FALSE
