\* A parent and two replies; a file of the reply on the second page, and one that the
\* messages on the first share.
CONSTANTS
    doc = doc
    img = img
    NoRow = NoRow
    NumMessages = 3
    Files = {doc, img}
    Carriers <- SharedWithParent
    NumTexts = 1
    Metadata = {1, 2}
    PageSize = 2
    MaxVersion = 4
    MaxChanges = 3
SPECIFICATION Spec
INVARIANTS
    TypeOK
    MessagesShowWhatWasApplied
PROPERTIES
    VersionCountsChanges
    SyncMissesOnlyDeletions
CHECK_DEADLOCK FALSE
