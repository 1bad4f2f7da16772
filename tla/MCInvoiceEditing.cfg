SPECIFICATION FairSpec
CONSTANTS
    a = a  None = None
    Invoices <- OneInvoice
    MaxEdits = 2
    MaxRemote = 1
    MaxRefreshes = 2
    MaxFlushes = 1
    UserNavigates = TRUE
    CallsFail = TRUE
CHECK_DEADLOCK FALSE
INVARIANTS TypeOK
PROPERTIES SavedIsDurable RevisionsInOrder NoRaceOverwrite SavingSettles
