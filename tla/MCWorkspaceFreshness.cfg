SPECIFICATION FairSpec
CONSTANTS
    invoices = invoices
    Groups <- OneGroup
    MaxVersion = 2
    MaxGeneration = 1
    Saves = TRUE
CHECK_DEADLOCK FALSE
INVARIANTS OneLoadPerGroup SignedOutIsEmpty
PROPERTIES ViewMovesForward RequestsAreServed
