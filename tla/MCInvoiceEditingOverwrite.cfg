SPECIFICATION Spec
CONSTANTS
    a = a  None = None
    Invoices <- OneInvoice
    MaxEdits = 1
    MaxRemote = 1
    MaxRefreshes = 1
    MaxFlushes = 0
    UserNavigates = FALSE
    CallsFail = FALSE
CHECK_DEADLOCK FALSE
PROPERTIES NoSilentOverwrite
