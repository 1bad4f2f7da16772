SPECIFICATION FairDeliverySpec
CONSTANTS
    s1 = s1  o1 = o1  c1 = c1  c2 = c2  u1 = u1
    k1 = k1  text = text  other = other  mail = mail
    Clients = {c1, c2}
    User <- MCUser
    DeliveryKeys = {k1}
    Messages = {text, other, mail}
    Channel <- MCChannel
    Attached <- MCAttached
    MaxPosts = 2
    MaxLosses = 1
    Sessions = {s1}
    Transactions = {}
    Invoices = {}
    Expenses = {}
    SupplierInvoice <- Nowhere
    Settlements = {}
    Groups = {}
    Pair <- Nowhere
    Statement <- Nowhere
    Total <- Nowhere
    Orders = {o1}
    Ordered <- MCOrdered
    Receipts = {}
    Items = {}
    Projects = {}
    Keys = {}
    MaxAmount = 1
    MaxCalls = 1
    Workloads <- MCWorkloads
    None = None
INVARIANTS OneCallPerKey HistoryIsTrue
PROPERTIES OutcomeIsLearned
