SPECIFICATION Spec
CONSTANTS
    s1 = s1  s2 = s2  i1 = i1  e1 = e1  e2 = e2
    m1 = m1  m2 = m2  m3 = m3  g1 = g1  g2 = g2
    o1 = o1  o2 = o2  r1 = r1  r2 = r2  r3 = r3  w1 = w1  p1 = p1
    k1 = k1  k2 = k2  k3 = k3  k4 = k4  k5 = k5
    Sessions <- MCSessions
    Transactions <- MCTransactions
    Invoices = {i1}
    Expenses = {e1, e2}
    SupplierInvoice <- MCSupplierInvoice
    Settlements = {m1, m2, m3}
    Groups = {g1, g2}
    Pair <- MCPair
    Statement <- MCStatement
    Total <- MCTotal
    Orders = {o1, o2}
    Ordered <- MCOrdered
    Receipts = {r1, r2, r3}
    Items = {w1}
    Projects = {p1}
    Keys = {k1, k2, k3, k4, k5}
    MaxAmount = 2
    MaxCalls = 6
    Workloads <- MCWorkloads
    None = None
INVARIANTS TypeOK NotOverdrawn ReviewTellsEvidence VoidedTargetsAreFree NotOverReceived
INVARIANTS StockIsCovered CountedOnce DeadlocksAreKnown
PROPERTIES NewEvidenceIsSound EvidenceOnlyReverses NewMatchIsSound
SYMMETRY Symmetry
