SPECIFICATION FairSpec
CONSTANTS
    g1 = g1  g2 = g2
    f1 = f1  f2 = f2
    w1 = w1
    Groups <- MCGroups
    Flushers <- MCFlushers
    Waiters <- MCWaiters
    Debounce = 2

INVARIANTS NoLostWakeup
PROPERTIES RequestedIsTakenUp FlushReturns ImplementsRefreshQueue
