SPECIFICATION FairSpec
CONSTANTS
    u1 = u1  u2 = u2  w1 = w1  w2 = w2  sha = sha
    Objects <- TwoUploads
    Manual <- TwoUploads
    Content <- MCContent
    Workers <- MCWorkers
    Lease = 0
    MaxAttempts = 2
    MaxFaults = 1
    MaxManifests = 1
INVARIANTS CommittedResolves OneDocumentPerContent CleanEndLeavesNoOrphan
PROPERTIES RegisteredIsSettled
