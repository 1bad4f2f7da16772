SPECIFICATION FairSpec
CONSTANTS
    d1 = d1  d2 = d2  w1 = w1  w2 = w2  sha = sha
    None = None  Legacy = Legacy  Foreign = Foreign
    Documents <- TwoDocuments
    Digest <- MCDigest
    LegacyObject <- MCLegacyObject
    Workers <- MCWorkers
    Lease = 1
    MaxAttempts = 1
    MaxBatch = 1
    MaxHold = 1
    MaxRecords = 2
    MaxCrashes = 1
    CallsFail = FALSE
PROPERTIES EventuallyMigrated
