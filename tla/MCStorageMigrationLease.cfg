SPECIFICATION Spec
CONSTANTS
    d1 = d1  d2 = d2  w1 = w1  w2 = w2  sha = sha
    None = None  Legacy = Legacy  Foreign = Foreign
    Documents <- TwoDocuments
    Digest <- MCDigest
    LegacyObject <- MCLegacyObject
    Workers <- MCWorkers
    Lease = 1
    MaxAttempts = 1
    MaxBatch = 3
    MaxHold = 1
    MaxRecords = 2
    MaxCrashes = 0
    CallsFail = FALSE
INVARIANTS OneWorkerPerRecord
