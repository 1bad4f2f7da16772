SPECIFICATION Spec
CONSTANTS
    o1 = o1  o2 = o2  o3 = o3  g1 = g1
    Owners <- MCOwners
    Groups <- MCGroups
    MaxEntries = 2
    MaxVersion = 2
    MaxGeneration = 4
CHECK_DEADLOCK FALSE
SYMMETRY OwnerSymmetry
CONSTRAINT OneKeyChanges
INVARIANTS PromisesAreLive LoadedSinceInvalidation DiscardedStaysGone
PROPERTIES DataMovesForward
