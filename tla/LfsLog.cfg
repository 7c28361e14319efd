SPECIFICATION Spec
CONSTANTS
    f1 = f1
    f2 = f2
    s1 = s1
    Files = {f1}
    Syncers = {s1}
    NumSegs = 4
    SegBlocks = 4
    MapSize = 2
    WasteBlocks = 1
    MinNumClean = 1
    NumSegsToClean = 1
    DirtyActive = 3
    MaxUses = 2
    MaxStamp = 4
    MaxCrashes = 1
    FollowGaps = {}
INVARIANT TypeOK
INVARIANT CheckpointIntact
INVARIANT CleanIsDead
INVARIANT UsageAgrees
INVARIANT CheckpointsInOrder
CHECK_DEADLOCK FALSE
