SPECIFICATION CheckedSpec
CONSTANTS
    p1 = p1
    v1 = v1
    loop = loop
    route = route
    Factory = Factory
    Polls = {p1}
    SealedPolls = {}
    Voters = {v1}
    NumOptions = 2
    None = None
    Menu <- PublicMenu
    FinalityDepth = 1
    MaxHeight = 4
    MaxReorgs = 1
    Syncers = {loop}
    Loop = loop
    Confirmations = 1
    ChunkBlocks = 2
    StartBlock = 1
    MaxLag = 2
    MaxLags = 1
    MaxFailures = 1
    MaxUnindexedBlocks = 3
INVARIANTS
    NothingSkipped
    SnapshotAgrees
PROPERTIES
    CatchesUp
    ImplementsLedger
    FirstBallotsReconcile
