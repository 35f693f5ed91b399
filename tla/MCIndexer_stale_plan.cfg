SPECIFICATION Spec
CONSTANTS
    p1 = p1
    v1 = v1
    loop = loop
    route = route
    Factory = Factory
    Polls = {p1}
    SealedPolls = {}
    Voters = {v1}
    NumOptions = 2
    None = None
    Menu <- QuietMenu
    FinalityDepth = 1
    MaxHeight = 5
    MaxReorgs = 0
    Syncers = {loop, route}
    Loop = loop
    Confirmations = 1
    ChunkBlocks = 2
    StartBlock = 1
    MaxLag = 0
    MaxLags = 0
    MaxFailures = 0
INVARIANTS
    NothingSkipped
