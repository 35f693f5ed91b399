SPECIFICATION Spec
CONSTANTS
    p1 = p1
    v1 = v1
    loop = loop
    route = route
    Factory = Factory
    Polls = {p1}
    SealedPolls = {p1}
    Voters = {v1}
    NumOptions = 2
    None = None
    Menu <- SealedMenu
    FinalityDepth = 1
    MaxHeight = 4
    MaxReorgs = 1
    Syncers = {loop, route}
    Loop = loop
    Confirmations = 1
    ChunkBlocks = 2
    StartBlock = 1
    MaxLag = 2
    MaxLags = 1
    MaxFailures = 0
INVARIANTS
    OnlySettledLogs
    SelectionsAreWhole
PROPERTY
    RevealsAreCast
