\* A settled poll is at rest: TLC must not report it as a deadlock.
SPECIFICATION Spec
CONSTANTS
    Voters = {v1, v2}
    None = None
    Config <- PublicConfig
    InitialOptions = 2
    EndsAt = 3
    Stake = 1
    GracePeriod = 1
    MaxUint = 2147483647
    Weights = {}
    Commitments = {}
    Values = {0, 1}
    MaxOptions = 3
    MaxForced = 1
    MaxTime = 6
SYMMETRY VoterSymmetry
INVARIANTS
    TypeOK
    Custody
    CachedVerdictIsCurrent
    ExecutesAtMostOnce
    PageFollowsPoll
PROPERTIES
    TimelockHonoured
    EditsMoveNoVerdict
CHECK_DEADLOCK FALSE
