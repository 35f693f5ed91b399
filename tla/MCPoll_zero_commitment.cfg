SPECIFICATION Spec
CONSTANTS
    Voters = {v1}
    None = None
    Config <- CommitRevealConfig
    InitialOptions = 2
    EndsAt = 3
    Stake = 1
    GracePeriod = 1
    MaxUint = 2147483647
    Weights = {}
    Commitments <- AnyBytes32
    Values = {}
    MaxOptions = 2
    MaxForced = 0
    MaxTime = 6
SYMMETRY VoterSymmetry
INVARIANTS
    StakesSum
CHECK_DEADLOCK FALSE
