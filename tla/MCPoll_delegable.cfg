\* A settled poll is at rest: TLC must not report it as a deadlock.
SPECIFICATION Spec
CONSTANTS
    Voters = {v1, v2, v3}
    None = None
    Config <- DelegableConfig
    InitialOptions = 2
    EndsAt = 2
    Stake = 1
    GracePeriod = 1
    MaxUint = 2147483647
    Weights = {1, 2}
    Commitments = {}
    Values = {}
    MaxOptions = 2
    MaxForced = 0
    MaxTime = 2
SYMMETRY VoterSymmetry
INVARIANTS
    DelegationBooks
    BallotCarriesControlledPower
    PowerConserved
    TallyIsTheBallots
CHECK_DEADLOCK FALSE
