\* A settled poll is at rest: TLC must not report it as a deadlock.
SPECIFICATION FairSpec
CONSTANTS
    Voters = {v1, v2, v3}
    None = None
    Config <- OpenCommitRevealConfig
    InitialOptions = 2
    EndsAt = 2
    Stake = 1
    GracePeriod = 1
    MaxUint = 2147483647
    Weights = {}
    Commitments <- AnyList
    Values = {}
    MaxOptions = 2
    MaxForced = 0
    MaxTime = 9
INVARIANTS
    BallotIsBacked
    StakesSum
    ExitsAreOffered
PROPERTIES
    NothingNewAfterClose
    ImplementsEscrow
    EveryStakeComesBack
    OpenPollEnds
CHECK_DEADLOCK FALSE
