\* A page that is left alone is at rest: TLC must not report it as a deadlock.
SPECIFICATION Spec
CONSTANTS
    a = a
    Readers = {r1, r2}
    Ttl = 1
    Texts = {a}
    Blank = Blank
    Nothing = Nothing
    EndsAt <- Deadlines
    Creators = {w}
    Wallet = w
    MaxPolls = 1
    MaxFaults = 1
    MaxReloads = 1
    MaxTime = 2
SYMMETRY ReaderSymmetry
INVARIANTS
    CacheIsSound
    ListIsRecent
    OfferedIsAccepted
    DraftIsKept
CHECK_DEADLOCK FALSE
