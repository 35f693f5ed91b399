SPECIFICATION Spec
CONSTANTS
    p1 = p1
    t1 = t1
    t2 = t2
    Polls = {p1}
    Tabs = {t1, t2}
    MaxBlock = 3
    Limit = 1
    MaxRewinds = 1
    MaxFailures = 1
SYMMETRY Symmetry
INVARIANTS
    NothingSwallowed
PROPERTIES
    ReadStaysRead
