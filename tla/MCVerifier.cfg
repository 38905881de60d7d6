CONSTANTS
    c1 = c1
    c2 = c2
    t1 = t1
    t2 = t2
    a1 = a1
    s1 = s1
    s2 = s2
    None = None
    Call = {c1, c2}
    Tx = {t1, t2}
    Auth = {a1}
    Salt = {s1, s2}
    Runs <- MCRuns
    MinConf = 2
    MaxReorg = 1
    MaxHeight = 3
SYMMETRY MCSymmetry
SPECIFICATION Spec
INVARIANTS
    ObservationIsFinal
    OneTransferPerAuthorization
PROPERTIES
    ReadsAreAtomic
CHECK_DEADLOCK FALSE
