SPECIFICATION Spec
CONSTANTS
    q1 = q1
    q2 = q2
    v1 = v1
    v2 = v2
    None = None
    Request = {q1, q2}
    ReviewId = {v1, v2}
    s1 = s1
    s2 = s2
    Target = {s1, s2}
    Ruleset <- Releases
    Collection <- MCCollection
    Kinds <- MCKinds
SYMMETRY MCSymmetry
INVARIANTS
    StoreTypeOK
    EngineIsAccepted
    OutcomesAreObserved
    
    DiffReadsBothWays
    DiffExplainsRisk
CHECK_DEADLOCK FALSE
