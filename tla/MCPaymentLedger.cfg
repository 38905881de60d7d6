SPECIFICATION LedgerSpec
CONSTANTS
    a1 = a1
    a2 = a2
    r1 = r1
    r2 = r2
    t1 = t1
    t2 = t2
    Auth = {a1, a2}
    Resource = {r1, r2}
    Deadline <- MCDeadline
    Tx = {t1, t2}
    LogIndex <- MCLogIndex
    Evidence <- MCEvidence
    Time <- MCTime
SYMMETRY Symmetry
INVARIANTS
    KeysHold
    SettlementBindsEvidence
    OneEffectOneIntent
    ObservationsAreSettled
    ReplayAccepted
