SPECIFICATION PaidSpec
CONSTANTS
    a1 = a1
    a2 = a2
    r1 = r1
    r2 = r2
    t1 = t1
    t2 = t2
    q1 = q1
    q2 = q2
    v1 = v1
    v2 = v2
    None = None
    Auth = {a1, a2}
    Resource = {r1, r2}
    Deadline <- OneWindow
    Tx = {t1, t2}
    LogIndex <- ZeroLog
    Evidence <- HeadsTo3
    Time <- TwoReadings
    Req = {q1, q2}
    MinConf = 2
    MaxHead = 3
    MaxClock = 1
    MaxRestarts = 1
    Misreports = TRUE
    Review = {v1, v2}
    Needs <- MCNeeds
SYMMETRY MCSymmetry
CHECK_DEADLOCK FALSE
INVARIANTS
    SettledOnChain
    IntentBeforeEffect
    PaidForServable
    ReceiptIsThePayment
PROPERTIES
    KeepsPromise
    RefusedOnlyOnDrift
    AnsweredIsNotResubmitted
    SettledIsServed
