SPECIFICATION WebFairSpec
CONSTANTS
    a1 = a1
    a2 = a2
    r1 = r1
    r2 = r2
    t1 = t1
    q1 = q1
    q2 = q2
    None = None
    Auth = {a1, a2}
    Resource = {r1, r2}
    Deadline <- OneWindow
    Tx = {t1}
    LogIndex <- ZeroLog
    Evidence <- HeadsTo2
    Time <- StillClock
    Req = {q1, q2}
    MinConf = 1
    MaxHead = 2
    MaxClock = 0
    MaxRestarts = 1
    Misreports = FALSE
CHECK_DEADLOCK FALSE
INVARIANTS
    PageTypeOK
    UnlockedIsPaid
PROPERTIES
    UnlockEnds
    EveryRequestEnds
