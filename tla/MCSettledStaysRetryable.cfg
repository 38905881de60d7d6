SPECIFICATION FairSpec
CONSTANTS
    a1 = a1
    r1 = r1
    t1 = t1
    q1 = q1
    q2 = q2
    None = None
    Auth = {a1}
    Resource = {r1}
    Deadline <- OneWindow
    Tx = {t1}
    LogIndex <- ZeroLog
    Evidence <- HeadsTo2
    Time <- TwoReadings
    Req = {q1, q2}
    MinConf = 1
    MaxHead = 2
    MaxClock = 1
    MaxRestarts = 0
    Misreports = FALSE
CHECK_DEADLOCK FALSE
PROPERTIES
    SettledStaysRetryable
