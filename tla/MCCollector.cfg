CONSTANTS
    home = home
    page = page
    plain = plain
    other = other
    far = far
    inner = inner
    front = front
    back = back
    Elsewhere = Elsewhere
    Url = {home, page, plain, other, far}
    Start = home
    SchemeOf <- MCSchemeOf
    OriginOf <- MCOriginOf
    Address = {front, back, inner}
    Public = {front, back}
    Header = {"hsts", "csp"}
    Rules <- MCRules
    MaxRedirects = 3
SPECIFICATION FairSpec
INVARIANTS
    RequestsArePublic
    ObservationsTellTheWay
    CompletedIsDecided
PROPERTIES
    AssessmentEnds
CHECK_DEADLOCK FALSE
