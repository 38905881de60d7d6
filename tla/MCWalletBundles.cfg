SPECIFICATION Spec
CONSTANTS
    c1 = c1
    c2 = c2
    d1 = d1
    d2 = d2
    b1 = b1
    w1 = w1
    w2 = w2
    p1 = p1
    p2 = p2
    None = None
    Torn = Torn
    Command = {c1, c2}
    Destination = {d1, d2}
    Backup = {b1}
    Wallet = {w1, w2}
    Password = {p1, p2}
SYMMETRY Symmetry
INVARIANTS
    WalletTypeOK
    ReportedIsKept
PROPERTIES
    VerifiedIsRecoverable
