SPECIFICATION VaultSpec
CONSTANTS
    c1 = c1
    d1 = d1
    v1 = v1
    p1 = p1
    p2 = p2
    w1 = w1
    w2 = w2
    k1 = k1
    k2 = k2
    u1 = u1
    u2 = u2
    g1 = g1
    g2 = g2
    None = None
    Absent = Absent
    Command = {c1}
    Registrar = {d1}
    Vault = {v1}
    File = v1
    Treasury = {p1}
    Wallet = {w1}
    Key = {k1}
    Uri = {u1}
    Estimate = {g1}
    MaxNonce = 1
    Overlap = TRUE
SYMMETRY Symmetry
INVARIANTS
    NoFalseEvidence
PROPERTIES
    WalletSurvives
