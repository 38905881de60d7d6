SPECIFICATION Spec
CONSTANTS
    c1 = c1
    v1 = v1
    v2 = v2
    p1 = p1
    p2 = p2
    w1 = w1
    w2 = w2
    k1 = k1
    k2 = k2
    None = None
    Command = {c1}
    Vault = {v1, v2}
    Treasury = {p1, p2}
    Wallet = {w1, w2}
    Key = {k1, k2}
SYMMETRY Symmetry
INVARIANTS
    PublishedTogether
