CONSTANTS
    m1 = m1
    m2 = m2
    p1 = p1
    p2 = p2
    w1 = w1
    w2 = w2
    c1 = c1
    Nobody = Nobody
    Peers = {m1}
    Parts = {p1, p2}
    Workers = {w1, w2}
    Callers = {c1}
    MaxChanges = 1
SPECIFICATION FairSpec
INVARIANTS
    TypeOK
PROPERTIES
    KeptListed
    AddressesAppear
    AddressesDisappear
    GoneEvicted
