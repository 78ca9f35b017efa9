SPECIFICATION MCSpec
CONSTANTS
    Offer = {o1, o2}
    Request = {r1, r2}
    Code = {d1, d2}
    Session = {s1}
    Token = {t1, t2}
    Call = {c1, c2}
    Client = {w1}
    Key = {k1}
    o1 = o1
    w1 = w1
    k1 = k1
    None = None
    Asked <- MCAsked
    EntryTTL = 1
    AuthTTL = 1
    MaxEntries = 1
    MaxTime = 2
SYMMETRY Symmetry
INVARIANTS  TokensMatchTheirGrant MapsAreSound
CHECK_DEADLOCK FALSE
