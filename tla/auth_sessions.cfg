SPECIFICATION Spec
CONSTANTS
    u1 = u1
    r1 = r1
    r2 = r2
    r3 = r3
    t1 = t1
    t2 = t2
    t3 = t3
    t4 = t4
    None = None
    Users = {u1}
    Requests = {r1, r2}
    Tokens = {t1, t2, t3}
    MaxLogins = 1
    MaxMails = 1
    MaxVersion = 3
SYMMETRY Symmetry
INVARIANTS
    TypeOK
    OneLivePerChain
    ResetEndsWhatItSaw
    OvershootBounded
