SPECIFICATION Spec
CONSTANTS
    Nil = Nil
    p1 = p1
    p2 = p2
    k1 = k1
    k2 = k2
    k3 = k3
    Person = {p1, p2}
    Cred = {k1, k2, k3}
    Invite = {i1, i2}
    Handle = {p1, p2, x1, x2}
    Cer = {x1, x2}
    Tok = {t1}
    Req = {r1, r2}
    Kind = {"login", "cli", "redeem", "register", "evict", "name", "back", "revoke"}
    Admins = {p1}
    Owner <- OneEach
    InviteLife = 1
    AccessLife = 1
    RefreshLife = 2
    ReauthLife = 1
    MaxNow = 1
SYMMETRY Interchangeable
INVARIANT InviteOnce
CHECK_DEADLOCK FALSE
