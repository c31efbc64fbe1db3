SPECIFICATION Spec
CONSTANTS
    Nil = Nil
    p1 = p1
    p2 = p2
    k1 = k1
    k2 = k2
    k3 = k3
    Person = {p1}
    Cred = {k1, k2, k3}
    Invite = {}
    Handle = {p1, x1, x2}
    Cer = {x1, x2}
    Tok = {t1, t2, t3}
    Req = {r1, r2}
    Kind = {"login", "refresh", "add", "register", "unkey"}
    Admins = {p1}
    Owner <- TwoKeys
    InviteLife = 1
    AccessLife = 1
    RefreshLife = 2
    ReauthLife = 0
    MaxNow = 1
SYMMETRY Interchangeable
INVARIANTS KeysNeverRunOut AuthIsProof
CHECK_DEADLOCK FALSE
