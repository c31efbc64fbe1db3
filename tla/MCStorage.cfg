CONSTANTS
    Nil = Nil
    Proc = {a, b}
    Edit = {e1, e2, e3}
    Cli = {c1}
    MaxVer = 3
    Home = {h1, h2}
    Host = {1, 2}
    Ttl = 1
    Cap = 3
    PerAddress = 2
    Attempts = 1
    Starts = 1
    Window = 1
    Parts = {"file", "kept", "book", "limits"}
SYMMETRY Interchangeable
SPECIFICATION MCSpec
INVARIANTS NeverTorn SafeSurvives AckedIsKept ReadsAreFresh LimitsAreOwn
PROPERTY Atomic
