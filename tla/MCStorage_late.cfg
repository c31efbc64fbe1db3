CONSTANTS
    Nil = Nil
    Proc = {a, b}
    Edit = {e1, e2, e3}
    Cli = {c1}
    MaxVer = 1
    Home = {h1, h2}
    Host = {1, 2}
    Ttl = 1
    Cap = 3
    PerAddress = 2
    Attempts = 1
    Starts = 1
    Window = 1
    Parts = {"kept"}
SYMMETRY Interchangeable
SPECIFICATION MCSpec
INVARIANT RestartKeepsAll
