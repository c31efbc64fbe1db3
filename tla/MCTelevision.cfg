CONSTANTS
    Nil = Nil
    User = {u1, u2}
    Chunks = 2
    MaxCuts = 1
    MaxLeaves = 1
    MaxShells = 3
    Task = {t1, t2}
    Box = {b1, b2}
    MaxChanges = 1
    MaxCalls = 3
    MaxLost = 1
    MaxDeaths = 1
    Keys = 3
    Room = 2
    Backlog = 1
    Pings = 2
    Caller = {c1, c2}
    Gap = 2
    Polls = 1
    Requests <- MCRequests
    MaxAsks = 3
    MaxLosses = 1
    MaxCrashes = 1
    MaxHands = 1
    MaxPlugCalls = 4
    MaxFaults = 1
    MaxPresses = 1
SPECIFICATION Spec
INVARIANTS AnswersAreOwn FollowsAddress KeysInOrder TogglesSeeTheSet ToldAsItWas
PROPERTIES SessionEnds
CHECK_DEADLOCK FALSE
