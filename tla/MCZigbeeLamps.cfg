CONSTANTS
    Nil = Nil
    Top = 2
    Tries = 1
    Colour = {1}
    MaxPresses = 1
    MaxLost = 1
    Dev = {"lamp", "dimmer"}
    Node = {1, 2, 3}
    Attempts = 1
    MaxMoves = 2
    MaxButtons = 2
    MaxFails = 1
    MaxPanics = 1
SPECIFICATION Spec
INVARIANTS ComesBackAsAsked RecordsFit KeptWhenSettled LastPressWins
PROPERTIES Reachability
CHECK_DEADLOCK FALSE
