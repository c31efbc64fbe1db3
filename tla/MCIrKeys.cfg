CONSTANTS
    Nil = Nil
    Caller <- MCCaller
    Dropped <- MCDropped
    Code <- MCCode
    Key <- MCKey
    Chan <- MCChan
    Req <- MCReq
    Event <- MCEvent
    Scene <- MCScene
    Binding <- MCBinding
    SceneActions <- MCSceneActions
    FileActions <- MCFileActions
    KeyQueue = 1
    MaxDrops = 1
    MaxPresses = 2
    MaxPanics = 1
    MaxCalls = 2
SPECIFICATION Spec
INVARIANTS Alone PictureIsTrue
PROPERTIES TogglesFlip KeysServed
CHECK_DEADLOCK FALSE
