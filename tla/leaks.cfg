SPECIFICATION Spec
CONSTANTS
    Parts = {"stream"}
    Key = {1, 2, 3, 4, 5}
    Value = {1, 2}
    SizeOf <- MCSizeOf
    ChildSize = 2
    MinSize = 2
    MaxSize = 6
    Lambda = 4
    Always = 4
    Windows <- MCWindows
    TreeSetups <- MCTreeSetups
    Window = 3
    CutMin = 2
    CutMax = 4
    Hard <- MCHard
    Easy <- MCEasy
    Workers = 2
    BlockSize = 2
    ShortStream = 2
    MaxEmpty = 2
    NodeSize = 2
    NodeWindow <- MCNodeWindow
    StreamSetups <- Failing
    Caller = {"a", "b", "c"}
    KeyOf <- MCKeyOf
    GeometryOf <- MCGeometryOf
    RepoId = {1, 2, 3}
    CallsOf <- MCCallsOf
PROPERTIES StopWindsDown
CHECK_DEADLOCK FALSE
