SPECIFICATION Spec
CONSTANTS
    Parts = {"tree", "stream", "open"}
    Key = {1, 2, 3, 4, 5}
    Value = {1, 2}
    SizeOf <- MCSizeOf
    ChildSize = 2
    MinSize = 2
    MaxSize = 6
    Lambda = 4
    Always = 4
    Windows <- MCWindows
    TreeSetups <- MCTreeSetups
    Window = 3
    CutMin = 2
    CutMax = 4
    Hard <- MCHard
    Easy <- MCEasy
    Workers = 2
    BlockSize = 2
    ShortStream = 2
    MaxEmpty = 2
    NodeSize = 2
    NodeWindow <- MCNodeWindow
    StreamSetups <- MCStreamSetups
    Caller = {"a", "b", "c"}
    KeyOf <- MCKeyOf
    GeometryOf <- MCGeometryOf
    RepoId = {1, 2, 3}
    CallsOf <- MCCallsOf
INVARIANTS
    Canonical ChangesAreDiff ReadsExact StoredWhole MergeExact
    PutsInOrder WriteExact StreamReads
    OpensAsMade RefusesRightly
PROPERTIES WriteEnds
CHECK_DEADLOCK FALSE
