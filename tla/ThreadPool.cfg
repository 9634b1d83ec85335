CONSTANTS
    NThreads = 3
    MaxRows = 4
    MinRows = 2
    GenMod = 2
    Ctx = {a, b}
    NoCtx = NoCtx
SPECIFICATION FairSpec
INVARIANTS
    FrameIsLive
    EveryRowOnce
PROPERTIES
    CallReturns
    ShutdownEnds
