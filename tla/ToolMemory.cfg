CONSTANTS
    c1 = c1
    Client = {c1}
    Worker = Worker
    i1 = i1
    i2 = i2
    i3 = i3
    Id = {i1, i2, i3}
    b1 = b1
    b2 = b2
    b3 = b3
    Block = {b1, b2, b3}
    None = None
    MaxEntries = 2
    MaxBytes = 5
    EntryBytes = 1
    MaxCalls = 2
    MaxAstray = 1
    BlockBytes <- MCBlockBytes
SYMMETRY Alike
SPECIFICATION Spec
INVARIANTS
    IndexesAgree
    WithinBudget
    KeepsMostRecent
    ReplayIsVerbatim
PROPERTIES
    AttachAnswers
