CONSTANTS
    a = a
    b = b
    x = x
    NoRow = NoRow
    NoFile = NoFile
    Ratio <- MCRatio
    Prompts <- MCPrompts
    Sampled = {x}
    CapRaw = 3
    Ctxs = {2, 9}
    Versions = {2, 5}
    Metal = TRUE
    Cuts = {1, 5, 10}
    MaxLen = 12
    MaxPrefill = 0
    MaxTainted = 3
SPECIFICATION Spec
CHECK_DEADLOCK FALSE
INVARIANTS
    CacheExact
    AttentionInBounds
