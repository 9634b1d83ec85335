CONSTANTS
    a = a
    b = b
    Token = {a, b}
    Mixed = Mixed
    Configs <- MCSameChunk
    ResumeMin = 2
    MinTokens = 2
    ColdMax = 3
    Interval = 2
    Trim = 0
    Align = 2
    Budget = 6
    RejectQuant = TRUE
    Overhead = 1
    MaxMap = 1
    MaxHits = 1
    MaxExcess = 1
    Prompts <- MCPrompts
    Canonical <- MCCanonical
    Sampled = {a}
    MaxAccept = 2
    LogEvery = 2
SPECIFICATION Spec
INVARIANTS
    Coherent
    FilesGenuine
    PromptReady
    EvictedIsSaved
    OnBudget
PROPERTIES
    ContinuedGoesFirst
