SPECIFICATION Spec
CONSTANTS
    Ratio <- MCRatio
    Window = 3
    RawCap = 11
    PrefillCap = 8
    CompCap = 5
    TopK = 1
    NoRow = NoRow
    Wrong = Wrong
    Ctx = 11
    a = a
    b = b
    e = e
    Token = {a, b, e}
    Eos = e
    Guesses = {b}
    Choice <- MCChoice
    Prompts <- MCUnaligned
    Sampled = {b}
    ResumeMin = 3
    Depth = 3
    Modes = {"fast", "exact", "batch"}
    MaxFaults = 1
    MaxColds = 2
    SaveLens = {7}
    MaxLen = 5
    NoFile = NoFile
    NoCall = NoCall
INVARIANT SameWindow
