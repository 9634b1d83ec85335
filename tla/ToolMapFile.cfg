CONSTANTS
    i1 = i1
    i2 = i2
    i3 = i3
    CallId = {i1, i2, i3}
    pwd = pwd
    ls = ls
    Text <- MCBlock
    NoBlock = NoBlock
SYMMETRY Ids
SPECIFICATION MapSpec
INVARIANTS
    RestoredIsGenuine
