CONSTANTS
    Client = {c1, c2}
    Stalling = {}
    NoClient = NoClient
SPECIFICATION Spec
INVARIANT
    RefusedIsTold
