CONSTANTS
    Client = {c1, c2, c3}
    Stalling = {c1}
    NoClient = NoClient
SPECIFICATION FairSpec
INVARIANTS
    JobOutlivesWorker
    NoneForgotten
    ResourcesCloseLast
PROPERTIES
    ImplementsService
    AcceptedIsRun
    StopEnds
